----------------------------- MODULE UnixServer -----------------------------
(***************************************************************************)
(* example/unix: processes that serve the same socket path, and one client *)
(* of them at a time (connections share nothing but the frozen set and     *)
(* table).  A server that is killed leaves the socket file; a server that  *)
(* ends removes the path, whatever file is there by then.                  *)
(***************************************************************************)
EXTENDS SpecLoader

CONSTANTS
  Servers,     (* Processes, each of them started again when it has ended.  *)
  Probes       (* What the client sends: some of the Inputs.                *)

VARIABLES
  path,        (* The server whose listener made the socket file, or none.  *)
  proc,        (* Of each server: where main and the goroutine for signals
                  are, whether its listener is open, and has unlinked its
                  path (unlinkOnce).                                        *)
  killed, met, (* History: the servers whose last process was killed, and
                  was alive while another one was.                          *)
  conn,        (* The server the client is connected to, or none.           *)
  lines, sent  (* The lines read from the connection, and the results.      *)

connVars == <<conn, lines, sent>>
unixVars == <<path, proc, killed, met, connVars>>

NoOne == "none"

ASSUME ServerAssumption == NoOne \notin Servers
ASSUME ProbeAssumption == Probes \subseteq Inputs

Main(s) == proc[s].main
Alive(s) == Main(s) \notin {"off", "fatal"}
Fresh(main) == [main |-> main, sig |-> "wait", open |-> FALSE, unlinked |-> FALSE]

UnixInit ==
  /\ path = NoOne /\ proc = [s \in Servers |-> Fresh("off")]
  /\ killed = {} /\ met = {}
  /\ conn = NoOne /\ lines = <<>> /\ sent = <<>>

(* A process begins; the spec is loaded. *)
Start(s) ==
  /\ lpc = "loaded" /\ ~Alive(s)
  /\ proc' = [proc EXCEPT ![s] = Fresh("started")]
  /\ killed' = killed \ {s}
  /\ LET others == {t \in Servers : Alive(t)}
     IN met' = IF others = {} THEN met \ {s} ELSE met \cup others \cup {s}
  /\ UNCHANGED <<path, connVars>>

To(s, p) == proc' = [proc EXCEPT ![s] = p] /\ UNCHANGED <<killed, met, connVars>>

(* Mutant: the stale socket file left in the way. *)
RemoveStaleNever(s) ==
  /\ Main(s) = "started" /\ To(s, Fresh("removed"))
  /\ UNCHANGED path

RemoveStale(s) ==
  /\ Main(s) = "started" /\ To(s, Fresh("removed"))
  /\ path' = NoOne

Listen(s) ==
  /\ Main(s) = "removed"
  /\ \/ path = NoOne /\ path' = s /\ To(s, [proc[s] EXCEPT !.main = "accept", !.open = TRUE])
     \/ path # NoOne /\ To(s, Fresh("fatal")) /\ UNCHANGED path

(* SIGINT or SIGTERM wakes the goroutine. *)
Signal(s) ==
  /\ Main(s) \in {"accept", "close", "remove"} /\ proc[s].sig = "wait"
  /\ To(s, [proc[s] EXCEPT !.sig = "unlink"])
  /\ UNCHANGED path

(* ln.Close: the listener unlinks its path once, and then closes its socket. *)
Unlink(s) == path' = IF proc[s].unlinked THEN path ELSE NoOne

SignalUnlink(s) ==
  /\ Alive(s) /\ proc[s].sig = "unlink" /\ Unlink(s)
  /\ To(s, [proc[s] EXCEPT !.sig = "close", !.unlinked = TRUE])

SignalClose(s) ==
  /\ Alive(s) /\ proc[s].sig = "close"
  /\ To(s, [proc[s] EXCEPT !.sig = "remove", !.open = FALSE])
  /\ UNCHANGED path

HangUp == conn' = NoOne /\ lines' = <<>> /\ sent' = <<>>

(* The process ends, its goroutines and its connections with it. *)
Ends(s) ==
  /\ proc' = [proc EXCEPT ![s] = Fresh("off")]
  /\ IF conn = s THEN HangUp ELSE UNCHANGED connVars

(* os.Remove and os.Exit. *)
SignalExit(s) ==
  /\ Alive(s) /\ proc[s].sig = "remove" /\ Ends(s)
  /\ path' = NoOne
  /\ UNCHANGED <<killed, met>>

(* Accept fails because the listener was closed, or for want of descriptors:
   either ends the loop, and with it the server. *)
AcceptFails(s) ==
  /\ Main(s) = "accept" /\ To(s, [proc[s] EXCEPT !.main = "close"])
  /\ UNCHANGED path

(* The deferred function of main, which may meet the goroutine. *)
DeferredClose(s) ==
  /\ Main(s) = "close" /\ Unlink(s)
  /\ To(s, [proc[s] EXCEPT !.main = "remove", !.unlinked = TRUE, !.open = FALSE])

DeferredRemove(s) ==
  /\ Main(s) = "remove" /\ Ends(s)
  /\ path' = NoOne
  /\ UNCHANGED <<killed, met>>

Kill(s) ==
  /\ Alive(s) /\ Ends(s)
  /\ killed' = killed \cup {s}
  /\ UNCHANGED <<path, met>>

(* The client connects: to the listener that made the socket file. *)
Connect(s) ==
  /\ path = s /\ proc[s].open /\ Main(s) = "accept" /\ conn = NoOne
  /\ conn' = s
  /\ UNCHANGED <<path, proc, killed, met, lines, sent>>

(* serve: one line in, and its result out. *)
Serve(line) ==
  /\ conn # NoOne /\ Len(lines) < MaxInputs
  /\ lines' = Append(lines, line)
  /\ sent' = sent \o CASE line = Blank -> <<>>
                       [] line = Junk -> <<[error |-> line]>>
                       [] OTHER -> <<resolve(entries, line)>>
  /\ UNCHANGED <<path, proc, killed, met, conn>>

(* The client closes, a line is over the limit, or the peer is gone when a
   result is written. *)
ConnectionEnds ==
  /\ conn # NoOne /\ HangUp
  /\ UNCHANGED <<path, proc, killed, met>>

UnixNext ==
  \/ \E s \in Servers :
       \/ Start(s) \/ RemoveStale(s) \/ Listen(s) \/ AcceptFails(s)
       \/ Signal(s) \/ SignalUnlink(s) \/ SignalClose(s) \/ SignalExit(s)
       \/ DeferredClose(s) \/ DeferredRemove(s) \/ Kill(s) \/ Connect(s)
  \/ ConnectionEnds \/ \E line \in Probes : Serve(line)
=============================================================================
