------------------------ MODULE MC_ProviderFunction -------------------------
EXTENDS ProviderFunction

(* The order of the fetched run, without the providers that repeat another's
   part: Cloudflare has two feeds, and Fastly says what Cloudflare says. *)
Fetched == {<<"aws", "cloudflare", "cloudflare", "google-cloud">>,
            <<"aws", "fastly", "google-cloud", "tor">>}

(* What -in may name: up to three sources, in any order, also repeated. *)
Given == UNION {[1 .. n -> {"aws", "cloudflare", "google-cloud"}] : n \in 1 .. 3}

AllSources == Fetched \cup Given

One == {"10.0.0.0/8"}
=============================================================================
