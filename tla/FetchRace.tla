------------------------------ MODULE FetchRace ------------------------------
(***************************************************************************)
(* The value of computedFetch (frontend/utils/index.ts): a request is      *)
(* started whenever the url it is computed from has changed, and every     *)
(* answer is written to the same ref when it comes, in whatever order the  *)
(* answers come.  Reruns of watchEffect are queued by Vue: the effect sees *)
(* the last of several changes, and an answer may come before it runs.     *)
(* This is about a component that stays while its input changes: a page    *)
(* that Nuxt sets up anew for every path has a new ref for each.           *)
(***************************************************************************)
EXTENDS Naturals, Sequences

CONSTANTS
  Urls,         \* what fn() may return
  NoUrl,        \* fn() returns undefined or ""
  MaxRequests   \* bound: how many requests a behaviour may start

ASSUME FetchAssumption == NoUrl \notin Urls /\ MaxRequests \in Nat

VARIABLES
  url,      \* what fn() would return now
  queued,   \* the effect is to run again
  sent,     \* request -> its url, numbered in the order they were started
  flight,   \* the requests that are not answered
  inner     \* the ref: its state, and the url of the request that wrote it

fetchVars == <<url, queued, sent, flight, inner>>

Newest == Len(sent)
Shown == {"init", "loading", "ok", "error"}

\* The effect is created with the component; its first run is the first Run
\* (a navigation before it is the same as another url to begin with).
FetchInit ==
  /\ url \in Urls \union {NoUrl}
  /\ queued = TRUE
  /\ sent = <<>>
  /\ flight = {}
  /\ inner = [state |-> "init", of |-> NoUrl]

\* The route changes, and with it the computed value the effect depends on.
Navigate(u) ==
  /\ u # url
  /\ url' = u
  /\ queued' = TRUE
  /\ UNCHANGED <<sent, flight, inner>>

\* Mutant: it shows that it is loading before it looks at the url.
RunLoadsFirst ==
  /\ queued /\ url = NoUrl
  /\ queued' = FALSE
  /\ inner' = [state |-> "loading", of |-> url]
  /\ UNCHANGED <<url, sent, flight>>

\* The effect, run up to its await; without a url it leaves the ref as it is.
RunWithoutUrl ==
  /\ queued /\ url = NoUrl
  /\ queued' = FALSE
  /\ UNCHANGED <<url, sent, flight, inner>>

\* With a url it shows that it is loading, and starts a request.
Run ==
  /\ queued /\ url # NoUrl
  /\ Newest < MaxRequests
  /\ queued' = FALSE
  /\ sent' = Append(sent, url)
  /\ flight' = flight \union {Newest + 1}
  /\ inner' = [state |-> "loading", of |-> url]
  /\ UNCHANGED url

\* safeFetch never throws: a refused request, a bad status and a body that
\* does not parse are all an answer that is an error.
Written(i, state) == [state |-> state, of |-> sent[i]]

Answer(i, state) ==
  /\ i \in flight
  /\ flight' = flight \ {i}
  /\ inner' = Written(i, state)
  /\ UNCHANGED <<url, queued, sent>>

FetchNext ==
  \/ \E u \in Urls \union {NoUrl} : Navigate(u)
  \/ RunWithoutUrl
  \/ Run
  \/ \E i \in flight, state \in {"ok", "error"} : Answer(i, state)

FetchSpec == FetchInit /\ [][FetchNext]_fetchVars

-----------------------------------------------------------------------------
\* Types: requests are numbered in the order of their start, and only those
\* that were started are in flight (index.ts:46-53).
FetchTypeOK ==
  /\ url \in Urls \union {NoUrl}
  /\ queued \in BOOLEAN
  /\ sent \in Seq(Urls)
  /\ Newest <= MaxRequests /\ flight \subseteq 1 .. Newest
  /\ inner.state \in Shown /\ inner.of \in Urls \union {NoUrl}

\* The ref follows the requests, through runs without a url and answers in any
\* order: as long as it is as it was made nothing was asked for, it is loading
\* only while the newest request is in flight, so that a page does not load for
\* ever once everything is answered, and its content is what a request that has
\* been answered brought (index.ts:46-54).  Nothing more is said of which one: the
\* last answer stays, also when a newer request was answered before it, and
\* that of an earlier url, while the newest request is in flight or when there
\* is no url any more.
RefFollowsRequests ==
  /\ inner.state = "init" => Newest = 0
  /\ inner.state = "loading" => Newest \in flight /\ inner.of = sent[Newest]
  /\ inner.state \in {"ok", "error"} => \E i \in (1 .. Newest) \ flight : inner.of = sent[i]

=============================================================================
