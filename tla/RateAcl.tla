------------------------------ MODULE RateAcl ------------------------------
(***************************************************************************)
(* internal/rateacl.go: Authorize admits a call when the first entry that  *)
(* includes the caller has a limit above the rate it has counted.  Every   *)
(* method of messenger.go asks RateAclIn first, in a goroutine of its own; *)
(* Push then asks RateAclSender about the sender of the message.  A caller *)
(* that is refused for the rate tries again after a delay (backoff in      *)
(* peers.go; its length is in Backoff).                                    *)
(*                                                                         *)
(* The counter is external: what it counts leaves its window after a       *)
(* minute, and Rate1m is the number of calls in the window by its seconds. *)
(* Limits are calls per second, and need not be whole numbers.             *)
(***************************************************************************)
EXTENDS Backoff, FiniteSets

CONSTANTS
    Callers,    \* the calls that may be in progress at the same time
    Pushers,    \* those that are calls of Push
    Acl,        \* Acl[j]: list 1, RateAclIn, and list 2, RateAclSender
    Owner,      \* Owner[j]: those that list j meets with the key of the node
    Steps,      \* the window of a counter, in seconds
    Scale,      \* the unit of a limit is a call in Scale seconds
    Me,         \* the caller whose attempts are counted
    MaxCalls    \* bound: the calls of the others

\* Acl[j] is a sequence of entries: the callers it includes, and its limit, which
\* is limit / Scale calls per second.
ASSUME RateAclAssumption ==
    /\ IsFiniteSet(Callers)
    /\ Pushers \subseteq Callers /\ Me \in Callers
    /\ \A j \in 1 .. 2 : /\ Owner[j] \subseteq Callers
                        /\ Acl[j] \in Seq([who : SUBSET Callers, limit : Nat])
    /\ Steps \in Nat \ {0}
    /\ Scale \in Nat \ {0}
    /\ MaxCalls \in Nat

Lists == 1 .. 2

VARIABLES
    pc,         \* pc[c]: where the call of c is
    list,       \* list[c]: the list that it asks
    recent,     \* recent[j][i]: how many seconds ago entry i of list j counted each
                \* of the calls in its window, the last call first
    attempt,    \* how often Me was refused in a row
    calls       \* the calls of the others so far

vars == <<pc, list, recent, attempt, calls>>

\* The values of the variables.
TypeOK ==
    /\ pc \in [Callers -> {"idle", "ask", "incr", "wait", "admitted", "denied"}]
    /\ list \in [Callers -> Lists]
    /\ \A j \in Lists : recent[j] \in [DOMAIN Acl[j] -> Seq(1 .. Steps)]
    /\ attempt \in 0 .. MaxAttempt
    /\ calls \in 0 .. MaxCalls

Init ==
    /\ pc = [c \in Callers |-> "idle"]
    /\ list = [c \in Callers |-> 1]
    /\ recent = [j \in Lists |-> [i \in DOMAIN Acl[j] |-> << >>]]
    /\ attempt = 0
    /\ calls = 0

-----------------------------------------------------------------------------
(* Authorize, of the list that the call has come to.                       *)

\* The calls in the window of the counter of an entry.
Count(j, i) == Len(recent[j][i])

\* The entries that include c; the first of them decides.
Includes(j, c) == {i \in DOMAIN Acl[j] : c \in Acl[j][i].who}
Entry(j, c) == CHOOSE i \in Includes(j, c) : \A k \in Includes(j, c) : i <= k
Permits(j, c) == Includes(j, c) # {} /\ Acl[j][Entry(j, c)].limit # 0

\* Two plausible slips in the comparison.
Exceeded_Above(j, i) == Count(j, i) * Scale > Acl[j][i].limit * Steps
Exceeded_WithThis(j, i) == (Count(j, i) + 1) * Scale >= Acl[j][i].limit * Steps

\* Rate1m, which is Count / Steps, has reached the limit, which is limit / Scale.
Exceeded(j, i) == Count(j, i) * Scale >= Acl[j][i].limit * Steps

\* The call passes list[c]: Push asks the next one, the others go on.
Passes(c) ==
    IF c \in Pushers /\ list[c] = 1
    THEN pc' = [pc EXCEPT ![c] = "ask"] /\ list' = [list EXCEPT ![c] = 2] /\ UNCHANGED attempt
    ELSE /\ pc' = [pc EXCEPT ![c] = "admitted"]
         /\ attempt' = IF c = Me THEN 0 ELSE attempt
         /\ UNCHANGED list

\* The key is that of the node itself: not counted.
AuthorizeOwner(c) ==
    /\ pc[c] = "ask" /\ c \in Owner[list[c]]
    /\ Passes(c)
    /\ UNCHANGED <<recent, calls>>

\* ErrNoPermissions: no entry, or one with limit 0.
AuthorizeDenies(c) ==
    /\ pc[c] = "ask" /\ c \notin Owner[list[c]] /\ ~ Permits(list[c], c)
    /\ pc' = [pc EXCEPT ![c] = "denied"]
    /\ UNCHANGED <<list, recent, attempt, calls>>

\* The rate is read: RateLimitExceeded, or the counter is to be incremented.
AuthorizeRate(c) ==
    /\ pc[c] = "ask" /\ c \notin Owner[list[c]] /\ Permits(list[c], c)
    /\ IF Exceeded(list[c], Entry(list[c], c))
       THEN /\ pc' = [pc EXCEPT ![c] = "wait"]
            /\ attempt' = IF c = Me /\ attempt < MaxAttempt THEN attempt + 1 ELSE attempt
       ELSE pc' = [pc EXCEPT ![c] = "incr"] /\ UNCHANGED attempt
    /\ UNCHANGED <<list, recent, calls>>

\* c.Incr(1), in a later step than the comparison.
Incr(c) ==
    /\ pc[c] = "incr"
    /\ recent' = [recent EXCEPT ![list[c]][Entry(list[c], c)] = <<1>> \o @]
    /\ Passes(c)
    /\ UNCHANGED calls

-----------------------------------------------------------------------------
\* A call arrives; Me calls once, and retries.
Call(c) ==
    /\ \/ pc[c] = "idle"
       \/ c # Me /\ pc[c] \in {"admitted", "denied"}
    /\ c # Me => calls < MaxCalls
    /\ calls' = IF c = Me THEN calls ELSE calls + 1
    /\ pc' = [pc EXCEPT ![c] = "ask"]
    /\ list' = [list EXCEPT ![c] = 1]
    /\ UNCHANGED <<recent, attempt>>

\* The delay of backoff is over: the whole call is made again, and what list 1
\* counted before list 2 refused it is counted again.
Retry(c) ==
    /\ pc[c] = "wait"
    /\ pc' = [pc EXCEPT ![c] = "ask"]
    /\ list' = [list EXCEPT ![c] = 1]
    /\ UNCHANGED <<recent, attempt, calls>>

\* One second later, without what has left the window.
Older(ages) ==
    LET kept == {n \in DOMAIN ages : ages[n] < Steps}
    IN  [n \in 1 .. Cardinality(kept) |-> ages[n] + 1]

\* A second goes by: the windows move on.
Tick ==
    /\ \E j \in Lists : \E i \in DOMAIN Acl[j] : Count(j, i) > 0
    /\ recent' = [j \in Lists |-> [i \in DOMAIN Acl[j] |-> Older(recent[j][i])]]
    /\ UNCHANGED <<pc, list, attempt, calls>>

Authorize(c) == AuthorizeOwner(c) \/ AuthorizeDenies(c) \/ AuthorizeRate(c) \/ Incr(c)

Next == Tick \/ \E c \in Callers : Call(c) \/ Authorize(c) \/ Retry(c)

Spec == Init /\ [][Next]_vars

\* Time passes, the goroutines of the calls run, and delays come to their end.
FairSpec == Spec /\ WF_vars(Tick) /\ \A c \in Callers : WF_vars(Authorize(c) \/ Retry(c))

-----------------------------------------------------------------------------
\* The callers whose calls entry i of list j counts, and those on their way to Incr.
May(j, i) == {c \in Callers \ Owner[j] : /\ Permits(j, c) /\ Entry(j, c) = i
                                         /\ j = 2 => c \in Pushers}
Passing(j, i) == {c \in May(j, i) : pc[c] = "incr" /\ list[c] = j}

\* That n calls in the window of the entry are less than what its limit allows for
\* it, and one for each of its callers.
Within(j, i, n) == n * Scale < Acl[j][i].limit * Steps + Cardinality(May(j, i)) * Scale

\* Authorize reads the rate and increments the counter in two steps
\* (rateacl.go:53-57), so calls in progress at the same time pass together.  The
\* damage is bounded: in a window an entry counts less than the limit per second
\* allows for all its seconds, and one call for each caller that may be in progress,
\* with the calls still on their way to Incr.
BoundedOvershoot ==
    \A j \in Lists : \A i \in DOMAIN Acl[j] :
        Acl[j][i].limit > 0 => Within(j, i, Count(j, i) + Cardinality(Passing(j, i)))

\* A caller that both lists permit is admitted in the end, once the others have
\* made their calls: refusals are not counted by the list that refuses, so
\* retries do not keep the caller out, although a call that RateAclSender
\* refuses (messenger.go:58) has used up some of RateAclIn each time.
AdmittedInTheEnd ==
    (\A j \in Lists : Me \in Owner[j] \/ Permits(j, Me))
      => (pc[Me] = "ask" ~> pc[Me] = "admitted")

\* The delay before each retry is what the comments of peers.go say, limited to
\* maxBackoff, up to the attempt where the arithmetic of the machine overflows
\* (peers.go:393 and 454).
DelayAsAnnounced == AsAnnounced[attempt]
=============================================================================
