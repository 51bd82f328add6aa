------------------------------- MODULE Gate -------------------------------
(***************************************************************************)
(* The concurrency gate of internal/upstream/limiter.go: one counting      *)
(* semaphore per key, each a buffered Go channel that is thrown away and   *)
(* replaced when a caller arrives with a limit other than its capacity.    *)
(*                                                                         *)
(* A channel is an identity with a capacity and a fill; a call remembers   *)
(* the channel it was handed, because it blocks on that object and not on  *)
(* the map entry.  An identity nobody references any more is garbage and   *)
(* may be handed out again.                                                *)
(***************************************************************************)
EXTENDS Naturals, FiniteSets

CONSTANTS
    Keys,       \* instance IDs
    Calls,      \* concurrent invocations of Acquire
    Limits,     \* the values of max callers pass; 0 means "no limit"
    Chans,      \* identities for channels, one per live object
    NoChan      \* the absence of a channel

ASSUME GateAssumption ==
    /\ IsFiniteSet(Calls)
    /\ Limits \subseteq Nat
    /\ NoChan \notin Chans

NoKey == "no key"

VARIABLES
    sems,   \* sems[k]: the channel the map holds for k, or NoChan
    chans,  \* chans[n]: capacity and number of buffered elements
    slot,   \* slot[c]: where call c stands between Acquire and release
    asked   \* history: the limits requested for a key so far

vars == <<sems, chans, slot, asked>>

Channel == [cap : Nat, len : Nat]
IdleSlot == [st |-> "idle", key |-> NoKey, chan |-> NoChan]
Slot == [st : {"idle", "waiting", "holding"},
         key : Keys \cup {NoKey},
         chan : Chans \cup {NoChan}]

Holders(n) == {c \in Calls : slot[c].st = "holding" /\ slot[c].chan = n}
InFlight(k) == {c \in Calls : slot[c].st = "holding" /\ slot[c].key = k}
Current(n) == \E k \in Keys : sems[k] = n
Referenced(n) == \E c \in Calls : slot[c].chan = n

\* A channel that make() returns; which identity it gets tells nothing.
Fresh == CHOOSE n \in Chans : ~Current(n) /\ ~Referenced(n)

Init ==
    /\ sems = [k \in Keys |-> NoChan]
    /\ chans = [n \in Chans |-> [cap |-> 0, len |-> 0]]
    /\ slot = [c \in Calls |-> IdleSlot]
    /\ asked = [k \in Keys |-> {}]

-----------------------------------------------------------------------------
\* The map holds a channel of the requested capacity for k.
HasChannel(k, max) == sems[k] # NoChan /\ chans[sems[k]].cap = max

\* Mutant of Sem: the capacity test is lost and every call makes a channel.
SemAlwaysFresh(c, k, max) ==
    \E n \in Chans :
        /\ ~Current(n) /\ ~Referenced(n) /\ n = Fresh
        /\ sems' = [sems EXCEPT ![k] = n]
        /\ chans' = [chans EXCEPT ![n] = [cap |-> max, len |-> 0]]
        /\ slot' = [slot EXCEPT ![c] = [st |-> "waiting", key |-> k, chan |-> n]]

\* Gate.sem: the map's channel for k, replaced when its capacity is not max.
\* The caller leaves with the channel it will block on.
Sem(c, k, max) ==
    \/ /\ HasChannel(k, max)
       /\ slot' = [slot EXCEPT ![c] = [st |-> "waiting", key |-> k, chan |-> sems[k]]]
       /\ UNCHANGED <<sems, chans>>
    \/ /\ ~HasChannel(k, max)
       /\ \E n \in Chans :
            /\ ~Current(n) /\ ~Referenced(n) /\ n = Fresh
            /\ sems' = [sems EXCEPT ![k] = n]
            /\ chans' = [chans EXCEPT ![n] = [cap |-> max, len |-> 0]]
            /\ slot' = [slot EXCEPT ![c] = [st |-> "waiting", key |-> k, chan |-> n]]

\* Gate.Acquire up to its select: without a limit the call goes straight in.
Request(c, k, max) ==
    /\ slot[c].st = "idle"
    /\ asked' = [asked EXCEPT ![k] = @ \cup {max}]
    /\ \/ /\ max = 0
          /\ slot' = [slot EXCEPT ![c] = [st |-> "holding", key |-> k, chan |-> NoChan]]
          /\ UNCHANGED <<sems, chans>>
       \/ /\ max > 0
          /\ Sem(c, k, max)

\* Mutant of TakeSlot: the last slot of a channel is never handed out.
TakeSlotOffByOne(c) ==
    /\ slot[c].st = "waiting"
    /\ chans[slot[c].chan].len + 1 < chans[slot[c].chan].cap
    /\ chans' = [chans EXCEPT ![slot[c].chan].len = @ + 1]
    /\ slot' = [slot EXCEPT ![c].st = "holding"]
    /\ UNCHANGED <<sems, asked>>

\* The select's send succeeds on the channel the call was handed.
TakeSlot(c) ==
    /\ slot[c].st = "waiting"
    /\ chans[slot[c].chan].len < chans[slot[c].chan].cap
    /\ chans' = [chans EXCEPT ![slot[c].chan].len = @ + 1]
    /\ slot' = [slot EXCEPT ![c].st = "holding"]
    /\ UNCHANGED <<sems, asked>>

\* Mutant of GiveUp: a call that was never served gives a slot back.
GiveUpReleases(c) ==
    /\ slot[c].st = "waiting"
    /\ slot' = [slot EXCEPT ![c] = IdleSlot]
    /\ chans' = [chans EXCEPT ![slot[c].chan].len = @ - 1]
    /\ UNCHANGED <<sems, asked>>

\* The select's other branch: the caller's context ended first.
GiveUp(c) ==
    /\ slot[c].st = "waiting"
    /\ slot' = [slot EXCEPT ![c] = IdleSlot]
    /\ UNCHANGED <<sems, chans, asked>>

\* Mutant of Release: receives from the channel now in the map, not from the
\* one captured at Acquire (a receive from an empty channel is a no-op here).
ReleaseOnCurrent(c) ==
    /\ slot[c].st = "holding"
    /\ slot' = [slot EXCEPT ![c] = IdleSlot]
    /\ LET n == sems[slot[c].key]
       IN  chans' = IF n # NoChan /\ chans[n].len > 0
                    THEN [chans EXCEPT ![n].len = @ - 1] ELSE chans
    /\ UNCHANGED <<sems, asked>>

\* The function Acquire returned: one receive from the captured channel
\* (sync.Once makes a second call harmless), nothing when there was no limit.
Release(c) ==
    /\ slot[c].st = "holding"
    /\ slot' = [slot EXCEPT ![c] = IdleSlot]
    /\ chans' = IF slot[c].chan = NoChan THEN chans
                ELSE [chans EXCEPT ![slot[c].chan].len = @ - 1]
    /\ UNCHANGED <<sems, asked>>

Next ==
    \E c \in Calls :
        \/ \E k \in Keys, max \in Limits : Request(c, k, max)
        \/ TakeSlot(c)
        \/ GiveUp(c)
        \/ Release(c)

Spec == Init /\ [][Next]_vars

\* Every call ends (its deadline bounds it), so its slot is released; a
\* channel's blocked senders are queued first-in first-out by the Go runtime,
\* so one that keeps seeing free slots is served.
Fairness ==
    \A c \in Calls : WF_vars(Release(c)) /\ SF_vars(TakeSlot(c))

FairSpec == Spec /\ Fairness

-----------------------------------------------------------------------------
TypeOK ==
    /\ sems \in [Keys -> Chans \cup {NoChan}]
    /\ chans \in [Chans -> Channel]
    /\ slot \in [Calls -> Slot]
    /\ asked \in [Keys -> SUBSET Limits]

(* The buffer of every channel, replaced or not, counts exactly the calls   *)
(* that hold one of its slots: a release that arrives after the map moved   *)
(* on neither frees a slot of the new channel nor loses one of the old.     *)
SlotsAccounted ==
    \A n \in Chans : Current(n) \/ Referenced(n) =>
        chans[n].len = Cardinality(Holders(n))

(* As long as every caller of a key has asked for the same limit, no more   *)
(* than that many of them are in flight, whatever other keys do: the bound  *)
(* on worst-case memory that the type's comment promises.                   *)
BoundedInFlight ==
    \A k \in Keys : \A max \in Limits \ {0} :
        asked[k] = {max} => Cardinality(InFlight(k)) <= max

(* A call queued on a channel, current or replaced, does not stay there     *)
(* for ever: Acquire's wait ends.                                           *)
WaiterServed ==
    \A c \in Calls : (slot[c].st = "waiting") ~> (slot[c].st # "waiting")
=============================================================================
