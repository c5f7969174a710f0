---------------------------- MODULE ReplayWindow ----------------------------
(***************************************************************************)
(* One filter of transport/replay.rs driven by an arbitrary arrival order: *)
(* counters may be lost, duplicated and reordered without limit.           *)
(***************************************************************************)
EXTENDS ReplayFilter

CONSTANT Counters        \* the counters that peers use

ASSUME CountersAssumption == Counters \subseteq Nat

VARIABLES
    win,        \* the filter
    accepts     \* history: 0, 1, or 2 for "more than once", per counter

windowVars == <<win, accepts>>

WindowInit ==
    /\ win = NewWindow
    /\ accepts = [c \in Counters |-> 0]

\* check(c) returns true.
Accept(c) ==
    /\ Fresh(win, c)
    /\ win' = Record(win, c)
    /\ accepts' = [accepts EXCEPT ![c] = IF @ = 0 THEN 1 ELSE 2]

\* check(c) returns false and leaves the window alone.
Refuse(c) ==
    /\ ~Fresh(win, c)
    /\ UNCHANGED windowVars

WindowNext == \E c \in Counters : Accept(c) \/ Refuse(c)

WindowSpec == WindowInit /\ [][WindowNext]_windowVars

-----------------------------------------------------------------------------

\* The filter and its history have their types (struct ReplayWindow).
TypeOK ==
    /\ win \in Window
    /\ accepts \in [Counters -> 0 .. 2]

\* BE-TR-03: whatever the order of arrival, and however far the window has
\* slid, check() answers "fresh" at most once for each counter.
AtMostOnce == \A c \in Counters : accepts[c] <= 1

\* check() refuses nothing it should take: inside the window a bit is set
\* exactly for the counters that were accepted, so a late counter that was
\* never seen is still fresh.
WindowExact ==
    \A c \in Counters :
        (win.initialized /\ c <= win.largest /\ win.largest - c < WINDOW_BITS)
            => (win.largest - c \in win.bits <=> accepts[c] >= 1)

\* The inductive invariant behind both: nothing is accepted before the first
\* check, and an accepted counter is never above `largest`.
Inv ==
    /\ TypeOK
    /\ AtMostOnce
    /\ WindowExact
    /\ ~win.initialized => win.bits = {} /\ \A c \in Counters : accepts[c] = 0
    /\ \A c \in Counters : accepts[c] >= 1 => c <= win.largest

=============================================================================
