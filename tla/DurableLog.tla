----------------------------- MODULE DurableLog -----------------------------
(***************************************************************************)
(* What the persistence service promises about one live session: storage   *)
(* is an append-only prefix of the session's log, except that a rewind     *)
(* first shortens storage and then brings the log back to it               *)
(* (session/session-persistence, "Invariants every backend must honor",    *)
(* and truncateStored).  How and when events travel is not visible here.   *)
(***************************************************************************)
EXTENDS Naturals, Sequences

CONSTANT Event

VARIABLES log,       \* the events of the live session
          stored,    \* the events on disk
          rewound    \* storage was cut and the log was not yet

IsPrefixOf(s, t) == Len(s) <= Len(t) /\ s = SubSeq(t, 1, Len(s))

Init ==
    /\ log \in Seq(Event)
    /\ stored \in Seq(Event)
    /\ IsPrefixOf(stored, log)
    /\ rewound = FALSE

\* The session accepts an event.
Accept ==
    /\ ~rewound
    /\ \E e \in Event : log' = Append(log, e)
    /\ UNCHANGED <<stored, rewound>>

\* The next events of the log become durable, together and in order.
Persist ==
    /\ ~rewound
    /\ \E n \in Len(stored) + 1 .. Len(log) : stored' = SubSeq(log, 1, n)
    /\ UNCHANGED <<log, rewound>>

\* A rewind cuts a log that is wholly durable ...
Cut ==
    /\ ~rewound
    /\ stored = log
    /\ \E n \in 0 .. Len(stored) : stored' = SubSeq(stored, 1, n)
    /\ rewound' = TRUE
    /\ UNCHANGED log

\* ... and the live log follows.
Follow ==
    /\ rewound
    /\ log' = stored
    /\ rewound' = FALSE
    /\ UNCHANGED stored

Next == Accept \/ Persist \/ Cut \/ Follow

Spec == Init /\ [][Next]_<<log, stored, rewound>>
=============================================================================
