---------------------------- MODULE Continuation ----------------------------
(***************************************************************************)
(* The manager of continuable subagents: deliveries to durable children,   *)
(* the Activation each child has while it is resident, ownership between   *)
(* Activations, natural settlement, child-first disposal and the two       *)
(* drains (packages/subagent/subagent/src/continuation.ts).                *)
(*                                                                         *)
(* A step is a span without await.  An Agent is seen as the manager sees   *)
(* it: busy in a turn or not, with a number of accepted waking messages it *)
(* has not claimed.  Descriptors, content, providers and errors are left   *)
(* out; creating or resuming an Agent and disposing of its handle succeed  *)
(* or fail whenever they like.                                             *)
(***************************************************************************)
EXTENDS Naturals, FiniteSets, Sequences

CONSTANTS Children,       \* durable child session ids
          Parent,         \* parentSession of each child
          MaxDeliveries,  \* bound: startContinuable() and followup() calls
          MaxReports,     \* bound: reportFrom() calls
          MaxInterrupts,  \* bound: interrupt() calls that find a turn
          Drains          \* which drains the deployment may ask for

\* A child is started by a parent that was there before it, so no child is its
\* own ancestor: among any children there is one whose parent is not.
ASSUME ParentAssumption ==
    /\ DOMAIN Parent = Children
    /\ \A set \in (SUBSET Children) \ {{}} : \E k \in set : Parent[k] \notin set
ASSUME DeliveryAssumption == MaxDeliveries \in Nat
ASSUME DrainAssumption == Drains \subseteq {"all", "scoped"}

Deliveries == 1..MaxDeliveries   \* numbered as they are made

VARIABLES
    residency,  \* activations: absent, live, or how far its disposal is
    agent,      \* the registry: incarnation of each registered child, or 0
    born,       \* incarnations so far
    busy,       \* the child's Agent is in a turn
    accepted,   \* accepted waking messages still in its inbox
    parked,     \* the driver went idle over the inbox, until the next waking send
    owned,      \* ownedChildren of each child's Activation
    watcher,    \* where watchSettlement() is
    poked,      \* the poke promise it captured has resolved
    lock,       \* ChildLock: who holds it and who waits, in order
    delivery,   \* progress of each call
    drain,      \* which drain has begun
    drainAt,    \* how far it is
    drainWaits, \* the Activations the drain disposes of
    reports, interrupts

agentVars == <<busy, accepted, parked, reports, interrupts>>
drainVars == <<drain, drainAt, drainWaits>>
vars == <<residency, agent, born, agentVars, owned, watcher, poked, lock,
          delivery, drainVars>>

Resident == {k \in Children : residency[k] # "absent"}

\* The places in a lock's queue: a delivery's, and the watcher's of the n-th
\* incarnation.
Delivery(d) == [who |-> "delivery", nr |-> d]
Watcher(n)  == [who |-> "watcher", nr |-> n]
Idle     == [phase |-> "idle"]
Ended    == [phase |-> "ended"]

\* The registered incarnation of k's parent; a parent that is no child is a
\* host-owned Agent and stays.
LiveParent(k) == IF Parent[k] \in Children THEN agent[Parent[k]] ELSE 1

\* assertAdmitting(): every child is below the one host-owned root.
Admitting == drain = "no"

Init ==
    /\ residency = [k \in Children |-> "absent"]
    /\ agent = [k \in Children |-> 0] /\ born = [k \in Children |-> 0]
    /\ busy = [k \in Children |-> FALSE] /\ accepted = [k \in Children |-> 0]
    /\ parked = [k \in Children |-> FALSE] /\ owned = [k \in Children |-> {}]
    /\ watcher = [k \in Children |-> "none"] /\ poked = [k \in Children |-> FALSE]
    /\ lock = [k \in Children |-> <<>>]
    /\ delivery = [d \in Deliveries |-> Idle]
    /\ drain = "no" /\ drainAt = "none" /\ drainWaits = {} /\ reports = 0 /\ interrupts = 0

-----------------------------------------------------------------------------
(* Parts of the handlers.                                                  *)

Holds(k, who) == lock[k] # <<>> /\ Head(lock[k]) = who
Leave(k)      == lock' = [lock EXCEPT ![k] = Tail(@)]

Caller(d) == delivery[d]
To(d, phase) == delivery' = [delivery EXCEPT ![d].phase = phase]
End(d)       == delivery' = [delivery EXCEPT ![d] = Ended]

\* throwIfAborted(), assertAdmitting() and authorizeLineage(): the caller still
\* wants it, nothing drains, and its parent is still the registered one.
Entitled(d) ==
    ~Caller(d).aborted /\ Admitting /\ Caller(d).parent = LiveParent(Caller(d).child)

\* acquireOwnership() throws when the parent's Activation is being disposed.
ParentClosing(k) == Parent[k] \in Children /\ residency[Parent[k]] \notin {"absent", "live"}

OwnedWith(k) ==
    [p \in Children |->
        IF p = Parent[k] /\ residency[p] = "live" THEN owned[p] \cup {k} ELSE owned[p]]

\* admitWaking() of one message, and what followup() does to a parked inbox.
Sent(k) ==
    /\ accepted' = [accepted EXCEPT ![k] = @ + 1]
    /\ parked' = [parked EXCEPT ![k] = FALSE]
    /\ poked' = [poked EXCEPT ![k] = TRUE]

\* The children a disposal of these Activations reaches: dispose() recurses
\* over ownedChildren in the same span and stops where one has begun.
Closed(set) == \A p \in set : {k \in owned[p] : residency[k] = "live"} \subseteq set

Reach(roots) ==
    {k \in Children : \A set \in SUBSET Children : roots \subseteq set /\ Closed(set) => k \in set}

\* dispose(): the transaction opens, the Agents are cancelled with their
\* inboxes, the watchers wake.  Running turns end when they notice.
Opened(set) ==
    /\ residency' = [k \in Children |-> IF k \in set THEN "stopping" ELSE residency[k]]
    /\ accepted' = [k \in Children |-> IF k \in set THEN 0 ELSE accepted[k]]
    /\ parked' = [k \in Children |-> IF k \in set THEN FALSE ELSE parked[k]]
    /\ watcher' = [k \in Children |->
          IF k \in set /\ watcher[k] # "queued" THEN "none" ELSE watcher[k]]
    /\ poked' = [k \in Children |-> IF k \in set THEN FALSE ELSE poked[k]]

\* Fault: an inbox that the turn left behind counts as settled.
SettledOnceIdle(k) == ~busy[k] /\ owned[k] = {}

\* stateOf() = 'settled'
Settled(k) == ~busy[k] /\ accepted[k] = 0 /\ owned[k] = {}

-----------------------------------------------------------------------------
(* Deliveries: startContinuable(), followup(), coldResume().               *)

\* A caller with a live parent asks: the first delivery to a child starts it,
\* the provider preparing outside the lock; a later one follows up.  Nobody
\* asks for a parent in the few promise ticks between its own publication and
\* its first message.
Asks(d, k) ==
    /\ delivery[d] = Idle /\ (\A o \in 1..(d - 1) : delivery[o] # Idle)
    /\ Admitting /\ LiveParent(k) # 0
    /\ \A o \in Deliveries : delivery[o].phase = "published" => delivery[o].child # Parent[k]
    /\ delivery' = [delivery EXCEPT ![d] =
          [phase |-> IF born[k] = 0 THEN "preparing" ELSE "queued",
           child |-> k, parent |-> LiveParent(k), aborted |-> FALSE, fresh |-> born[k] = 0]]
    /\ born[k] = 0 => \A o \in Deliveries :
                          delivery[o] \notin {Idle, Ended} => delivery[o].child # k
    /\ lock' = IF born[k] = 0 THEN lock ELSE [lock EXCEPT ![k] = Append(@, Delivery(d))]
    /\ UNCHANGED <<residency, agent, born, agentVars, owned, watcher, poked, drainVars>>

Prepared(d) ==
    /\ Caller(d).phase = "preparing"
    /\ IF Caller(d).aborted \/ ~Admitting
       THEN End(d) /\ UNCHANGED lock
       ELSE To(d, "queued") /\ lock' = [lock EXCEPT ![Caller(d).child] = Append(@, Delivery(d))]
    /\ UNCHANGED <<residency, agent, born, agentVars, owned, watcher, poked, drainVars>>

\* The caller's signal; it owns the call only until acceptance.
CallerAborts(d) ==
    /\ delivery[d] \notin {Idle, Ended} /\ ~Caller(d).aborted
    /\ delivery' = [delivery EXCEPT ![d].aborted = TRUE]
    /\ UNCHANGED <<residency, agent, born, agentVars, owned, watcher, poked, lock, drainVars>>

\* submitAdmitted(): the last look, and the send, without an await.
Accept(d) ==
    LET k == Caller(d).child IN
    /\ owned' = OwnedWith(k) /\ Sent(k) /\ End(d) /\ Leave(k)
    /\ UNCHANGED <<residency, agent, born, busy, reports, interrupts, watcher, drainVars>>

Acceptable(d) ==
    LET k == Caller(d).child IN Entitled(d) /\ residency[k] = "live" /\ ~ParentClosing(k)

Refuse(d) ==
    /\ End(d) /\ Leave(Caller(d).child)
    /\ UNCHANGED <<residency, agent, born, agentVars, owned, watcher, poked, drainVars>>

\* The critical section of a delivery begins: a live Activation is sent the
\* message, one in disposal is waited for with the lock held, and without one
\* the child is created, or inspected and resumed.
EntersLock(d) ==
    LET k == Caller(d).child IN
    /\ Caller(d).phase = "queued" /\ Holds(k, Delivery(d))
    /\ \/ residency[k] = "live" /\ Acceptable(d) /\ Accept(d)
       \/ residency[k] = "live" /\ ~Acceptable(d) /\ Refuse(d)
       \/ /\ residency[k] \notin {"absent", "live"} /\ To(d, "waiting")
          /\ UNCHANGED <<residency, agent, born, agentVars, owned, watcher, poked, lock, drainVars>>
       \/ /\ residency[k] = "absent" /\ ~Caller(d).fresh /\ To(d, "inspecting")
          /\ UNCHANGED <<residency, agent, born, agentVars, owned, watcher, poked, lock, drainVars>>
       \/ /\ residency[k] = "absent" /\ Caller(d).fresh /\ ~Caller(d).aborted /\ Admitting
          /\ To(d, "creating")
          /\ UNCHANGED <<residency, agent, born, agentVars, owned, watcher, poked, lock, drainVars>>
       \/ /\ residency[k] = "absent" /\ Caller(d).fresh /\ (Caller(d).aborted \/ ~Admitting)
          /\ Refuse(d)

\* Fault: it queues again and keeps the lock.
RequeuesWithoutLeaving(d) ==
    LET k == Caller(d).child IN
    /\ Caller(d).phase = "waiting" /\ residency[k] = "absent"
    /\ To(d, "queued") /\ lock' = [lock EXCEPT ![k] = Append(@, Delivery(d))]
    /\ UNCHANGED <<residency, agent, born, agentVars, owned, watcher, poked, drainVars>>

\* The disposal it waited for is over: leave the lock and queue again.
WaitsNoMore(d) ==
    LET k == Caller(d).child IN
    /\ Caller(d).phase = "waiting" /\ residency[k] = "absent"
    /\ IF Caller(d).aborted \/ ~Admitting
       THEN End(d) /\ Leave(k)
       ELSE To(d, "queued") /\ lock' = [lock EXCEPT ![k] = Append(Tail(@), Delivery(d))]
    /\ UNCHANGED <<residency, agent, born, agentVars, owned, watcher, poked, drainVars>>

\* coldResume() after persistence.inspect(), which may also have failed.
Inspected(d) ==
    /\ Caller(d).phase = "inspecting"
    /\ \/ Entitled(d) /\ To(d, "creating")
          /\ UNCHANGED <<residency, agent, born, agentVars, owned, watcher, poked, lock, drainVars>>
       \/ Refuse(d)

\* materializeTracked() once the Agent exists: install the Activation, and
\* either publish it with its owner and its watcher or roll it back.
Created(d) ==
    LET k == Caller(d).child
        kept == ~Caller(d).aborted /\ Admitting /\ ~ParentClosing(k)
    IN
    /\ Caller(d).phase = "creating"
    /\ born' = [born EXCEPT ![k] = @ + 1] /\ agent' = [agent EXCEPT ![k] = born[k] + 1]
    /\ residency' = [residency EXCEPT ![k] = IF kept THEN "live" ELSE "releasing"]
    /\ To(d, IF kept THEN "published" ELSE "rollingBack")
    /\ IF kept
       THEN /\ owned' = OwnedWith(k) /\ watcher' = [watcher EXCEPT ![k] = "watching"]
            /\ poked' = [poked EXCEPT ![k] = FALSE]
       ELSE UNCHANGED <<owned, watcher, poked>>
    /\ UNCHANGED <<agentVars, lock, drainVars>>

CreationFails(d) ==
    /\ Caller(d).phase = "creating" /\ Refuse(d)

\* submitMaterialized(): accept, or dispose of what was just published.
Submits(d) ==
    LET k == Caller(d).child IN
    /\ Caller(d).phase = "published"
    /\ \/ Acceptable(d) /\ Accept(d)
       \/ /\ ~Acceptable(d) /\ To(d, "unpublishing")
          /\ IF residency[k] = "live" THEN Opened(Reach({k}))
             ELSE UNCHANGED <<residency, accepted, parked, watcher, poked>>
          /\ UNCHANGED <<agent, born, busy, reports, interrupts, owned, lock, drainVars>>

Unpublished(d) ==
    /\ Caller(d).phase \in {"unpublishing", "rollingBack"}
    /\ residency[Caller(d).child] = "absent" /\ Refuse(d)

-----------------------------------------------------------------------------
(* The Agents: turns, reports to the parent, interrupts.                   *)

TurnBegins(k) ==
    /\ agent[k] # 0 /\ ~busy[k] /\ accepted[k] > 0 /\ ~parked[k]
    /\ busy' = [busy EXCEPT ![k] = TRUE] /\ accepted' = [accepted EXCEPT ![k] = @ - 1]
    /\ poked' = [poked EXCEPT ![k] = TRUE]
    /\ UNCHANGED <<residency, agent, born, parked, reports, interrupts, owned,
                   watcher, lock, delivery, drainVars>>

\* The driver goes on with the inbox after a turn that ran to its end.  A turn that
\* fails, is blocked or is first proposed empty ends it, and so may a message that
\* comes while it goes idle: what was accepted stays until the next waking send.
TurnEnds(k) ==
    /\ busy[k] /\ busy' = [busy EXCEPT ![k] = FALSE]
    /\ UNCHANGED parked \/ parked' = [parked EXCEPT ![k] = accepted[k] > 0]
    /\ UNCHANGED <<residency, agent, born, accepted, reports, interrupts, owned,
                   watcher, poked, lock, delivery, drainVars>>

\* reportFrom() with waking delivery: the reporter must not be in disposal;
\* nothing asks whether the parent is.
Reports(k) ==
    /\ residency[k] = "live" /\ busy[k] /\ Admitting /\ reports < MaxReports
    /\ Parent[k] \in Children /\ agent[Parent[k]] # 0
    /\ reports' = reports + 1 /\ Sent(Parent[k])
    /\ UNCHANGED <<residency, agent, born, busy, interrupts, owned, watcher, lock,
                   delivery, drainVars>>

\* interrupt(): the turn is cancelled, the inbox is kept until the next send.
Interrupts(k) ==
    /\ residency[k] = "live" /\ busy[k] /\ interrupts < MaxInterrupts
    /\ interrupts' = interrupts + 1 /\ busy' = [busy EXCEPT ![k] = FALSE]
    /\ parked' = [parked EXCEPT ![k] = accepted[k] > 0]
    /\ UNCHANGED <<residency, agent, born, accepted, reports, owned, watcher, poked,
                   lock, delivery, drainVars>>

-----------------------------------------------------------------------------
(* Settlement and disposal.                                                *)

\* whenIdle() resolves: no turn, and no waking work that is not parked.
Quiet(k) == ~busy[k] /\ (accepted[k] = 0 \/ parked[k])

\* watchSettlement(): the race is won, the lock is asked for.
WatcherWakes(k) ==
    /\ watcher[k] = "watching" /\ (poked[k] \/ Quiet(k))
    /\ watcher' = [watcher EXCEPT ![k] = "queued"]
    /\ lock' = [lock EXCEPT ![k] = Append(@, Watcher(born[k]))]
    /\ UNCHANGED <<residency, agent, born, agentVars, owned, poked, delivery, drainVars>>

\* ... in the lock: dispose of a settled Activation; otherwise go round again,
\* or rest until poked when no turn is running.
WatcherLooks(k) ==
    /\ watcher[k] = "queued" /\ Holds(k, Watcher(born[k])) /\ Leave(k)
    /\ \/ /\ residency[k] = "live" /\ Settled(k)
          /\ residency' = [residency EXCEPT ![k] = "stopping"]
          /\ watcher' = [watcher EXCEPT ![k] = "none"]
       \/ /\ residency[k] = "live" /\ ~Settled(k)
          /\ watcher' = [watcher EXCEPT ![k] = IF busy[k] \/ poked[k] THEN "watching" ELSE "resting"]
          /\ UNCHANGED residency
       \/ residency[k] # "live" /\ watcher' = [watcher EXCEPT ![k] = "none"] /\ UNCHANGED residency
    /\ poked' = [poked EXCEPT ![k] = FALSE]
    /\ UNCHANGED <<agent, born, agentVars, owned, delivery, drainVars>>

\* ... the watcher of an earlier Activation finds it disposed of.
OldWatcherLooks(k) ==
    /\ \E n \in 1..(born[k] - 1) : Holds(k, Watcher(n))
    /\ Leave(k)
    /\ UNCHANGED <<residency, agent, born, agentVars, owned, watcher, poked, delivery, drainVars>>

WatcherIsPoked(k) ==
    /\ watcher[k] = "resting" /\ poked[k]
    /\ watcher' = [watcher EXCEPT ![k] = "watching"] /\ poked' = [poked EXCEPT ![k] = FALSE]
    /\ UNCHANGED <<residency, agent, born, agentVars, owned, lock, delivery, drainVars>>

\* Fault: the handle is released without waiting for the owned children.
ReleasesBeforeChildren(k) ==
    /\ residency[k] = "stopping" /\ ~busy[k]
    /\ residency' = [residency EXCEPT ![k] = "releasing"]
    /\ UNCHANGED <<agent, born, agentVars, owned, watcher, poked, lock, delivery, drainVars>>

\* finishDisposal(): the owned children are gone and the turn is over; the
\* session is flushed ...
Releases(k) ==
    /\ residency[k] = "stopping" /\ owned[k] = {} /\ ~busy[k]
    /\ residency' = [residency EXCEPT ![k] = "releasing"]
    /\ UNCHANGED <<agent, born, agentVars, owned, watcher, poked, lock, delivery, drainVars>>

\* ... the handle's disposal takes the Agent out of the registry ...
Unregisters(k) ==
    /\ residency[k] = "releasing" /\ agent[k] # 0 /\ agent' = [agent EXCEPT ![k] = 0]
    /\ UNCHANGED <<residency, born, agentVars, owned, watcher, poked, lock, delivery, drainVars>>

\* Fault: the Activation is forgotten while its handle is still disposed of.
ForgottenEarly(k) ==
    /\ residency[k] = "releasing"
    /\ residency' = [residency EXCEPT ![k] = "absent"]
    /\ owned' = [p \in Children |-> owned[p] \ {k}]
    /\ poked' = [p \in Children |-> poked[p] \/ k \in owned[p]]
    /\ UNCHANGED <<agent, born, agentVars, watcher, lock, delivery, drainVars>>

\* Fault: the owner is not woken.
ForgottenUnseen(k) ==
    /\ residency[k] = "releasing" /\ agent[k] = 0
    /\ residency' = [residency EXCEPT ![k] = "absent"]
    /\ owned' = [p \in Children |-> owned[p] \ {k}]
    /\ UNCHANGED <<agent, born, agentVars, watcher, poked, lock, delivery, drainVars>>

\* ... and settles: the Activation leaves the map, its owner looks again.
Forgotten(k) ==
    /\ residency[k] = "releasing" /\ agent[k] = 0
    /\ residency' = [residency EXCEPT ![k] = "absent"]
    /\ owned' = [p \in Children |-> owned[p] \ {k}]
    /\ poked' = [p \in Children |-> poked[p] \/ k \in owned[p]]
    /\ UNCHANGED <<agent, born, agentVars, watcher, lock, delivery, drainVars>>

-----------------------------------------------------------------------------
(* drain() of the manager and drainDescendants() of the host-owned root.   *)

Roots(set) == set \ UNION {owned[k] : k \in set}
Live(set)  == {k \in set : residency[k] = "live"}

\* Admission closes at once.  The scoped drain opens every disposal before it
\* waits, the other one takes its roots when nothing materializes any more.
DrainBegins(kind) ==
    /\ drain = "no" /\ drain' = kind /\ drainAt' = "barrier"
    /\ IF kind = "scoped"
       THEN Opened(Live(Children)) /\ drainWaits' = Roots(Resident)
       ELSE UNCHANGED <<residency, accepted, parked, watcher, poked, drainWaits>>
    /\ UNCHANGED <<agent, born, busy, reports, interrupts, owned, lock, delivery>>

\* Fault: the snapshot of the roots is taken before the creations are over.
DrainDisposesAtOnce ==
    /\ drainAt = "barrier" /\ drainAt' = "disposing"
    /\ IF drain = "all"
       THEN drainWaits' = Roots(Resident) /\ Opened(Reach(Live(Roots(Resident))))
       ELSE UNCHANGED <<residency, accepted, parked, watcher, poked, drainWaits>>
    /\ UNCHANGED <<agent, born, busy, reports, interrupts, owned, lock, delivery, drain>>

DrainDisposes ==
    /\ drainAt = "barrier" /\ drainAt' = "disposing"
    /\ \A d \in Deliveries : delivery[d].phase \notin {"creating", "rollingBack"}
    /\ IF drain = "all"
       THEN drainWaits' = Roots(Resident) /\ Opened(Reach(Live(Roots(Resident))))
       ELSE UNCHANGED <<residency, accepted, parked, watcher, poked, drainWaits>>
    /\ UNCHANGED <<agent, born, busy, reports, interrupts, owned, lock, delivery, drain>>

DrainEnds ==
    /\ drainAt = "disposing" /\ drainWaits \cap Resident = {} /\ drainAt' = "done"
    /\ UNCHANGED <<residency, agent, born, agentVars, owned, watcher, poked, lock,
                   delivery, drain, drainWaits>>

-----------------------------------------------------------------------------
DeliverySteps(d) ==
    \/ Prepared(d) \/ EntersLock(d) \/ WaitsNoMore(d) \/ Inspected(d)
    \/ Created(d) \/ CreationFails(d) \/ Submits(d) \/ Unpublished(d)

ChildSteps(k) ==
    \/ TurnBegins(k) \/ TurnEnds(k)
    \/ WatcherWakes(k) \/ WatcherLooks(k) \/ OldWatcherLooks(k) \/ WatcherIsPoked(k)
    \/ Releases(k) \/ Unregisters(k) \/ Forgotten(k)

\* What goes on without anybody asking for it.
Internal ==
    \/ \E d \in Deliveries : DeliverySteps(d)
    \/ \E k \in Children : ChildSteps(k)
    \/ DrainDisposes \/ DrainEnds

Next ==
    \/ Internal
    \/ \E d \in Deliveries : CallerAborts(d) \/ \E k \in Children : Asks(d, k)
    \/ \E k \in Children : Reports(k) \/ Interrupts(k)
    \/ \E kind \in Drains : DrainBegins(kind)

\* The event loop turns, and every call the manager awaits settles, a turn
\* that goes on or is cancelled included.
Spec     == Init /\ [][Next]_vars
FairSpec == Spec /\ WF_vars(Internal)

-----------------------------------------------------------------------------
(* Properties                                                              *)

\* Type correctness of the Activations and the deliveries.
TypeOK ==
    /\ residency \in [Children -> {"absent", "live", "stopping", "releasing"}]
    /\ agent \in [Children -> Nat] /\ born \in [Children -> Nat]
    /\ \A k \in Children : agent[k] \in {0, born[k]}
    /\ busy \in [Children -> BOOLEAN] /\ accepted \in [Children -> Nat]
    /\ parked \in [Children -> BOOLEAN] /\ poked \in [Children -> BOOLEAN]
    /\ owned \in [Children -> SUBSET Children]
    /\ watcher \in [Children -> {"none", "watching", "queued", "resting"}]
    /\ drain \in Drains \cup {"no"} /\ drainAt \in {"none", "barrier", "disposing", "done"}

\* A durable child has one Agent at most: whoever creates or resumes it finds
\* none registered and no Activation in the map, and a registered Agent has
\* its Activation until it is gone (ChildLock, finishDisposal's last lines).
OneIncarnation ==
    /\ \A k \in Children : agent[k] # 0 => residency[k] # "absent"
    /\ \A d \in Deliveries :
          delivery[d].phase \in {"inspecting", "creating"} =>
             residency[delivery[d].child] = "absent" /\ agent[delivery[d].child] = 0

\* Ownership covers whoever works: a child that has a message or a turn is
\* owned by its parent's Activation, which is then still there with its Agent
\* registered; so handles are released child first, whatever the order the
\* drains, settlements and rollbacks come in (acquireOwnership, finishDisposal).
WorkIsOwned ==
    \A k \in Children :
        (accepted[k] > 0 \/ busy[k]) /\ Parent[k] \in Children =>
            /\ k \in owned[Parent[k]] /\ agent[Parent[k]] # 0
            /\ residency[Parent[k]] \in {"live", "stopping"}

\* Nothing accepted is dropped: outside a drain a disposal opens, and reaches
\* descendants, only where there is no turn and no accepted message; and no
\* message is accepted once the disposal is open (stateOf, admitWaking).
SettlementDropsNothing ==
    [][\A k \in Children :
          /\ residency[k] = "live" /\ residency'[k] = "stopping" /\ drain' = "no" =>
                ~busy[k] /\ accepted[k] = 0
          /\ accepted'[k] > accepted[k] => residency[k] = "live" /\ residency'[k] = "live"]_vars

\* No wakeup is lost: a watcher that rests over a settled Activation has been
\* poked, so every settled Activation is about to be looked at (wake, the
\* promise captured before the race in watchSettlement).
SettledIsNoticed ==
    \A k \in Children :
        residency[k] = "live" /\ Settled(k) =>
            watcher[k] \in {"watching", "queued"} \/ (watcher[k] = "resting" /\ poked[k])

\* A drain is complete: when it returns no Activation is left and none is
\* under way, and so it stays (drain, drainDescendants).
DrainIsComplete ==
    drainAt = "done" =>
        /\ Resident = {} /\ \A k \in Children : agent[k] = 0
        /\ \A d \in Deliveries : delivery[d].phase # "creating"

\* What k's Activation owns, and what that owns.
Below(k) ==
    {c \in Children : \A set \in SUBSET Children :
        k \in set /\ (\A p \in set : owned[p] \subseteq set) => c \in set}

\* A drain returns, and an Activation that nobody drains is released once its
\* work is done.  The exception is a message that the driver left behind in its
\* inbox or in one below it, which nothing but another waking send resolves: an
\* Activation that stays for ever has one there for ever (watchSettlement).
ResidencyEnds ==
    /\ drain # "no" ~> drainAt = "done"
    /\ \A k \in Children :
          \/ []<>(residency[k] # "live")
          \/ <>[](\E c \in Below(k) : parked[c])

\* Activations nest: one per child, inside the one that owns it, watched as long
\* as it lives.
ActivationsNest == TypeOK /\ OneIncarnation /\ WorkIsOwned /\ SettledIsNoticed
=============================================================================
