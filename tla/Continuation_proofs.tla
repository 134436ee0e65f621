------------------------ MODULE Continuation_proofs -------------------------
(***************************************************************************)
(* What is proved of Continuation for any tree of children, any deliveries *)
(* and both drains: Activations nest, settlement drops nothing, and a      *)
(* drain is complete.                                                      *)
(***************************************************************************)
EXTENDS Continuation, TLAPS

-----------------------------------------------------------------------------
(* The inductive invariant.                                                *)

\* The phases of a delivery, and those in which it has its child's lock.
Critical == {"waiting", "inspecting", "creating", "published", "unpublishing", "rollingBack"}
Phases   == {"preparing", "queued"} \cup Critical

CallT == [phase : Phases, child : Children, parent : Nat \ {0}, aborted : BOOLEAN, fresh : BOOLEAN]
PlaceT == [who : {"delivery", "watcher"}, nr : Nat]

At(d)    == delivery[d].phase
Child(d) == delivery[d].child

CallsOK ==
    /\ delivery \in [Deliveries -> CallT \cup {Idle, Ended}]
    /\ lock \in [Children -> Seq(PlaceT)]

\* The critical section of a child is one delivery's at a time.
LocksAreHeld ==
    \A d \in Deliveries : At(d) \in Critical => Holds(Child(d), Delivery(d))

\* Registered Agents, Activations and creations keep step.
AgentsAreResident ==
    /\ \A k \in Children : agent[k] # 0 => residency[k] # "absent"
    /\ \A k \in Children : residency[k] \in {"live", "stopping"} => agent[k] # 0
    /\ \A d \in Deliveries : At(d) \in {"inspecting", "creating"} => residency[Child(d)] = "absent"

\* Who is owned is there, and was reached when its owner's disposal opened.
OwnersAreThere ==
    \A o \in Children : \A k \in owned[o] :
        /\ Parent[k] = o /\ residency[k] # "absent"
        /\ residency[o] = "live" \/ (residency[o] = "stopping" /\ residency[k] # "live")

\* Only the resident work.
WorkIsResident ==
    \A k \in Children :
        /\ accepted[k] > 0 => residency[k] = "live"
        /\ busy[k] => residency[k] \in {"live", "stopping"}

Published(k) == \E d \in Deliveries : At(d) = "published" /\ Child(d) = k

\* Between its publication and its first message a child is not owned for
\* certain; whoever works is.
LiveAreOwned ==
    \A k \in Children : Parent[k] \in Children =>
        /\ residency[k] = "live" /\ ~Published(k) => k \in owned[Parent[k]]
        /\ accepted[k] > 0 \/ busy[k] => k \in owned[Parent[k]]

\* A delivery names an incarnation of the parent that there has been.
ParentsAreKnown ==
    \A d \in Deliveries : At(d) \in Phases /\ Parent[Child(d)] \in Children =>
        delivery[d].parent <= born[Parent[Child(d)]]

\* In that time it has no work, no delivery to a child of its own is entitled,
\* and its children that are left over are in the same state.
PublishedAreFresh ==
    \A k \in Children : Published(k) =>
        /\ accepted[k] = 0 /\ ~busy[k]
        /\ \A e \in Deliveries :
              At(e) \in Phases /\ Parent[Child(e)] = k => delivery[e].parent # born[k]
        /\ \A c \in Children : Parent[c] = k /\ residency[c] = "live" => Published(c)

\* A live Activation is watched, and rests only while there is a reason to.
LiveAreWatched ==
    \A k \in Children : residency[k] = "live" =>
        /\ watcher[k] # "none"
        /\ watcher[k] = "resting" /\ ~poked[k] => ~busy[k] /\ ~Settled(k)

RollingBack(k) == \E d \in Deliveries : At(d) = "rollingBack" /\ Child(d) = k

\* Every Activation is among those the drain waits for, or below one of them,
\* or a creation gives it up.
DrainReaches ==
    /\ drain = "no" <=> drainAt = "none"
    /\ drainAt \in {"disposing", "done"} =>
          \A d \in Deliveries : At(d) \notin {"creating", "rollingBack"}
    /\ drain = "scoped" \/ drainAt \in {"disposing", "done"} =>
          \A k \in Resident :
              k \in drainWaits \/ RollingBack(k) \/ \E o \in Children : k \in owned[o]
    /\ drainAt = "done" => Resident = {}

Inv ==
    /\ TypeOK /\ CallsOK /\ LocksAreHeld /\ AgentsAreResident /\ OwnersAreThere
    /\ WorkIsResident /\ LiveAreOwned /\ ParentsAreKnown /\ PublishedAreFresh
    /\ LiveAreWatched /\ DrainReaches

-----------------------------------------------------------------------------
(* The operators of the model.                                             *)

\* A disposal reaches the least closed set of children above its roots.
LEMMA ReachDoes ==
    ASSUME owned \in [Children -> SUBSET Children], NEW roots \in SUBSET Children
    PROVE  /\ Reach(roots) \in SUBSET Children /\ roots \subseteq Reach(roots)
           /\ Closed(Reach(roots))
           /\ \A set \in SUBSET Children :
                 roots \subseteq set /\ Closed(set) => Reach(roots) \subseteq set
BY DEF Reach, Closed

\* The phases are what they are called.
LEMMA CallFields ==
    ASSUME CallsOK, NEW d \in Deliveries
    PROVE  /\ At(d) \in Phases => /\ delivery[d] \in CallT /\ Child(d) \in Children
                                  /\ delivery[d].parent \in Nat \ {0}
                                  /\ delivery[d].aborted \in BOOLEAN /\ delivery[d].fresh \in BOOLEAN
           /\ At(d) \notin Phases => delivery[d] \in {Idle, Ended}
           /\ At(d) \in Phases \cup {"idle", "ended"}
BY DEF CallsOK, CallT, Idle, Ended, At, Child, Phases, Critical

\* A delivery goes on: its child, its parent and the other deliveries stay.
Goes(d, phase) ==
    /\ delivery' \in [Deliveries -> CallT \cup {Idle, Ended}]
    /\ delivery'[d].phase = phase /\ delivery'[d].child = Child(d)
    /\ delivery'[d].parent = delivery[d].parent
    /\ \A e \in Deliveries \ {d} : delivery'[e] = delivery[e]

\* What To does to a call that is under way.
LEMMA ToDoes ==
    ASSUME CallsOK, NEW d \in Deliveries, At(d) \in Phases, NEW phase \in Phases, To(d, phase)
    PROVE  Goes(d, phase)
BY CallFields DEF Goes, To, CallsOK, CallT, Child

\* A delivery ends: the others stay.
Ends(d) ==
    /\ delivery' \in [Deliveries -> CallT \cup {Idle, Ended}]
    /\ delivery'[d].phase = "ended"
    /\ \A e \in Deliveries \ {d} : delivery'[e] = delivery[e]

\* What End does to a call.
LEMMA EndDoes ==
    ASSUME CallsOK, NEW d \in Deliveries, End(d)
    PROVE  Ends(d)
BY DEF Ends, End, CallsOK, Ended

\* The places of different deliveries differ, and none is a watcher's.
LEMMA PlacesDiffer ==
    /\ \A d \in Nat, e \in Nat : Delivery(d) = Delivery(e) => d = e
    /\ \A d \in Nat : Delivery(d) \in PlaceT
    /\ \A n \in Nat : Watcher(n) \in PlaceT
    /\ \A d, n : Delivery(d) # Watcher(n)
BY DEF Delivery, Watcher, PlaceT

\* Who holds the lock leaves it: the other locks stay, and no other delivery is
\* in this one's critical section.
LEMMA LeaveDoes ==
    ASSUME CallsOK, LocksAreHeld, NEW k \in Children, NEW w \in PlaceT, Holds(k, w), Leave(k)
    PROVE  /\ lock' \in [Children -> Seq(PlaceT)]
           /\ \A j \in Children \ {k} : lock'[j] = lock[j]
           /\ \A e \in Deliveries : At(e) \in Critical /\ Delivery(e) # w => Child(e) # k
BY DEF CallsOK, LocksAreHeld, Holds, Leave

\* Who asks for a lock does not take it from anybody.
LEMMA AppendDoes ==
    ASSUME CallsOK, NEW k \in Children, NEW w \in PlaceT,
           lock' = [lock EXCEPT ![k] = Append(@, w)]
    PROVE  /\ lock' \in [Children -> Seq(PlaceT)]
           /\ \A j \in Children : lock[j] # <<>> => lock'[j] # <<>> /\ Head(lock'[j]) = Head(lock[j])
<1>1. lock[k] \in Seq(PlaceT) /\ lock'[k] = Append(lock[k], w) /\ \A j \in Children \ {k} : lock'[j] = lock[j]
  BY DEF CallsOK
<1>2. Append(lock[k], w) \in Seq(PlaceT) /\ Append(lock[k], w) # <<>>
      /\ (lock[k] # <<>> => Head(Append(lock[k], w)) = Head(lock[k]))
  BY <1>1
<1>3. QED
  BY <1>1, <1>2 DEF CallsOK

-----------------------------------------------------------------------------
(* A step of deliveries alone.                                             *)

\* What a delivery may do that touches no Activation.
Same(e) == At(e)' = At(e) /\ Child(e)' = Child(e) /\ delivery'[e].parent = delivery[e].parent

Mild(e) ==
    \/ Same(e)
    \/ /\ At(e)' = "ended" /\ At(e) # "published"
       /\ At(e) = "rollingBack" => residency[Child(e)] = "absent"
    \/ /\ At(e) \in Phases \ {"published", "rollingBack"}
       /\ Child(e)' = Child(e) /\ delivery'[e].parent = delivery[e].parent
       /\ \/ At(e)' \in {"queued", "waiting"}
          \/ /\ At(e)' \in {"inspecting", "creating"} /\ residency[Child(e)] = "absent"
             /\ At(e)' = "creating" => drain = "no"
    \/ /\ At(e) = "idle" /\ At(e)' \in {"preparing", "queued"}
       /\ Child(e)' \in Children
       /\ delivery'[e].parent = LiveParent(Child(e)')
       /\ ~Published(Parent[Child(e)'])

\* A step of deliveries alone changes nobody's residency, work or owner.
LEMMA MildKeeps ==
    ASSUME Inv, CallsOK', LocksAreHeld', \A e \in Deliveries : Mild(e),
           UNCHANGED <<residency, agent, born, agentVars, owned, watcher, poked, drainVars>>
    PROVE  Inv'
<1>0. /\ residency' = residency /\ agent' = agent /\ born' = born /\ busy' = busy
      /\ accepted' = accepted /\ parked' = parked /\ owned' = owned /\ watcher' = watcher
      /\ poked' = poked /\ drain' = drain /\ drainAt' = drainAt /\ drainWaits' = drainWaits
  BY DEF agentVars, drainVars
<1> USE DEF At, Child, Mild, Same
<1>1. \A k : Published(k)' <=> Published(k)
  BY DEF Published, Phases
<1>2. \A k : RollingBack(k) /\ residency[k] # "absent" => RollingBack(k)'
  BY DEF RollingBack, Phases
<1>3. TypeOK'
  BY <1>0 DEF Inv, TypeOK
<1>4. AgentsAreResident'
  BY <1>0 DEF Inv, AgentsAreResident, Phases
<1>5. OwnersAreThere' /\ WorkIsResident'
  BY <1>0 DEF Inv, OwnersAreThere, WorkIsResident
<1>6. LiveAreOwned'
  BY <1>0, <1>1 DEF Inv, LiveAreOwned
<1>7. ParentsAreKnown' /\ PublishedAreFresh'
  <2> SUFFICES ASSUME NEW e \in Deliveries, At(e)' \in Phases
               PROVE  /\ Parent[Child(e)'] \in Children =>
                            delivery'[e].parent <= born[Parent[Child(e)']]
                      /\ Parent[Child(e)'] \in Children /\ Published(Parent[Child(e)']) =>
                            delivery'[e].parent # born[Parent[Child(e)']]
    BY <1>0, <1>1 DEF Inv, PublishedAreFresh, ParentsAreKnown
  <2>1. CASE At(e) \in Phases /\ Child(e)' = Child(e) /\ delivery'[e].parent = delivery[e].parent
    BY <2>1 DEF Inv, PublishedAreFresh, ParentsAreKnown
  <2>2. CASE /\ Child(e)' \in Children /\ delivery'[e].parent = LiveParent(Child(e)')
             /\ ~Published(Parent[Child(e)'])
    <3>1. ASSUME Parent[Child(e)'] \in Children
          PROVE  agent[Parent[Child(e)']] <= born[Parent[Child(e)']]
      BY <3>1 DEF Inv, TypeOK
    <3>2. QED
      BY <2>2, <3>1 DEF LiveParent
  <2>3. QED
    BY <2>1, <2>2 DEF Phases, Critical
<1>8. LiveAreWatched'
  BY <1>0 DEF Inv, LiveAreWatched, Settled
<1>9. DrainReaches'
  <2>1. ASSUME drainAt \in {"disposing", "done"}, NEW e \in Deliveries
        PROVE  At(e)' \notin {"creating", "rollingBack"}
    BY <2>1 DEF Inv, DrainReaches
  <2>2. Resident' = Resident
    BY <1>0 DEF Resident
  <2>3. ASSUME NEW k \in Resident, RollingBack(k)  PROVE RollingBack(k)'
    BY <1>2, <2>3 DEF Resident
  <2>4. QED
    BY <1>0, <2>1, <2>2, <2>3 DEF Inv, DrainReaches
<1>10. QED
  BY <1>3, <1>4, <1>5, <1>6, <1>7, <1>8, <1>9 DEF Inv

\* The locks after a step in which delivery d leaves the lock of its child.
LEMMA LeavingKeepsLocks ==
    ASSUME Inv, NEW d \in Deliveries, At(d) \in Phases, Holds(Child(d), Delivery(d)),
           Leave(Child(d)), Ends(d)
    PROVE  CallsOK' /\ LocksAreHeld'
<1>1. CallsOK /\ LocksAreHeld /\ Child(d) \in Children /\ d \in Nat
  BY CallFields, DeliveryAssumption DEF Inv, Deliveries
<1>2. /\ lock' \in [Children -> Seq(PlaceT)]
      /\ \A j \in Children \ {Child(d)} : lock'[j] = lock[j]
      /\ \A e \in Deliveries : At(e) \in Critical /\ Delivery(e) # Delivery(d) => Child(e) # Child(d)
  BY <1>1, LeaveDoes, PlacesDiffer
<1>3. CallsOK'
  BY <1>2 DEF CallsOK, Ends
<1>4. ASSUME NEW e \in Deliveries, At(e)' \in Critical  PROVE Holds(Child(e), Delivery(e))'
  <2>1. e # d
    BY <1>4 DEF Ends, At, Critical
  <2>2. At(e) \in Critical /\ Child(e)' = Child(e)
    BY <1>4, <2>1 DEF Ends, At, Child
  <2>3. Delivery(e) # Delivery(d)
    BY <1>1, <2>1, PlacesDiffer, DeliveryAssumption DEF Deliveries
  <2>4. Child(e) # Child(d) /\ Child(e) \in Children
    BY <1>1, <1>2, <2>2, <2>3, CallFields DEF Phases
  <2>5. QED
    BY <1>1, <1>2, <2>2, <2>4 DEF LocksAreHeld, Holds, Delivery
<1>5. QED
  BY <1>3, <1>4 DEF LocksAreHeld

\* A delivery that is refused, or whose creation failed, leaves nothing behind.
LEMMA RefuseKeeps ==
    ASSUME Inv, NEW d \in Deliveries, At(d) \in Phases \ {"published"}, Holds(Child(d), Delivery(d)),
           At(d) = "rollingBack" => residency[Child(d)] = "absent", Refuse(d)
    PROVE  Inv'
<1>1. Ends(d)
  BY EndDoes DEF Inv, Refuse
<1>2. CallsOK' /\ LocksAreHeld'
  BY <1>1, LeavingKeepsLocks DEF Refuse, Caller, Child
<1>3. \A e \in Deliveries : Mild(e)
  BY <1>1 DEF Ends, Mild, Same, At, Child
<1>4. QED
  BY <1>2, <1>3, MildKeeps DEF Refuse

\* A delivery that holds the lock goes on inside it.
LEMMA AdvanceKeeps ==
    ASSUME Inv, NEW d \in Deliveries, At(d) \in {"queued", "inspecting"}, Holds(Child(d), Delivery(d)),
           NEW phase \in {"waiting", "inspecting", "creating"}, To(d, phase),
           phase # "waiting" => residency[Child(d)] = "absent", phase = "creating" => drain = "no",
           UNCHANGED <<residency, agent, born, agentVars, owned, watcher, poked, lock, drainVars>>
    PROVE  Inv'
<1>1. Goes(d, phase) /\ CallsOK /\ lock' = lock
  BY ToDoes DEF Inv, Phases, Critical
<1>2. CallsOK'
  BY <1>1 DEF CallsOK, Goes
<1>3. LocksAreHeld'
  <2> SUFFICES ASSUME NEW e \in Deliveries, At(e)' \in Critical  PROVE Holds(Child(e), Delivery(e))'
    BY DEF LocksAreHeld
  <2>1. Child(e)' = Child(e) /\ (e # d => At(e) \in Critical)
    BY <1>1 DEF Goes, At, Child
  <2>2. Holds(Child(e), Delivery(e))
    BY <2>1 DEF Inv, LocksAreHeld
  <2>3. QED
    BY <1>1, <2>1, <2>2 DEF Holds, Delivery
<1>4. \A e \in Deliveries : Mild(e)
  BY <1>1 DEF Goes, Mild, Same, At, Child, Phases, Critical
<1>5. QED
  BY <1>2, <1>3, <1>4, MildKeeps

\* A delivery that queues, at first or again, holds nothing.
LEMMA QueueKeeps ==
    ASSUME Inv, CallsOK', NEW d \in Deliveries, At(d)' \notin Critical,
           \A e \in Deliveries \ {d} : delivery'[e] = delivery[e],
           \A e \in Deliveries \ {d} : At(e) \in Critical =>
               lock'[Child(e)] # <<>> /\ Head(lock'[Child(e)]) = Head(lock[Child(e)])
    PROVE  LocksAreHeld'
BY DEF Inv, LocksAreHeld, Holds, At, Child, Delivery

\* A caller asks, for the parent's registered incarnation.
LEMMA AsksKeeps == ASSUME Inv, NEW d \in Deliveries, NEW k \in Children, Asks(d, k)  PROVE Inv'
<1> DEFINE new == [phase |-> IF born[k] = 0 THEN "preparing" ELSE "queued",
                   child |-> k, parent |-> LiveParent(k), aborted |-> FALSE, fresh |-> born[k] = 0]
<1>1. /\ CallsOK /\ delivery[d] = Idle /\ LiveParent(k) # 0 /\ d \in Nat
      /\ delivery' = [delivery EXCEPT ![d] = new] /\ ~Published(Parent[k])
      /\ lock' = IF born[k] = 0 THEN lock ELSE [lock EXCEPT ![k] = Append(@, Delivery(d))]
  BY DeliveryAssumption DEF Inv, Asks, Published, At, Child, Deliveries
<1>2. LiveParent(k) \in Nat \ {0}
  BY <1>1 DEF LiveParent, Inv, TypeOK
<1>3. new \in CallT
  BY <1>2 DEF CallT, Phases
<1>4. /\ delivery' \in [Deliveries -> CallT \cup {Idle, Ended}] /\ delivery'[d] = new
      /\ \A e \in Deliveries \ {d} : delivery'[e] = delivery[e]
  <2> HIDE DEF new
  <2>1. QED
    BY <1>1, <1>3 DEF CallsOK
<1>5. /\ lock' \in [Children -> Seq(PlaceT)]
      /\ \A j \in Children : lock[j] # <<>> => lock'[j] # <<>> /\ Head(lock'[j]) = Head(lock[j])
  BY <1>1, AppendDoes, PlacesDiffer DEF CallsOK
<1>6. CallsOK'
  BY <1>4, <1>5 DEF CallsOK
<1>7. LocksAreHeld'
  <2>1. At(d)' \notin Critical
    BY <1>4 DEF At, Critical
  <2>2. \A e \in Deliveries \ {d} : At(e) \in Critical => Child(e) \in Children /\ lock[Child(e)] # <<>>
    BY <1>1, CallFields DEF Inv, LocksAreHeld, Holds, Phases
  <2>3. QED
    BY <1>4, <1>5, <1>6, <2>1, <2>2, QueueKeeps
<1>8. \A e \in Deliveries : Mild(e)
  <2>1. Mild(d)
    <3>1. At(d) = "idle" /\ At(d)' \in {"preparing", "queued"} /\ Child(d)' = k
          /\ delivery'[d].parent = LiveParent(k)
      BY <1>1, <1>4 DEF At, Child, Idle
    <3>2. QED
      BY <1>1, <3>1 DEF Mild
  <2>2. QED
    BY <1>4, <2>1 DEF Mild, Same, At, Child
<1>9. QED
  BY <1>6, <1>7, <1>8, MildKeeps DEF Asks

\* A caller gives up: only its flag changes.
LEMMA CallerAbortsKeeps == ASSUME Inv, NEW d \in Deliveries, CallerAborts(d)  PROVE Inv'
<1>1. CallsOK /\ At(d) \in Phases /\ delivery' = [delivery EXCEPT ![d].aborted = TRUE] /\ lock' = lock
  BY CallFields DEF Inv, CallerAborts
<1>2. /\ delivery' \in [Deliveries -> CallT \cup {Idle, Ended}]
      /\ \A e \in Deliveries : Same(e)
  BY <1>1, CallFields DEF CallsOK, CallT, Same, At, Child
<1>3. CallsOK' /\ LocksAreHeld'
  BY <1>1, <1>2 DEF Inv, CallsOK, LocksAreHeld, Holds, Same, Delivery
<1>4. QED
  BY <1>2, <1>3, MildKeeps DEF CallerAborts, Mild

\* A delivery queues for its child's lock, whether it comes from the provider or
\* from the wait for a disposal.
LEMMA QueuesAgain ==
    ASSUME Inv, NEW d \in Deliveries, At(d) \in {"preparing", "waiting"}, To(d, "queued"),
           lock' \in [Children -> Seq(PlaceT)],
           \A e \in Deliveries \ {d} : At(e) \in Critical =>
               lock'[Child(e)] # <<>> /\ Head(lock'[Child(e)]) = Head(lock[Child(e)]),
           UNCHANGED <<residency, agent, born, agentVars, owned, watcher, poked, drainVars>>
    PROVE  Inv'
<1>1. Goes(d, "queued")
  BY ToDoes DEF Inv, Phases, Critical
<1>2. CallsOK'
  BY <1>1 DEF CallsOK, Goes
<1>3. At(d)' \notin Critical
  BY <1>1 DEF Goes, At, Critical
<1>4. LocksAreHeld'
  BY <1>1, <1>2, <1>3, QueueKeeps DEF Goes
<1>5. \A e \in Deliveries : Mild(e)
  BY <1>1 DEF Goes, Mild, Same, At, Child, Phases, Critical
<1>6. QED
  BY <1>2, <1>4, <1>5, MildKeeps

\* The provider is done: the call queues or ends.
LEMMA PreparedKeeps == ASSUME Inv, NEW d \in Deliveries, Prepared(d)  PROVE Inv'
<1>1. /\ CallsOK /\ At(d) = "preparing" /\ At(d) \in Phases /\ Child(d) \in Children
      /\ Delivery(d) \in PlaceT
  BY CallFields, PlacesDiffer, DeliveryAssumption DEF Inv, Prepared, Caller, At, Phases, Deliveries
<1>2. CASE End(d) /\ UNCHANGED lock
  <2>1. Ends(d) /\ lock' = lock
    BY <1>1, <1>2, EndDoes
  <2>2. CallsOK' /\ At(d)' \notin Critical
    BY <1>1, <2>1 DEF CallsOK, Ends, At, Critical
  <2>3. \A e \in Deliveries \ {d} : At(e) \in Critical =>
            lock'[Child(e)] # <<>> /\ Head(lock'[Child(e)]) = Head(lock[Child(e)])
    BY <2>1 DEF Inv, LocksAreHeld, Holds
  <2>4. LocksAreHeld'
    BY <2>1, <2>2, <2>3, QueueKeeps DEF Ends
  <2>5. \A e \in Deliveries : Mild(e)
    BY <1>1, <2>1 DEF Ends, Mild, Same, At, Child
  <2>6. QED
    BY <2>2, <2>4, <2>5, MildKeeps, <1>2 DEF Prepared
<1>3. CASE To(d, "queued") /\ lock' = [lock EXCEPT ![Child(d)] = Append(@, Delivery(d))]
  <2>1. /\ lock' \in [Children -> Seq(PlaceT)]
        /\ \A j \in Children : lock[j] # <<>> => lock'[j] # <<>> /\ Head(lock'[j]) = Head(lock[j])
    BY <1>1, <1>3, AppendDoes
  <2>2. \A e \in Deliveries \ {d} : At(e) \in Critical => Child(e) \in Children /\ lock[Child(e)] # <<>>
    BY <1>1, CallFields DEF Inv, LocksAreHeld, Holds, Phases
  <2>3. QED
    BY <1>1, <1>3, <2>1, <2>2, QueuesAgain DEF Prepared
<1>4. QED
  BY <1>2, <1>3 DEF Prepared, Caller, Child

\* The wait for a disposal is over: out of the lock, and to its end again.
LEMMA WaitsNoMoreKeeps == ASSUME Inv, NEW d \in Deliveries, WaitsNoMore(d)  PROVE Inv'
<1>1. /\ CallsOK /\ At(d) = "waiting" /\ At(d) \in Phases /\ Child(d) \in Children
      /\ Delivery(d) \in PlaceT
  BY CallFields, PlacesDiffer, DeliveryAssumption
     DEF Inv, WaitsNoMore, Caller, At, Phases, Critical, Deliveries
<1>2. Holds(Child(d), Delivery(d))
  BY <1>1 DEF Inv, LocksAreHeld, Critical
<1>3. CASE End(d) /\ Leave(Child(d))
  <2>1. Refuse(d)
    BY <1>3 DEF WaitsNoMore, Refuse, Caller, Child
  <2>2. QED
    BY <1>1, <1>2, <2>1, RefuseKeeps
<1>4. CASE To(d, "queued") /\ lock' = [lock EXCEPT ![Child(d)] = Append(Tail(@), Delivery(d))]
  <2>1. /\ lock' \in [Children -> Seq(PlaceT)]
        /\ \A j \in Children \ {Child(d)} : lock'[j] = lock[j]
    BY <1>1, <1>2, <1>4 DEF CallsOK, Holds
  <2>2. ASSUME NEW e \in Deliveries \ {d}, At(e) \in Critical
        PROVE  lock[Child(e)] # <<>> /\ lock'[Child(e)] = lock[Child(e)]
    <3>1. Holds(Child(e), Delivery(e)) /\ Child(e) \in Children
      BY <1>1, <2>2, CallFields DEF Inv, LocksAreHeld, Phases
    <3>2. Delivery(e) # Delivery(d)
      BY <2>2, PlacesDiffer, DeliveryAssumption DEF Deliveries
    <3>3. Child(e) # Child(d)
      BY <1>2, <3>1, <3>2 DEF Holds
    <3>4. QED
      BY <2>1, <3>1, <3>3 DEF Holds
  <2>3. QED
    BY <1>1, <1>4, <2>1, <2>2, QueuesAgain DEF WaitsNoMore
<1>5. QED
  BY <1>3, <1>4 DEF WaitsNoMore, Caller, Child

\* The inspection is over: the child is created or the call refused.
LEMMA InspectedKeeps == ASSUME Inv, NEW d \in Deliveries, Inspected(d)  PROVE Inv'
<1>1. At(d) = "inspecting" /\ At(d) \in Phases /\ Holds(Child(d), Delivery(d))
      /\ residency[Child(d)] = "absent"
  BY DEF Inv, Inspected, Caller, At, Phases, Critical, LocksAreHeld, AgentsAreResident
<1>2. CASE Refuse(d)
  BY <1>1, <1>2, RefuseKeeps
<1>3. CASE ~Refuse(d)
  BY <1>1, <1>3, AdvanceKeeps DEF Inspected, Entitled, Admitting
<1>4. QED
  BY <1>2, <1>3

\* A creation fails, or what it left has been disposed of.
LEMMA CreationFailsKeeps ==
    ASSUME Inv, NEW d \in Deliveries, CreationFails(d) \/ Unpublished(d)  PROVE Inv'
<1>1. /\ At(d) \in {"creating", "unpublishing", "rollingBack"} /\ Refuse(d)
      /\ At(d) = "rollingBack" => residency[Child(d)] = "absent"
  BY DEF CreationFails, Unpublished, Caller, At, Child
<1>2. At(d) \in Phases \ {"published"} /\ Holds(Child(d), Delivery(d))
  BY <1>1 DEF Inv, Phases, Critical, LocksAreHeld
<1>3. QED
  BY <1>1, <1>2, RefuseKeeps

-----------------------------------------------------------------------------
(* A message is accepted.                                                  *)

\* The Agent that the caller named is the parent's, and it is there.
LEMMA EntitledMeans ==
    ASSUME Inv, NEW d \in Deliveries, At(d) \in Phases, Acceptable(d), Parent[Child(d)] \in Children
    PROVE  /\ residency[Parent[Child(d)]] = "live"
           /\ delivery[d].parent = born[Parent[Child(d)]]
<1>1. delivery[d].parent = agent[Parent[Child(d)]] /\ delivery[d].parent # 0
  BY CallFields DEF Inv, Acceptable, Entitled, Caller, Child, LiveParent
<1>2. residency[Parent[Child(d)]] # "absent"
  BY <1>1 DEF Inv, AgentsAreResident
<1>3. residency[Parent[Child(d)]] = "live"
  BY <1>2 DEF Acceptable, ParentClosing, Caller, Child
<1>4. QED
  BY <1>1, <1>3 DEF Inv, TypeOK

\* A child's own Activation becomes owned when its parent's is live.
LEMMA OwnedWithDoes ==
    ASSUME TypeOK, NEW k \in Children
    PROVE  /\ OwnedWith(k) \in [Children -> SUBSET Children]
           /\ \A o \in Children : \A c \in OwnedWith(k)[o] :
                 c \in owned[o] \/ (c = k /\ Parent[k] = o /\ residency[o] = "live")
           /\ \A o \in Children : owned[o] \subseteq OwnedWith(k)[o]
           /\ Parent[k] \in Children /\ residency[Parent[k]] = "live" =>
                 k \in OwnedWith(k)[Parent[k]]
BY DEF TypeOK, OwnedWith

\* admitWaking() of one message.
LEMMA SentDoes ==
    ASSUME TypeOK, NEW k \in Children, Sent(k)
    PROVE  /\ accepted' \in [Children -> Nat] /\ parked' \in [Children -> BOOLEAN]
           /\ poked' \in [Children -> BOOLEAN]
           /\ accepted'[k] > 0 /\ poked'[k]
           /\ \A j \in Children \ {k} : accepted'[j] = accepted[j] /\ poked'[j] = poked[j]
<1>1. PICK n \in Nat : n = accepted[k]
  BY DEF TypeOK
<1>2. accepted' = [accepted EXCEPT ![k] = n + 1] /\ n + 1 > 0 /\ n + 1 \in Nat
  BY <1>1 DEF Sent
<1>3. QED
  BY <1>2 DEF TypeOK, Sent

\* What is accepted goes to a live Activation that its parent's owns.
LEMMA AcceptKeeps ==
    ASSUME Inv, NEW d \in Deliveries, At(d) \in {"queued", "published"},
           Holds(Child(d), Delivery(d)), Acceptable(d), Accept(d)
    PROVE  Inv'
<1>0. PICK k \in Children : k = Child(d)
  BY CallFields DEF Inv, Phases, Critical
<1>1. /\ At(d) \in Phases /\ residency[k] = "live"
      /\ residency' = residency /\ agent' = agent /\ born' = born /\ busy' = busy
      /\ watcher' = watcher /\ drain' = drain /\ drainAt' = drainAt /\ drainWaits' = drainWaits
      /\ owned' = OwnedWith(k) /\ Sent(k) /\ Leave(k) /\ Ends(d)
  BY <1>0, EndDoes DEF Inv, Accept, Acceptable, Caller, Child, drainVars, Phases, Critical
<1>2. TypeOK /\ CallsOK' /\ LocksAreHeld'
  BY <1>0, <1>1, LeavingKeepsLocks DEF Inv
<1>3. TypeOK'
  BY <1>1, <1>2, OwnedWithDoes, SentDoes DEF TypeOK
<1>4. AgentsAreResident'
  BY <1>1 DEF Inv, AgentsAreResident, Ends, At, Child
<1>5. OwnersAreThere'
  BY <1>1, <1>2, OwnedWithDoes DEF Inv, OwnersAreThere
<1>6. WorkIsResident'
  BY <1>1, <1>2, SentDoes DEF Inv, WorkIsResident
<1>7. \A j : Published(j)' => Published(j) /\ j # k
  <2> SUFFICES ASSUME NEW e \in Deliveries, At(e)' = "published"
               PROVE  At(e) = "published" /\ Child(e)' = Child(e) /\ Child(e) # k
    BY DEF Published
  <2>1. e # d /\ At(e) = "published" /\ Child(e)' = Child(e)
    BY <1>1 DEF Ends, At, Child
  <2>2. Holds(Child(e), Delivery(e)) /\ Delivery(e) # Delivery(d)
    BY <2>1, PlacesDiffer, DeliveryAssumption DEF Inv, LocksAreHeld, Critical, Deliveries
  <2>3. QED
    BY <1>0, <2>1, <2>2 DEF Holds
<1>8. \A j : Published(j) => Published(j)' \/ j = k
  BY <1>0, <1>1 DEF Published, Ends, At, Child
<1>9. Parent[k] \in Children => residency[Parent[k]] = "live" /\ delivery[d].parent = born[Parent[k]]
  BY <1>0, <1>1, EntitledMeans
<1>10. LiveAreOwned'
  BY <1>1, <1>2, <1>8, <1>9, OwnedWithDoes, SentDoes DEF Inv, LiveAreOwned
<1>11. ParentsAreKnown'
  BY <1>1 DEF Inv, ParentsAreKnown, Ends, At, Child, Phases, Critical
<1>12. PublishedAreFresh'
  <2> SUFFICES ASSUME NEW j \in Children, Published(j)'
               PROVE  /\ accepted'[j] = 0 /\ ~busy[j]
                      /\ \A e \in Deliveries :
                            At(e)' \in Phases /\ Parent[Child(e)'] = j => delivery'[e].parent # born[j]
                      /\ \A c \in Children : Parent[c] = j /\ residency[c] = "live" => Published(c)'
    BY <1>1 DEF PublishedAreFresh
  <2>1. Published(j) /\ j # k
    BY <1>7
  <2>2. accepted'[j] = 0 /\ ~busy[j]
    BY <1>2, <1>1, <2>1, SentDoes DEF Inv, PublishedAreFresh
  <2>3. Parent[k] # j
    BY <1>0, <1>1, <1>9, <2>1 DEF Inv, PublishedAreFresh
  <2>4. ASSUME NEW e \in Deliveries, At(e)' \in Phases, Parent[Child(e)'] = j
        PROVE  delivery'[e].parent # born[j]
    <3>1. delivery'[e] = delivery[e]
      BY <1>1, <2>4 DEF Ends, At, Phases, Critical
    <3>2. QED
      BY <2>1, <2>4, <3>1 DEF Inv, PublishedAreFresh, At, Child
  <2>5. ASSUME NEW c \in Children, Parent[c] = j, residency[c] = "live"  PROVE Published(c)'
    BY <1>8, <2>1, <2>3, <2>5 DEF Inv, PublishedAreFresh
  <2>6. QED
    BY <2>2, <2>4, <2>5
<1>13. LiveAreWatched'
  <2> SUFFICES ASSUME NEW j \in Children, residency[j] = "live"
               PROVE  /\ watcher[j] # "none"
                      /\ watcher[j] = "resting" /\ ~poked'[j] => ~busy[j] /\ ~Settled(j)'
    BY <1>1 DEF LiveAreWatched
  <2>1. watcher[j] # "none" /\ (watcher[j] = "resting" /\ ~poked[j] => ~busy[j] /\ ~Settled(j))
    BY DEF Inv, LiveAreWatched
  <2>2. j # k => poked'[j] = poked[j] /\ accepted'[j] = accepted[j]
    BY <1>1, <1>2, SentDoes
  <2>3. j = k => poked'[j]
    BY <1>1, <1>2, SentDoes
  <2>4. owned[j] \subseteq owned'[j]
    BY <1>1, <1>2, OwnedWithDoes
  <2>5. j # k /\ ~Settled(j) => ~Settled(j)'
    BY <1>1, <2>2, <2>4 DEF Settled
  <2>6. QED
    BY <2>1, <2>2, <2>3, <2>5
<1>14. DrainReaches'
  <2>1. drain = "no" /\ drainAt = "none"
    BY DEF Acceptable, Entitled, Admitting, Inv, DrainReaches
  <2>2. QED
    BY <1>1, <2>1 DEF DrainReaches
<1>15. QED
  BY <1>2, <1>3, <1>4, <1>5, <1>6, <1>10, <1>11, <1>12, <1>13, <1>14 DEF Inv

\* The critical section of a delivery begins.
LEMMA EntersLockKeeps == ASSUME Inv, NEW d \in Deliveries, EntersLock(d)  PROVE Inv'
<1>1. At(d) = "queued" /\ At(d) \in Phases /\ Holds(Child(d), Delivery(d))
  BY DEF EntersLock, Caller, At, Child, Phases
<1>2. CASE Acceptable(d) /\ Accept(d)
  BY <1>1, <1>2, AcceptKeeps
<1>3. CASE Refuse(d)
  BY <1>1, <1>3, RefuseKeeps
<1>4. CASE ~(Acceptable(d) /\ Accept(d)) /\ ~Refuse(d)
  <2>1. PICK phase \in {"waiting", "inspecting", "creating"} :
           /\ To(d, phase) /\ (phase # "waiting" => residency[Child(d)] = "absent")
           /\ phase = "creating" => drain = "no"
           /\ UNCHANGED <<residency, agent, born, agentVars, owned, watcher, poked, lock, drainVars>>
    BY <1>4 DEF EntersLock, Caller, Child, Admitting
  <2>2. QED
    BY <1>1, <2>1, AdvanceKeeps
<1>5. QED
  BY <1>2, <1>3, <1>4

-----------------------------------------------------------------------------
(* Disposals begin.                                                        *)

\* The disposals of these Activations open; the others stay as they are.
Opening(set) ==
    /\ \A k \in set : residency[k] = "live" /\ residency'[k] = "stopping" /\ accepted'[k] = 0
    /\ \A k \in Children \ set :
          /\ residency'[k] = residency[k] /\ accepted'[k] = accepted[k]
          /\ watcher'[k] = watcher[k] /\ poked'[k] = poked[k]

\* What dispose() does to live Activations.
LEMMA OpenedDoes ==
    ASSUME TypeOK, NEW set \in SUBSET Live(Children), Opened(set)
    PROVE  /\ Opening(set)
           /\ residency' \in [Children -> {"absent", "live", "stopping", "releasing"}]
           /\ accepted' \in [Children -> Nat] /\ parked' \in [Children -> BOOLEAN]
           /\ watcher' \in [Children -> {"none", "watching", "queued", "resting"}]
           /\ poked' \in [Children -> BOOLEAN]
BY DEF TypeOK, Opened, Opening, Live

\* What a disposal of live Activations reaches is live.
LEMMA ReachIsLive ==
    ASSUME TypeOK, NEW roots \in SUBSET Live(Children)
    PROVE  Reach(roots) \in SUBSET Live(Children) /\ Closed(Reach(roots))
<1>1. /\ owned \in [Children -> SUBSET Children] /\ roots \in SUBSET Children
      /\ Live(Children) \in SUBSET Children
  BY DEF TypeOK, Live
<1>2. Closed(Live(Children))
  BY <1>1 DEF Closed, Live
<1>3. QED
  BY <1>1, <1>2, ReachDoes

\* A published delivery may find that it has to be undone.
Undoes(e) ==
    /\ At(e) = "published" /\ At(e)' = "unpublishing" /\ residency'[Child(e)] # "live"
    /\ Child(e)' = Child(e) /\ delivery'[e].parent = delivery[e].parent

\* Disposals reach whoever is owned and live, so nobody is left without owner.
LEMMA OpeningKeeps ==
    ASSUME Inv, NEW set \in SUBSET Children, Closed(set), Opening(set),
           agent' = agent, born' = born, busy' = busy, owned' = owned,
           \A e \in Deliveries : Same(e) \/ Undoes(e)
    PROVE  /\ AgentsAreResident' /\ OwnersAreThere' /\ WorkIsResident' /\ LiveAreOwned'
           /\ ParentsAreKnown' /\ PublishedAreFresh' /\ LiveAreWatched' /\ Resident' = Resident
<1>1. \A k \in Children : Published(k)' => Published(k)
  BY DEF Published, Same, Undoes, At, Child
<1>2. \A k \in Children : Published(k) /\ residency'[k] = "live" => Published(k)'
  BY DEF Published, Same, Undoes, At, Child
<1>3. \A k \in Children :
         /\ residency'[k] = residency[k] \/ (residency[k] = "live" /\ residency'[k] = "stopping")
         /\ accepted'[k] > 0 => accepted[k] > 0 /\ residency'[k] = residency[k]
         /\ accepted[k] = 0 => accepted'[k] = 0
  BY DEF Opening, Inv, TypeOK
<1>4. AgentsAreResident'
  <2>1. ASSUME NEW e \in Deliveries, At(e)' \in {"inspecting", "creating"}
        PROVE  Child(e)' \in Children /\ residency[Child(e)'] = "absent"
    BY <2>1, CallFields DEF Inv, AgentsAreResident, Same, Undoes, Phases, Critical
  <2>2. QED
    BY <1>3, <2>1 DEF Inv, AgentsAreResident
<1>5. OwnersAreThere'
  <2> SUFFICES ASSUME NEW o \in Children, NEW k \in owned[o]
               PROVE  /\ Parent[k] = o /\ residency'[k] # "absent"
                      /\ residency'[o] = "live" \/ (residency'[o] = "stopping" /\ residency'[k] # "live")
    BY DEF OwnersAreThere
  <2>1. /\ k \in Children /\ Parent[k] = o /\ residency[k] # "absent"
        /\ residency[o] = "live" \/ (residency[o] = "stopping" /\ residency[k] # "live")
    BY DEF Inv, OwnersAreThere, TypeOK
  <2>2. o \in set /\ residency[k] = "live" => k \in set
    BY DEF Closed
  <2>3. QED
    BY <2>1, <2>2 DEF Opening
<1>6. WorkIsResident'
  BY <1>3 DEF Inv, WorkIsResident
<1>7. LiveAreOwned'
  BY <1>2, <1>3 DEF Inv, LiveAreOwned
<1>8. ParentsAreKnown'
  BY DEF Inv, ParentsAreKnown, Same, Undoes, At, Child, Phases, Critical
<1>9. PublishedAreFresh'
  <2> SUFFICES ASSUME NEW k \in Children, Published(k)
               PROVE  /\ accepted'[k] = 0 /\ ~busy[k]
                      /\ \A e \in Deliveries :
                            At(e)' \in Phases /\ Parent[Child(e)'] = k => delivery'[e].parent # born[k]
                      /\ \A c \in Children : Parent[c] = k /\ residency'[c] = "live" => Published(c)'
    BY <1>1 DEF PublishedAreFresh
  <2>1. accepted'[k] = 0 /\ ~busy[k]
    BY <1>3 DEF Inv, PublishedAreFresh
  <2>2. \A e \in Deliveries :
           At(e)' \in Phases /\ Parent[Child(e)'] = k => delivery'[e].parent # born[k]
    BY DEF Inv, PublishedAreFresh, Same, Undoes, At, Child, Phases, Critical
  <2>3. \A c \in Children : Parent[c] = k /\ residency'[c] = "live" => Published(c)'
    BY <1>2, <1>3 DEF Inv, PublishedAreFresh
  <2>4. QED
    BY <2>1, <2>2, <2>3
<1>10. LiveAreWatched'
  BY DEF Inv, LiveAreWatched, Opening, Settled
<1>11. Resident' = Resident
  BY <1>3 DEF Resident
<1>12. QED
  BY <1>4, <1>5, <1>6, <1>7, <1>8, <1>9, <1>10, <1>11

\* The first message of a new Activation is accepted, or its disposal begins.
LEMMA SubmitsKeeps == ASSUME Inv, NEW d \in Deliveries, Submits(d)  PROVE Inv'
<1>0. PICK k \in Children : k = Child(d)
  BY CallFields DEF Inv, Submits, Caller, At, Phases, Critical
<1>1. At(d) = "published" /\ At(d) \in Phases /\ Holds(Child(d), Delivery(d)) /\ TypeOK
  BY DEF Submits, Caller, At, Inv, LocksAreHeld, Phases, Critical
<1>2. CASE Acceptable(d) /\ Accept(d)
  BY <1>1, <1>2, AcceptKeeps
<1>3. CASE ~(Acceptable(d) /\ Accept(d))
  <2>1. /\ To(d, "unpublishing") /\ lock' = lock
        /\ agent' = agent /\ born' = born /\ busy' = busy /\ owned' = owned
        /\ drain' = drain /\ drainAt' = drainAt /\ drainWaits' = drainWaits
        /\ IF residency[k] = "live" THEN Opened(Reach({k}))
           ELSE UNCHANGED <<residency, accepted, parked, watcher, poked>>
    BY <1>0, <1>3 DEF Submits, drainVars, Caller, Child
  <2>2. Goes(d, "unpublishing") /\ CallsOK
    BY <1>1, <2>1, ToDoes DEF Inv, Phases, Critical
  <2>3. CallsOK'
    BY <2>1, <2>2 DEF CallsOK, Goes
  <2>4. LocksAreHeld'
    BY <1>1, <2>1, <2>2 DEF Inv, LocksAreHeld, Goes, Holds, At, Child, Delivery, Critical
  <2>5. PICK set \in SUBSET Children :
           Closed(set) /\ Opening(set) /\ TypeOK' /\ residency'[k] # "live"
    <3>1. CASE residency[k] = "live"
      <4>1. {k} \in SUBSET Live(Children) /\ {k} \in SUBSET Children
        BY <3>1 DEF Live
      <4>2. Reach({k}) \in SUBSET Live(Children) /\ Closed(Reach({k})) /\ k \in Reach({k})
        BY <1>1, <4>1, ReachIsLive, ReachDoes DEF TypeOK
      <4>3. Opening(Reach({k})) /\ TypeOK'
        BY <1>1, <2>1, <3>1, <4>2, OpenedDoes DEF TypeOK
      <4>4. Reach({k}) \in SUBSET Children /\ residency'[k] # "live"
        BY <4>2, <4>3 DEF Opening, Live
      <4>5. QED
        BY <4>2, <4>3, <4>4
    <3>2. CASE residency[k] # "live"
      <4>1. Closed({}) /\ Opening({}) /\ TypeOK' /\ residency'[k] # "live"
        BY <1>1, <2>1, <3>2 DEF Closed, Opening, TypeOK
      <4>2. QED
        BY <4>1
    <3>3. QED
      BY <3>1, <3>2
  <2>6. \A e \in Deliveries : Same(e) \/ Undoes(e)
    BY <1>0, <1>1, <2>2, <2>5 DEF Goes, Same, Undoes, At, Child
  <2>7. /\ AgentsAreResident' /\ OwnersAreThere' /\ WorkIsResident' /\ LiveAreOwned'
        /\ ParentsAreKnown' /\ PublishedAreFresh' /\ LiveAreWatched' /\ Resident' = Resident
    BY <2>1, <2>5, <2>6, OpeningKeeps
  <2>8. DrainReaches'
    <3>1. \A e \in Deliveries : At(e)' \in {"creating", "rollingBack"} <=> At(e) \in {"creating", "rollingBack"}
      BY <2>6 DEF Same, Undoes
    <3>2. \A j : RollingBack(j) => RollingBack(j)'
      BY <2>6 DEF Same, Undoes, RollingBack
    <3>3. QED
      BY <2>1, <2>7, <3>1, <3>2 DEF Inv, DrainReaches
  <2>9. QED
    BY <2>3, <2>4, <2>5, <2>7, <2>8 DEF Inv
<1>4. QED
  BY <1>2, <1>3

-----------------------------------------------------------------------------
(* A child is created.                                                     *)

\* A child that is being created is not there, and nobody else is in its
\* critical section.
LEMMA CreatingMeans ==
    ASSUME Inv, NEW d \in Deliveries, At(d) = "creating"
    PROVE  /\ Child(d) \in Children /\ residency[Child(d)] = "absent" /\ agent[Child(d)] = 0
           /\ accepted[Child(d)] = 0 /\ ~busy[Child(d)] /\ owned[Child(d)] = {}
           /\ \A o \in Children : Child(d) \notin owned[o]
           /\ \A e \in Deliveries : At(e) \in Critical /\ e # d => Child(e) # Child(d)
<1>1. Child(d) \in Children /\ TypeOK
  BY CallFields DEF Inv, Phases, Critical
<1>2. residency[Child(d)] = "absent" /\ agent[Child(d)] = 0
  BY <1>1 DEF Inv, AgentsAreResident
<1>3. accepted[Child(d)] = 0 /\ ~busy[Child(d)]
  BY <1>1, <1>2 DEF Inv, WorkIsResident, TypeOK
<1>4. owned[Child(d)] = {} /\ \A o \in Children : Child(d) \notin owned[o]
  BY <1>1, <1>2 DEF Inv, OwnersAreThere
<1>5. ASSUME NEW e \in Deliveries, At(e) \in Critical, e # d  PROVE Child(e) # Child(d)
  <2>1. Holds(Child(e), Delivery(e)) /\ Holds(Child(d), Delivery(d)) /\ Delivery(e) # Delivery(d)
    BY <1>5, PlacesDiffer, DeliveryAssumption DEF Inv, LocksAreHeld, Critical, Deliveries
  <2>2. QED
    BY <2>1 DEF Holds
<1>6. QED
  BY <1>1, <1>2, <1>3, <1>4, <1>5

\* The Agent is registered, as an Activation that is kept or one to roll back.
LEMMA CreatedDoes ==
    ASSUME Inv, NEW d \in Deliveries, NEW k \in Children, k = Child(d), Created(d)
    PROVE  /\ At(d) = "creating" /\ lock' = lock /\ agentVars' = agentVars
           /\ drain' = drain /\ drainAt' = drainAt /\ drainWaits' = drainWaits
           /\ born' \in [Children -> Nat] /\ agent' \in [Children -> Nat]
           /\ born'[k] = born[k] + 1 /\ agent'[k] = born[k] + 1 /\ agent'[k] # 0
           /\ residency' \in [Children -> {"absent", "live", "stopping", "releasing"}]
           /\ \A j \in Children \ {k} :
                 born'[j] = born[j] /\ agent'[j] = agent[j] /\ residency'[j] = residency[j]
           /\ \/ /\ residency'[k] = "live" /\ Goes(d, "published")
                 /\ drain = "no" /\ ~ParentClosing(k) /\ owned' = OwnedWith(k)
                 /\ watcher' = [watcher EXCEPT ![k] = "watching"]
                 /\ poked' = [poked EXCEPT ![k] = FALSE]
              \/ /\ residency'[k] = "releasing" /\ Goes(d, "rollingBack")
                 /\ owned' = owned /\ watcher' = watcher /\ poked' = poked
<1>1. CallsOK /\ TypeOK /\ At(d) = "creating" /\ At(d) \in Phases
  BY DEF Inv, Created, Caller, At, Phases, Critical
<1>2. PICK n \in Nat : n = born[k]
  BY <1>1 DEF TypeOK
<1>3. n + 1 \in Nat /\ n + 1 # 0
  BY <1>2
<1>4. /\ born' = [born EXCEPT ![k] = n + 1] /\ agent' = [agent EXCEPT ![k] = n + 1]
      /\ lock' = lock /\ agentVars' = agentVars
      /\ drain' = drain /\ drainAt' = drainAt /\ drainWaits' = drainWaits
  BY <1>2 DEF Created, Caller, Child, drainVars
<1>5. PICK kept \in BOOLEAN :
         /\ kept = (~Caller(d).aborted /\ Admitting /\ ~ParentClosing(k))
         /\ residency' = [residency EXCEPT ![k] = IF kept THEN "live" ELSE "releasing"]
         /\ To(d, IF kept THEN "published" ELSE "rollingBack")
         /\ IF kept
            THEN /\ owned' = OwnedWith(k) /\ watcher' = [watcher EXCEPT ![k] = "watching"]
                 /\ poked' = [poked EXCEPT ![k] = FALSE]
            ELSE UNCHANGED <<owned, watcher, poked>>
  BY Zenon DEF Created, Caller, Child
<1>6. CASE kept
  <2>1. Goes(d, "published") /\ drain = "no" /\ ~ParentClosing(k)
    BY <1>1, <1>5, <1>6, ToDoes DEF Phases, Critical, Admitting
  <2>2. QED
    BY <1>1, <1>2, <1>3, <1>4, <1>5, <1>6, <2>1 DEF TypeOK
<1>7. CASE ~kept
  <2>1. Goes(d, "rollingBack")
    BY <1>1, <1>5, <1>7, ToDoes DEF Phases, Critical
  <2>2. QED
    BY <1>1, <1>2, <1>3, <1>4, <1>5, <1>7, <2>1 DEF TypeOK
<1>8. QED
  BY <1>6, <1>7

\* The Agent is there: one Activation more, owned when it is kept.
LEMMA CreatedKeeps == ASSUME Inv, NEW d \in Deliveries, Created(d)  PROVE Inv'
<1>0. PICK k \in Children : k = Child(d)
  BY CreatingMeans DEF Created, Caller, At
<1>1. /\ At(d) = "creating" /\ lock' = lock /\ drain' = drain /\ drainAt' = drainAt
      /\ drainWaits' = drainWaits /\ busy' = busy /\ accepted' = accepted /\ parked' = parked
      /\ \A j \in Children \ {k} :
            born'[j] = born[j] /\ agent'[j] = agent[j] /\ residency'[j] = residency[j]
      /\ born'[k] = born[k] + 1 /\ agent'[k] # 0
  BY <1>0, CreatedDoes DEF agentVars
<1>2. /\ TypeOK /\ residency[k] = "absent" /\ agent[k] = 0 /\ accepted[k] = 0 /\ ~busy[k]
      /\ owned[k] = {} /\ \A o \in Children : k \notin owned[o]
  BY <1>0, <1>1, CreatingMeans DEF Inv
<1>3. \A e \in Deliveries : At(e) \in Critical /\ e # d => Child(e) # k
  BY <1>0, <1>1, CreatingMeans
<1>4. PICK phase \in {"published", "rollingBack"} :
         Goes(d, phase) /\ residency'[k] = IF phase = "published" THEN "live" ELSE "releasing"
  BY <1>0, CreatedDoes
<1>5. CallsOK' /\ LocksAreHeld'
  <2>1. CallsOK'
    BY <1>1, <1>4 DEF Inv, CallsOK, Goes
  <2>2. ASSUME NEW e \in Deliveries, At(e)' \in Critical
        PROVE  Child(e)' = Child(e) /\ Holds(Child(e), Delivery(e))
    BY <1>1, <1>4, <2>2 DEF Inv, LocksAreHeld, Goes, At, Child, Critical
  <2>3. QED
    BY <1>1, <2>1, <2>2 DEF LocksAreHeld, Holds, Delivery
<1>6. TypeOK'
  <2>1. /\ owned' \in [Children -> SUBSET Children]
        /\ watcher' \in [Children -> {"none", "watching", "queued", "resting"}]
        /\ poked' \in [Children -> BOOLEAN]
    <3>1. /\ owned' \in {owned, OwnedWith(k)}
          /\ watcher' = watcher \/ watcher' = [watcher EXCEPT ![k] = "watching"]
          /\ poked' = poked \/ poked' = [poked EXCEPT ![k] = FALSE]
      BY <1>0, CreatedDoes
    <3>2. OwnedWith(k) \in [Children -> SUBSET Children]
      BY <1>2, OwnedWithDoes
    <3>3. QED
      BY <1>2, <3>1, <3>2 DEF TypeOK
  <2>2. /\ residency' \in [Children -> {"absent", "live", "stopping", "releasing"}]
        /\ agent' \in [Children -> Nat] /\ born' \in [Children -> Nat]
        /\ \A j \in Children : agent'[j] \in {0, born'[j]}
    BY <1>0, <1>2, CreatedDoes DEF TypeOK
  <2>3. QED
    BY <1>1, <1>2, <2>1, <2>2 DEF TypeOK
<1>7. /\ \A o \in Children : \A c \in owned'[o] :
            c \in owned[o] \/ (c = k /\ Parent[k] = o /\ residency[o] = "live" /\ residency'[k] = "live")
      /\ \A o \in Children : owned[o] \subseteq owned'[o]
  BY <1>0, <1>2, CreatedDoes, OwnedWithDoes
<1>8. /\ \A j \in Children : Published(j)' <=> Published(j) \/ (j = k /\ phase = "published")
      /\ ~Published(k)
      /\ \A j \in Children : RollingBack(j) \/ (j = k /\ phase = "rollingBack") => RollingBack(j)'
  <2>1. \A e \in Deliveries : At(e) \in Critical /\ e # d =>
            At(e)' = At(e) /\ Child(e)' = Child(e) /\ Child(e) # k
    BY <1>3, <1>4 DEF Goes, At, Child
  <2>2. At(d)' = phase /\ Child(d)' = k
    BY <1>0, <1>4 DEF Goes, At, Child
  <2>3. \A e \in Deliveries : At(e)' = "published" /\ e # d => At(e) = "published" /\ Child(e)' = Child(e)
    BY <1>4 DEF Goes, At, Child
  <2>4. \A e \in Deliveries : At(e) \in {"published", "rollingBack"} => At(e) \in Critical /\ e # d
    BY <1>1 DEF Critical
  <2>5. QED
    BY <2>1, <2>2, <2>3, <2>4 DEF Published, RollingBack
<1>9. AgentsAreResident'
  <2>1. ASSUME NEW e \in Deliveries, At(e)' \in {"inspecting", "creating"}
        PROVE  Child(e)' \in Children /\ residency'[Child(e)'] = "absent"
    <3>1. e # d /\ At(e) \in {"inspecting", "creating"} /\ Child(e)' = Child(e)
      BY <1>4, <2>1 DEF Goes, At, Child
    <3>2. Child(e) \in Children \ {k} /\ residency[Child(e)] = "absent"
      BY <1>3, <3>1, CallFields DEF Inv, AgentsAreResident, Phases, Critical
    <3>3. QED
      BY <1>1, <3>1, <3>2
  <2>2. QED
    BY <1>1, <1>4, <2>1 DEF Inv, AgentsAreResident
<1>10. OwnersAreThere'
  <2> SUFFICES ASSUME NEW o \in Children, NEW c \in owned'[o]
               PROVE  /\ Parent[c] = o /\ residency'[c] # "absent"
                      /\ residency'[o] = "live" \/ (residency'[o] = "stopping" /\ residency'[c] # "live")
    BY DEF OwnersAreThere
  <2>1. CASE c \in owned[o]
    <3>1. c \in Children \ {k} /\ o # k
      BY <1>2, <2>1 DEF TypeOK
    <3>2. QED
      BY <1>1, <2>1, <3>1 DEF Inv, OwnersAreThere
  <2>2. CASE c = k /\ Parent[k] = o /\ residency[o] = "live" /\ residency'[k] = "live"
    BY <1>1, <1>2, <2>2
  <2>3. QED
    BY <1>7, <2>1, <2>2
<1>11. WorkIsResident'
  BY <1>1, <1>2 DEF Inv, WorkIsResident
<1>12. LiveAreOwned'
  <2> SUFFICES ASSUME NEW j \in Children, Parent[j] \in Children
               PROVE  /\ residency'[j] = "live" /\ ~Published(j)' => j \in owned'[Parent[j]]
                      /\ accepted[j] > 0 \/ busy[j] => j \in owned'[Parent[j]]
    BY <1>1 DEF LiveAreOwned
  <2>1. CASE j = k
    BY <1>2, <1>4, <1>8, <2>1
  <2>2. CASE j # k
    BY <1>1, <1>7, <1>8, <2>2 DEF Inv, LiveAreOwned
  <2>3. QED
    BY <2>1, <2>2
<1>13. ASSUME NEW e \in Deliveries, At(e)' \in Phases
       PROVE  At(e) \in Phases /\ Child(e)' = Child(e) /\ delivery'[e].parent = delivery[e].parent
              /\ delivery[e].parent \in Nat
  <2>1. At(e) \in Phases /\ Child(e)' = Child(e) /\ delivery'[e].parent = delivery[e].parent
    BY <1>1, <1>4, <1>13 DEF Goes, At, Child, Phases, Critical
  <2>2. QED
    BY <2>1, CallFields DEF Inv
<1>14. ParentsAreKnown'
  <2> SUFFICES ASSUME NEW e \in Deliveries, At(e) \in Phases, Parent[Child(e)] \in Children,
                      delivery[e].parent \in Nat
               PROVE  delivery[e].parent <= born'[Parent[Child(e)]]
    BY <1>13 DEF ParentsAreKnown
  <2>1. delivery[e].parent <= born[Parent[Child(e)]] /\ born[Parent[Child(e)]] \in Nat
    BY <1>2 DEF Inv, ParentsAreKnown, TypeOK
  <2>2. born'[Parent[Child(e)]] \in {born[Parent[Child(e)]], born[Parent[Child(e)]] + 1}
    BY <1>1
  <2>3. QED
    BY <2>1, <2>2
<1>15. PublishedAreFresh'
  <2> SUFFICES ASSUME NEW j \in Children, Published(j)'
               PROVE  /\ accepted[j] = 0 /\ ~busy[j]
                      /\ \A e \in Deliveries :
                            At(e)' \in Phases /\ Parent[Child(e)'] = j => delivery'[e].parent # born'[j]
                      /\ \A c \in Children : Parent[c] = j /\ residency'[c] = "live" => Published(c)'
    BY <1>1 DEF PublishedAreFresh
  <2>1. CASE j = k
    <3>1. ASSUME NEW e \in Deliveries, At(e)' \in Phases, Parent[Child(e)'] = k
          PROVE  delivery'[e].parent # born'[k]
      <4>1. delivery[e].parent <= born[k] /\ delivery[e].parent \in Nat /\ born[k] \in Nat
        BY <1>2, <1>13, <3>1 DEF Inv, ParentsAreKnown, TypeOK
      <4>2. QED
        BY <1>1, <1>13, <3>1, <4>1
    <3>2. ASSUME NEW c \in Children, Parent[c] = k, residency'[c] = "live"  PROVE Published(c)'
      <4>1. CASE c = k
        BY <2>1, <4>1
      <4>2. CASE c # k
        <5>1. residency[c] = "live" /\ c \notin owned[Parent[c]]
          BY <1>1, <1>2, <3>2, <4>2
        <5>2. QED
          BY <1>8, <3>2, <5>1 DEF Inv, LiveAreOwned
      <4>3. QED
        BY <4>1, <4>2
    <3>3. QED
      BY <1>2, <2>1, <3>1, <3>2
  <2>2. CASE j # k
    <3>1. Published(j) /\ born'[j] = born[j]
      BY <1>1, <1>8, <2>2
    <3>2. accepted[j] = 0 /\ ~busy[j]
      BY <3>1 DEF Inv, PublishedAreFresh
    <3>3. ASSUME NEW e \in Deliveries, At(e)' \in Phases, Parent[Child(e)'] = j
          PROVE  delivery'[e].parent # born'[j]
      BY <1>13, <3>1, <3>3 DEF Inv, PublishedAreFresh
    <3>4. ASSUME NEW c \in Children, Parent[c] = j, residency'[c] = "live"  PROVE Published(c)'
      <4>1. CASE c = k
        BY <1>4, <1>8, <3>4, <4>1
      <4>2. CASE c # k
        BY <1>1, <1>8, <3>1, <3>4, <4>2 DEF Inv, PublishedAreFresh
      <4>3. QED
        BY <4>1, <4>2
    <3>5. QED
      BY <3>2, <3>3, <3>4
  <2>3. QED
    BY <2>1, <2>2
<1>16. LiveAreWatched'
  <2> SUFFICES ASSUME NEW j \in Children, residency'[j] = "live"
               PROVE  /\ watcher'[j] # "none"
                      /\ watcher'[j] = "resting" /\ ~poked'[j] => ~busy[j] /\ ~Settled(j)'
    BY <1>1 DEF LiveAreWatched
  <2>1. CASE j = k
    <3>1. watcher'[k] = "watching"
      BY <1>0, <1>2, <2>1, CreatedDoes DEF TypeOK
    <3>2. QED
      BY <2>1, <3>1
  <2>2. CASE j # k
    <3>1. watcher'[j] = watcher[j] /\ poked'[j] = poked[j]
      BY <1>0, <1>2, <2>2, CreatedDoes DEF TypeOK
    <3>2. ~Settled(j) => ~Settled(j)'
      BY <1>1, <1>7 DEF Settled
    <3>3. residency[j] = "live"
      BY <1>1, <2>2
    <3>4. QED
      BY <3>1, <3>2, <3>3 DEF Inv, LiveAreWatched
  <2>3. QED
    BY <2>1, <2>2
<1>17. DrainReaches'
  <2>1. drainAt \notin {"disposing", "done"}
    BY <1>1 DEF Inv, DrainReaches
  <2>2. CASE drain = "no"
    BY <1>1, <2>1, <2>2 DEF Inv, DrainReaches
  <2>3. CASE drain # "no"
    <3>1. phase = "rollingBack" /\ owned' = owned
      BY <1>0, <1>4, <2>3, CreatedDoes
    <3>2. \A j \in Resident' : j \in Resident \/ j = k
      BY <1>1 DEF Resident
    <3>3. QED
      BY <1>1, <1>8, <2>1, <3>1, <3>2 DEF Inv, DrainReaches, Resident
  <2>4. QED
    BY <2>2, <2>3
<1>18. QED
  BY <1>5, <1>6, <1>9, <1>10, <1>11, <1>12, <1>14, <1>15, <1>16, <1>17 DEF Inv

-----------------------------------------------------------------------------
(* The Agents work.                                                        *)

\* Whoever works may work: it is resident, owned, and past its first message.
MayWork(j) ==
    /\ residency[j] \in {"live", "stopping"} /\ ~Published(j)
    /\ Parent[j] \in Children => j \in owned[Parent[j]]

\* The invariant lets whoever works work.
LEMMA WorkersMayWork ==
    ASSUME Inv, NEW j \in Children, accepted[j] > 0 \/ busy[j]
    PROVE  MayWork(j) /\ (accepted[j] > 0 => residency[j] = "live")
<1>1. accepted[j] \in Nat /\ busy[j] \in BOOLEAN
  BY DEF Inv, TypeOK
<1>2. QED
  BY <1>1 DEF Inv, MayWork, WorkIsResident, LiveAreOwned, PublishedAreFresh

\* A step of an Agent: whoever works afterwards may, and a resting watcher is
\* told of what it must look at.
LEMMA AgentKeeps ==
    ASSUME Inv, TypeOK',
           UNCHANGED <<residency, agent, born, owned, watcher, lock, delivery, drainVars>>,
           \A j \in Children :
              /\ accepted'[j] > 0 => residency[j] = "live"
              /\ accepted'[j] > 0 \/ busy'[j] => MayWork(j)
              /\ \/ accepted'[j] = accepted[j] /\ busy'[j] = busy[j] /\ poked'[j] = poked[j]
                 \/ poked'[j] \/ residency[j] # "live" \/ watcher[j] # "resting"
    PROVE  Inv'
<1>0. /\ residency' = residency /\ agent' = agent /\ born' = born /\ owned' = owned
      /\ watcher' = watcher /\ lock' = lock /\ delivery' = delivery
      /\ drain' = drain /\ drainAt' = drainAt /\ drainWaits' = drainWaits
  BY DEF drainVars
<1>1. \A j : (Published(j)' <=> Published(j)) /\ (RollingBack(j)' <=> RollingBack(j))
  BY <1>0 DEF Published, RollingBack, At, Child
<1>2. CallsOK' /\ LocksAreHeld' /\ AgentsAreResident' /\ OwnersAreThere' /\ ParentsAreKnown'
  BY <1>0 DEF Inv, CallsOK, LocksAreHeld, AgentsAreResident, OwnersAreThere, ParentsAreKnown,
              Holds, At, Child, Delivery
<1>3. WorkIsResident'
  BY <1>0 DEF WorkIsResident, MayWork
<1>4. LiveAreOwned'
  BY <1>0, <1>1 DEF Inv, LiveAreOwned, MayWork
<1>5. PublishedAreFresh'
  <2> SUFFICES ASSUME NEW j \in Children, Published(j)  PROVE accepted'[j] = 0 /\ ~busy'[j]
    BY <1>0, <1>1 DEF Inv, PublishedAreFresh, At, Child
  <2>1. accepted'[j] \in Nat
    BY DEF TypeOK
  <2>2. QED
    BY <2>1 DEF MayWork
<1>6. LiveAreWatched'
  BY <1>0 DEF Inv, LiveAreWatched, Settled
<1>7. DrainReaches'
  BY <1>0, <1>1 DEF Inv, DrainReaches, Resident, At
<1>8. QED
  BY <1>2, <1>3, <1>4, <1>5, <1>6, <1>7 DEF Inv

\* A turn begins on an accepted message.
LEMMA TurnBeginsKeeps == ASSUME Inv, NEW k \in Children, TurnBegins(k)  PROVE Inv'
<1>0. PICK n \in Nat : n = accepted[k]
  BY DEF Inv, TypeOK
<1>1. /\ TypeOK /\ n > 0 /\ n - 1 \in Nat
      /\ busy' = [busy EXCEPT ![k] = TRUE] /\ accepted' = [accepted EXCEPT ![k] = n - 1]
      /\ poked' = [poked EXCEPT ![k] = TRUE] /\ parked' = parked
      /\ UNCHANGED <<residency, agent, born, owned, watcher, lock, delivery, drainVars>>
  BY <1>0 DEF Inv, TurnBegins
<1>2. TypeOK'
  <2>1. /\ busy' \in [Children -> BOOLEAN] /\ accepted' \in [Children -> Nat]
        /\ poked' \in [Children -> BOOLEAN]
    BY <1>1 DEF TypeOK
  <2>2. QED
    BY <1>1, <2>1 DEF TypeOK, drainVars
<1>3. MayWork(k) /\ residency[k] = "live"
  BY <1>0, <1>1, WorkersMayWork
<1>4. ASSUME NEW j \in Children
      PROVE  /\ accepted'[j] > 0 => residency[j] = "live"
             /\ accepted'[j] > 0 \/ busy'[j] => MayWork(j)
             /\ \/ accepted'[j] = accepted[j] /\ busy'[j] = busy[j] /\ poked'[j] = poked[j]
                \/ poked'[j] \/ residency[j] # "live" \/ watcher[j] # "resting"
  <2>1. CASE j = k
    BY <1>1, <1>3, <2>1 DEF TypeOK
  <2>2. CASE j # k
    <3>1. accepted'[j] = accepted[j] /\ busy'[j] = busy[j] /\ poked'[j] = poked[j]
      BY <1>1, <2>2 DEF TypeOK
    <3>2. QED
      BY <3>1, WorkersMayWork
  <2>3. QED
    BY <2>1, <2>2
<1>5. QED
  BY <1>1, <1>2, <1>4, AgentKeeps

\* The end of a turn, by itself or by an interrupt.
LEMMA TurnEndsKeeps ==
    ASSUME Inv, NEW k \in Children, TurnEnds(k) \/ Interrupts(k)
    PROVE  Inv'
<1>1. /\ TypeOK /\ busy[k] /\ busy' = [busy EXCEPT ![k] = FALSE]
      /\ accepted' = accepted /\ poked' = poked
      /\ UNCHANGED <<residency, agent, born, owned, watcher, lock, delivery, drainVars>>
  BY DEF Inv, TurnEnds, Interrupts
<1>2. TypeOK'
  <2>1. busy' \in [Children -> BOOLEAN]
    BY <1>1 DEF TypeOK
  <2>2. parked' \in [Children -> BOOLEAN]
    <3>1. parked \in [Children -> BOOLEAN] /\ (accepted[k] > 0) \in BOOLEAN
      BY <1>1 DEF TypeOK
    <3>2. parked' = parked \/ parked' = [parked EXCEPT ![k] = accepted[k] > 0]
      BY Zenon DEF TurnEnds, Interrupts
    <3>3. QED
      BY <3>1, <3>2, Zenon
  <2>3. QED
    BY <1>1, <2>1, <2>2 DEF TypeOK, drainVars
<1>3. ASSUME NEW j \in Children
      PROVE  /\ accepted'[j] > 0 => residency[j] = "live"
             /\ accepted'[j] > 0 \/ busy'[j] => MayWork(j)
             /\ \/ accepted'[j] = accepted[j] /\ busy'[j] = busy[j] /\ poked'[j] = poked[j]
                \/ poked'[j] \/ residency[j] # "live" \/ watcher[j] # "resting"
  <2>1. busy'[j] => busy[j]
    BY <1>1 DEF TypeOK
  <2>2. /\ accepted'[j] > 0 => residency[j] = "live"
        /\ accepted'[j] > 0 \/ busy'[j] => MayWork(j)
    BY <1>1, <2>1, WorkersMayWork
  <2>3. j # k => busy'[j] = busy[j]
    BY <1>1 DEF TypeOK
  <2>4. poked[k] \/ residency[k] # "live" \/ watcher[k] # "resting"
    BY <1>1 DEF Inv, LiveAreWatched
  <2>5. QED
    BY <1>1, <2>2, <2>3, <2>4
<1>4. QED
  BY <1>1, <1>2, <1>3, AgentKeeps

\* A reporter works, so its parent is live, and past its own first message.
LEMMA ReporterHasParent ==
    ASSUME Inv, NEW k \in Children, Reports(k)
    PROVE  /\ Parent[k] \in Children /\ MayWork(Parent[k]) /\ residency[Parent[k]] = "live"
<1>1. Parent[k] \in Children /\ residency[k] = "live" /\ busy[k]
  BY DEF Reports
<1>2. k \in owned[Parent[k]] /\ ~Published(k)
  BY <1>1, WorkersMayWork DEF MayWork
<1>3. residency[Parent[k]] = "live"
  BY <1>1, <1>2 DEF Inv, OwnersAreThere
<1>4. ~Published(Parent[k])
  BY <1>1, <1>2 DEF Inv, PublishedAreFresh
<1>5. QED
  BY <1>1, <1>3, <1>4 DEF Inv, LiveAreOwned, MayWork

\* A report reaches a parent that is live and owned in turn.
LEMMA ReportsKeeps == ASSUME Inv, NEW k \in Children, Reports(k)  PROVE Inv'
<1>0. PICK o \in Children : o = Parent[k] /\ MayWork(o) /\ residency[o] = "live"
  BY ReporterHasParent
<1>1. /\ TypeOK /\ Sent(o) /\ busy' = busy
      /\ UNCHANGED <<residency, agent, born, owned, watcher, lock, delivery, drainVars>>
  BY <1>0 DEF Inv, Reports
<1>2. TypeOK'
  BY <1>1, SentDoes DEF TypeOK, drainVars
<1>3. ASSUME NEW j \in Children
      PROVE  /\ accepted'[j] > 0 => residency[j] = "live"
             /\ accepted'[j] > 0 \/ busy'[j] => MayWork(j)
             /\ \/ accepted'[j] = accepted[j] /\ busy'[j] = busy[j] /\ poked'[j] = poked[j]
                \/ poked'[j] \/ residency[j] # "live" \/ watcher[j] # "resting"
  <2>1. CASE j = o
    BY <1>0, <1>1, <2>1, SentDoes
  <2>2. CASE j # o
    BY <1>1, <2>2, SentDoes, WorkersMayWork
  <2>3. QED
    BY <2>1, <2>2
<1>4. QED
  BY <1>1, <1>2, <1>3, AgentKeeps

-----------------------------------------------------------------------------
(* The watchers look.                                                      *)

\* A watcher queues behind whoever has the lock, or leaves it.
LEMMA WatcherKeepsLocks ==
    ASSUME Inv, delivery' = delivery, NEW k \in Children, NEW n \in Nat,
           \/ lock' = [lock EXCEPT ![k] = Append(@, Watcher(n))]
           \/ Holds(k, Watcher(n)) /\ Leave(k)
    PROVE  CallsOK' /\ LocksAreHeld'
<1>1. CallsOK /\ LocksAreHeld /\ Watcher(n) \in PlaceT
  BY PlacesDiffer DEF Inv
<1>2. ASSUME NEW e \in Deliveries, At(e) \in Critical
      PROVE  Child(e) \in Children /\ Holds(Child(e), Delivery(e)) /\ Delivery(e) # Watcher(n)
  BY <1>1, <1>2, CallFields, PlacesDiffer DEF LocksAreHeld, Phases
<1>3. CASE lock' = [lock EXCEPT ![k] = Append(@, Watcher(n))]
  <2>1. /\ lock' \in [Children -> Seq(PlaceT)]
        /\ \A j \in Children : lock[j] # <<>> => lock'[j] # <<>> /\ Head(lock'[j]) = Head(lock[j])
    BY <1>1, <1>3, AppendDoes
  <2>2. QED
    BY <1>1, <1>2, <2>1 DEF CallsOK, LocksAreHeld, Holds, At, Child, Delivery
<1>4. CASE Holds(k, Watcher(n)) /\ Leave(k)
  <2>1. /\ lock' \in [Children -> Seq(PlaceT)]
        /\ \A j \in Children \ {k} : lock'[j] = lock[j]
        /\ \A e \in Deliveries : At(e) \in Critical /\ Delivery(e) # Watcher(n) => Child(e) # k
    BY <1>1, <1>4, LeaveDoes
  <2>2. QED
    BY <1>1, <1>2, <2>1 DEF CallsOK, LocksAreHeld, Holds, At, Child, Delivery
<1>5. QED
  BY <1>3, <1>4

\* A watcher that opens no disposal changes nothing but itself.
LEMMA WatcherKeeps ==
    ASSUME Inv, NEW k \in Children, CallsOK', LocksAreHeld',
           NEW place \in {"none", "watching", "queued", "resting"}, NEW p \in BOOLEAN,
           watcher' = [watcher EXCEPT ![k] = place], poked' = [poked EXCEPT ![k] = p],
           residency[k] = "live" =>
               place # "none" /\ (place = "resting" /\ ~p => ~busy[k] /\ ~Settled(k)),
           UNCHANGED <<residency, agent, born, agentVars, owned, delivery, drainVars>>
    PROVE  Inv'
<1>0. /\ residency' = residency /\ agent' = agent /\ born' = born /\ owned' = owned
      /\ busy' = busy /\ accepted' = accepted /\ parked' = parked /\ delivery' = delivery
      /\ drain' = drain /\ drainAt' = drainAt /\ drainWaits' = drainWaits
  BY DEF drainVars, agentVars
<1>1. \A j : (Published(j)' <=> Published(j)) /\ (RollingBack(j)' <=> RollingBack(j))
  BY <1>0 DEF Published, RollingBack, At, Child
<1>2. TypeOK'
  BY <1>0 DEF Inv, TypeOK
<1>3. /\ AgentsAreResident' /\ OwnersAreThere' /\ WorkIsResident' /\ LiveAreOwned'
      /\ ParentsAreKnown' /\ PublishedAreFresh'
  BY <1>0, <1>1 DEF Inv, AgentsAreResident, OwnersAreThere, WorkIsResident, LiveAreOwned,
                    ParentsAreKnown, PublishedAreFresh, At, Child
<1>4. LiveAreWatched'
  <2> SUFFICES ASSUME NEW j \in Children, residency[j] = "live"
               PROVE  /\ watcher'[j] # "none"
                      /\ watcher'[j] = "resting" /\ ~poked'[j] => ~busy[j] /\ ~Settled(j)
    BY <1>0 DEF LiveAreWatched, Settled
  <2>1. CASE j = k
    BY <2>1 DEF Inv, TypeOK
  <2>2. CASE j # k
    BY <2>2 DEF Inv, TypeOK, LiveAreWatched
  <2>3. QED
    BY <2>1, <2>2
<1>5. DrainReaches'
  BY <1>0, <1>1 DEF Inv, DrainReaches, Resident, At
<1>6. QED
  BY <1>2, <1>3, <1>4, <1>5 DEF Inv

\* The watcher asks for the lock.
LEMMA WatcherWakesKeeps == ASSUME Inv, NEW k \in Children, WatcherWakes(k)  PROVE Inv'
<1>1. CallsOK' /\ LocksAreHeld'
  <2>1. born[k] \in Nat
    BY DEF Inv, TypeOK
  <2>2. QED
    BY <2>1, WatcherKeepsLocks DEF WatcherWakes
<1>2. poked' = [poked EXCEPT ![k] = poked[k]] /\ poked[k] \in BOOLEAN
  BY DEF Inv, TypeOK, WatcherWakes
<1>3. QED
  BY <1>1, <1>2, WatcherKeeps DEF WatcherWakes

\* The watcher of an earlier incarnation leaves the lock.
LEMMA OldWatcherLooksKeeps == ASSUME Inv, NEW k \in Children, OldWatcherLooks(k)  PROVE Inv'
<1>1. CallsOK' /\ LocksAreHeld'
  <2>1. PICK n \in 1..(born[k] - 1) : Holds(k, Watcher(n))
    BY DEF OldWatcherLooks
  <2>2. n \in Nat
    BY <2>1
  <2>3. QED
    BY <2>1, <2>2, WatcherKeepsLocks DEF OldWatcherLooks
<1>2. /\ poked' = [poked EXCEPT ![k] = poked[k]] /\ poked[k] \in BOOLEAN
      /\ watcher' = [watcher EXCEPT ![k] = watcher[k]]
      /\ watcher[k] \in {"none", "watching", "queued", "resting"}
  BY DEF Inv, TypeOK, OldWatcherLooks
<1>3. QED
  BY <1>1, <1>2, WatcherKeeps DEF OldWatcherLooks, Inv, LiveAreWatched

\* A resting watcher is woken.
LEMMA WatcherIsPokedKeeps == ASSUME Inv, NEW k \in Children, WatcherIsPoked(k)  PROVE Inv'
<1>1. CallsOK' /\ LocksAreHeld'
  BY DEF Inv, CallsOK, LocksAreHeld, WatcherIsPoked, Holds, At, Child, Delivery
<1>2. QED
  BY <1>1, WatcherKeeps DEF WatcherIsPoked

\* The watcher disposes of a settled Activation, or goes on watching.
LEMMA WatcherLooksKeeps == ASSUME Inv, NEW k \in Children, WatcherLooks(k)  PROVE Inv'
<1>1. CallsOK' /\ LocksAreHeld'
  <2>1. born[k] \in Nat
    BY DEF Inv, TypeOK
  <2>2. QED
    BY <2>1, WatcherKeepsLocks DEF WatcherLooks
<1>2. poked' = [poked EXCEPT ![k] = FALSE]
  BY DEF WatcherLooks
<1>3. CASE residency[k] = "live" /\ Settled(k)
  <2>1. /\ TypeOK /\ residency' = [residency EXCEPT ![k] = "stopping"]
        /\ watcher' = [watcher EXCEPT ![k] = "none"]
        /\ agent' = agent /\ born' = born /\ owned' = owned /\ delivery' = delivery
        /\ busy' = busy /\ accepted' = accepted /\ parked' = parked
        /\ drain' = drain /\ drainAt' = drainAt /\ drainWaits' = drainWaits
    BY <1>3 DEF Inv, WatcherLooks, agentVars, drainVars
  <2>2. TypeOK'
    BY <1>2, <2>1 DEF TypeOK
  <2>3. Closed({k}) /\ Opening({k})
    BY <1>2, <1>3, <2>1 DEF TypeOK, Closed, Opening, Settled
  <2>4. \A e \in Deliveries : Same(e)
    BY <2>1 DEF Same, At, Child
  <2>5. /\ AgentsAreResident' /\ OwnersAreThere' /\ WorkIsResident' /\ LiveAreOwned'
        /\ ParentsAreKnown' /\ PublishedAreFresh' /\ LiveAreWatched' /\ Resident' = Resident
    BY <2>1, <2>3, <2>4, OpeningKeeps
  <2>6. DrainReaches'
    BY <2>1, <2>5 DEF Inv, DrainReaches, RollingBack, At, Child
  <2>7. QED
    BY <1>1, <2>2, <2>5, <2>6 DEF Inv
<1>4. CASE residency[k] = "live" /\ ~Settled(k)
  <2>1. PICK place \in {"watching", "resting"} :
           watcher' = [watcher EXCEPT ![k] = place] /\ (place = "resting" => ~busy[k])
    BY <1>4 DEF WatcherLooks
  <2>2. QED
    BY <1>1, <1>2, <1>4, <2>1, WatcherKeeps DEF WatcherLooks
<1>5. CASE residency[k] # "live"
  BY <1>1, <1>2, <1>5, WatcherKeeps DEF WatcherLooks
<1>6. QED
  BY <1>3, <1>4, <1>5

-----------------------------------------------------------------------------
(* Disposals end.                                                          *)

\* The handle is released when nothing is owned, and then the Agent unregistered.
LEMMA ReleasesKeeps ==
    ASSUME Inv, NEW k \in Children, Releases(k) \/ Unregisters(k)
    PROVE  Inv'
<1>1. /\ TypeOK /\ born' = born /\ owned' = owned /\ delivery' = delivery /\ lock' = lock
      /\ busy' = busy /\ accepted' = accepted /\ parked' = parked
      /\ watcher' = watcher /\ poked' = poked
      /\ drain' = drain /\ drainAt' = drainAt /\ drainWaits' = drainWaits
      /\ residency' = [residency EXCEPT ![k] = "releasing"]
      /\ \/ agent' = agent /\ residency[k] = "stopping" /\ owned[k] = {} /\ ~busy[k]
         \/ agent' = [agent EXCEPT ![k] = 0] /\ residency[k] = "releasing"
  BY DEF Inv, TypeOK, Releases, Unregisters, agentVars, drainVars
<1>2. TypeOK'
  BY <1>1 DEF TypeOK
<1>3. CallsOK' /\ LocksAreHeld' /\ ParentsAreKnown'
  BY <1>1 DEF Inv, CallsOK, LocksAreHeld, ParentsAreKnown, Holds, At, Child, Delivery
<1>4. \A j : (Published(j)' <=> Published(j)) /\ (RollingBack(j)' <=> RollingBack(j))
  BY <1>1 DEF Published, RollingBack, At, Child
<1>5. /\ owned[k] = {} /\ accepted[k] = 0 /\ ~busy[k]
      /\ \A j \in Children : (residency'[j] = "live" <=> residency[j] = "live")
                             /\ (residency'[j] = "absent" <=> residency[j] = "absent")
  BY <1>1 DEF Inv, TypeOK, OwnersAreThere, WorkIsResident
<1>6. AgentsAreResident'
  <2>1. ASSUME NEW e \in Deliveries, At(e)' \in {"inspecting", "creating"}
        PROVE  residency'[Child(e)'] = "absent"
    <3>1. At(e) \in {"inspecting", "creating"} /\ Child(e)' = Child(e) /\ Child(e) \in Children
      BY <1>1, <2>1, CallFields DEF Inv, At, Child, Phases, Critical
    <3>2. QED
      BY <1>5, <3>1 DEF Inv, AgentsAreResident
  <2>2. QED
    BY <1>1, <1>5, <2>1 DEF Inv, TypeOK, AgentsAreResident
<1>7. OwnersAreThere'
  <2> SUFFICES ASSUME NEW o \in Children, NEW c \in owned[o]
               PROVE  /\ Parent[c] = o /\ residency'[c] # "absent"
                      /\ residency'[o] = "live" \/ (residency'[o] = "stopping" /\ residency'[c] # "live")
    BY <1>1 DEF OwnersAreThere
  <2>1. c \in Children /\ o # k /\ residency'[o] = residency[o]
    BY <1>1, <1>5 DEF TypeOK
  <2>2. QED
    BY <1>5, <2>1 DEF Inv, OwnersAreThere
<1>8. WorkIsResident' /\ LiveAreOwned'
  BY <1>1, <1>4, <1>5 DEF Inv, TypeOK, WorkIsResident, LiveAreOwned
<1>9. PublishedAreFresh'
  BY <1>1, <1>4, <1>5 DEF Inv, PublishedAreFresh, At, Child
<1>10. LiveAreWatched'
  BY <1>1, <1>5 DEF Inv, LiveAreWatched, Settled
<1>11. DrainReaches'
  BY <1>1, <1>4, <1>5 DEF Inv, DrainReaches, Resident, At
<1>12. QED
  BY <1>2, <1>3, <1>6, <1>7, <1>8, <1>9, <1>10, <1>11 DEF Inv

\* The Activation leaves the map and its owner is woken.
LEMMA ForgottenKeeps == ASSUME Inv, NEW k \in Children, Forgotten(k)  PROVE Inv'
<1>1. /\ TypeOK /\ residency[k] = "releasing" /\ agent[k] = 0
      /\ agent' = agent /\ born' = born /\ delivery' = delivery /\ lock' = lock
      /\ busy' = busy /\ accepted' = accepted /\ parked' = parked /\ watcher' = watcher
      /\ drain' = drain /\ drainAt' = drainAt /\ drainWaits' = drainWaits
      /\ residency' = [residency EXCEPT ![k] = "absent"]
      /\ owned' = [o \in Children |-> owned[o] \ {k}]
      /\ poked' = [o \in Children |-> poked[o] \/ k \in owned[o]]
  BY DEF Inv, Forgotten, agentVars, drainVars
<1>2. \A o \in Children : poked'[o] <=> (poked[o] \/ k \in owned[o])
  BY <1>1, Zenon
<1>3. TypeOK'
  <2>1. poked' \in [Children -> BOOLEAN]
    BY <1>1, Zenon
  <2>2. residency' \in [Children -> {"absent", "live", "stopping", "releasing"}]
        /\ owned' \in [Children -> SUBSET Children]
    BY <1>1 DEF TypeOK
  <2>3. QED
    BY <1>1, <2>1, <2>2 DEF TypeOK
<1>4. CallsOK' /\ LocksAreHeld' /\ ParentsAreKnown'
  BY <1>1 DEF Inv, CallsOK, LocksAreHeld, ParentsAreKnown, Holds, At, Child, Delivery
<1>5. \A j : (Published(j)' <=> Published(j)) /\ (RollingBack(j)' <=> RollingBack(j))
  BY <1>1 DEF Published, RollingBack, At, Child
<1>6. /\ owned[k] = {} /\ accepted[k] = 0 /\ ~busy[k]
      /\ \A j \in Children \ {k} : residency'[j] = residency[j]
      /\ residency'[k] = "absent" /\ \A o \in Children : owned'[o] = owned[o] \ {k}
  BY <1>1 DEF Inv, TypeOK, OwnersAreThere, WorkIsResident
<1>7. AgentsAreResident'
  <2>1. ASSUME NEW e \in Deliveries, At(e)' \in {"inspecting", "creating"}
        PROVE  residency'[Child(e)'] = "absent"
    <3>1. At(e) \in {"inspecting", "creating"} /\ Child(e)' = Child(e) /\ Child(e) \in Children
      BY <1>1, <2>1, CallFields DEF Inv, At, Child, Phases, Critical
    <3>2. QED
      BY <1>6, <3>1 DEF Inv, AgentsAreResident
  <2>2. QED
    BY <1>1, <1>6, <2>1 DEF Inv, AgentsAreResident
<1>8. OwnersAreThere'
  <2> SUFFICES ASSUME NEW o \in Children, NEW c \in owned'[o]
               PROVE  /\ Parent[c] = o /\ residency'[c] # "absent"
                      /\ residency'[o] = "live" \/ (residency'[o] = "stopping" /\ residency'[c] # "live")
    BY DEF OwnersAreThere
  <2>1. c \in owned[o] /\ c \in Children \ {k} /\ o # k
    BY <1>1, <1>6 DEF TypeOK
  <2>2. QED
    BY <1>6, <2>1 DEF Inv, OwnersAreThere
<1>9. WorkIsResident'
  BY <1>1, <1>6 DEF Inv, TypeOK, WorkIsResident
<1>10. LiveAreOwned'
  <2> SUFFICES ASSUME NEW j \in Children, Parent[j] \in Children
               PROVE  /\ residency'[j] = "live" /\ ~Published(j) => j \in owned'[Parent[j]]
                      /\ accepted[j] > 0 \/ busy[j] => j \in owned'[Parent[j]]
    BY <1>1, <1>5 DEF LiveAreOwned
  <2>1. CASE j = k
    BY <1>6, <2>1
  <2>2. CASE j # k
    BY <1>6, <2>2 DEF Inv, LiveAreOwned
  <2>3. QED
    BY <2>1, <2>2
<1>11. PublishedAreFresh'
  <2>1. \A c \in Children : residency'[c] = "live" => residency[c] = "live"
    BY <1>6
  <2>2. QED
    BY <1>1, <1>5, <2>1 DEF Inv, PublishedAreFresh, At, Child
<1>12. LiveAreWatched'
  <2> SUFFICES ASSUME NEW j \in Children, residency'[j] = "live"
               PROVE  /\ watcher[j] # "none"
                      /\ watcher[j] = "resting" /\ ~poked'[j] => ~busy[j] /\ ~Settled(j)'
    BY <1>1 DEF LiveAreWatched
  <2>1. residency[j] = "live"
    BY <1>6
  <2>2. ~poked'[j] => ~poked[j] /\ owned'[j] = owned[j]
    <3>1. ~poked'[j] => ~poked[j] /\ k \notin owned[j]
      BY <1>2, Zenon
    <3>2. k \notin owned[j] => owned'[j] = owned[j]
      <4>1. owned'[j] = owned[j] \ {k}
        BY <1>6, Zenon
      <4>2. k \notin owned[j] => owned[j] \ {k} = owned[j]
        OBVIOUS
      <4>3. QED
        BY <4>1, <4>2, Zenon
    <3>3. QED
      BY <3>1, <3>2, Zenon
  <2>3. QED
    BY <1>1, <2>1, <2>2 DEF Inv, LiveAreWatched, Settled
<1>13. DrainReaches'
  <2>1. \A j \in Resident' : j \in Resident /\ j # k
    BY <1>6 DEF Resident
  <2>2. \A j \in Resident', o \in Children : j \in owned[o] => j \in owned'[o]
    BY <1>6, <2>1
  <2>3. QED
    BY <1>1, <1>5, <2>1, <2>2 DEF Inv, DrainReaches, At
<1>14. QED
  BY <1>3, <1>4, <1>7, <1>8, <1>9, <1>10, <1>11, <1>12, <1>13 DEF Inv

-----------------------------------------------------------------------------
(* The drains.                                                             *)

\* Nobody is left out of a drain's snapshot: who is no root is owned.
LEMMA RootsDoes ==
    \A k \in Resident : k \in Roots(Resident) \/ \E o \in Children : k \in owned[o]
BY DEF Roots, Resident

\* A drain opens some disposals, and remembers what it waits for.
LEMMA DrainStepKeeps ==
    ASSUME Inv, agent' = agent, born' = born, busy' = busy, owned' = owned,
           lock' = lock, delivery' = delivery, drain' \in Drains \cup {"no"},
           drainAt' \in {"none", "barrier", "disposing", "done"},
           \/ \E set \in SUBSET Live(Children) : Closed(set) /\ Opened(set)
           \/ UNCHANGED <<residency, accepted, parked, watcher, poked>>
    PROVE  /\ DrainReaches' => Inv'
           /\ Resident' = Resident /\ \A j : RollingBack(j)' <=> RollingBack(j)
<1>1. \A e \in Deliveries : Same(e)
  BY DEF Same, At, Child
<1>2. TypeOK
  BY DEF Inv
<1>3. PICK set \in SUBSET Children : Closed(set) /\ Opening(set) /\ TypeOK'
  <2>1. CASE \E set \in SUBSET Live(Children) : Closed(set) /\ Opened(set)
    <3>1. PICK set \in SUBSET Live(Children) : Closed(set) /\ Opened(set)
      BY <2>1
    <3>2. Opening(set) /\ TypeOK'
      BY <1>2, <3>1, OpenedDoes DEF TypeOK
    <3>3. set \in SUBSET Children
      BY DEF Live
    <3>4. QED
      BY <3>1, <3>2, <3>3
  <2>2. CASE UNCHANGED <<residency, accepted, parked, watcher, poked>>
    <3>1. Closed({}) /\ Opening({}) /\ TypeOK'
      BY <1>2, <2>2 DEF Closed, Opening, TypeOK
    <3>2. QED
      BY <3>1
  <2>3. QED
    BY <2>1, <2>2
<1>4. /\ AgentsAreResident' /\ OwnersAreThere' /\ WorkIsResident' /\ LiveAreOwned'
      /\ ParentsAreKnown' /\ PublishedAreFresh' /\ LiveAreWatched' /\ Resident' = Resident
  BY <1>1, <1>3, OpeningKeeps
<1>5. CallsOK' /\ LocksAreHeld'
  BY DEF Inv, CallsOK, LocksAreHeld, Holds, At, Child, Delivery
<1>6. QED
  BY <1>3, <1>4, <1>5 DEF Inv, RollingBack, At, Child

\* A drain begins: the scoped one opens every disposal.
LEMMA DrainBeginsKeeps == ASSUME Inv, NEW kind \in Drains, DrainBegins(kind)  PROVE Inv'
<1>1. kind \in {"all", "scoped"} /\ drain' = kind /\ drainAt' = "barrier" /\ delivery' = delivery
      /\ owned' = owned
  BY DrainAssumption DEF DrainBegins
<1>2. \/ \E set \in SUBSET Live(Children) : Closed(set) /\ Opened(set)
      \/ UNCHANGED <<residency, accepted, parked, watcher, poked>>
  <2>1. Closed(Live(Children)) /\ Live(Children) \in SUBSET Live(Children)
    BY DEF Closed, Live, Inv, TypeOK
  <2>2. QED
    BY <2>1 DEF DrainBegins
<1>3. (DrainReaches' => Inv') /\ Resident' = Resident
  BY <1>1, <1>2, DrainStepKeeps DEF DrainBegins
<1>4. drain' = "scoped" => drainWaits' = Roots(Resident)
  BY DEF DrainBegins
<1>5. DrainReaches'
  BY <1>1, <1>3, <1>4, RootsDoes DEF DrainReaches
<1>6. QED
  BY <1>3, <1>5

\* The creations are over: the other drain takes its roots.
LEMMA DrainDisposesKeeps == ASSUME Inv, DrainDisposes  PROVE Inv'
<1>1. /\ drainAt = "barrier" /\ drainAt' = "disposing" /\ drain' = drain /\ delivery' = delivery
      /\ owned' = owned /\ \A d \in Deliveries : At(d) \notin {"creating", "rollingBack"}
  BY DEF DrainDisposes, At
<1>2. drain \in {"all", "scoped"}
  BY <1>1, DrainAssumption DEF Inv, DrainReaches, TypeOK
<1>3. \/ \E set \in SUBSET Live(Children) : Closed(set) /\ Opened(set)
      \/ UNCHANGED <<residency, accepted, parked, watcher, poked>>
  <2>1. Live(Roots(Resident)) \in SUBSET Live(Children)
    BY DEF Live, Roots, Resident
  <2>2. /\ Reach(Live(Roots(Resident))) \in SUBSET Live(Children)
        /\ Closed(Reach(Live(Roots(Resident))))
    BY <2>1, ReachIsLive DEF Inv
  <2>3. QED
    BY <2>2 DEF DrainDisposes
<1>4. (DrainReaches' => Inv') /\ Resident' = Resident
  BY <1>1, <1>3, DrainStepKeeps DEF DrainDisposes, Inv, TypeOK
<1>5. \A j : ~RollingBack(j) /\ ~RollingBack(j)'
  BY <1>1 DEF RollingBack, At
<1>6. ASSUME NEW j \in Resident
      PROVE  j \in drainWaits' \/ \E o \in Children : j \in owned[o]
  <2>1. CASE drain = "all"
    BY <2>1, RootsDoes DEF DrainDisposes
  <2>2. CASE drain = "scoped"
    BY <1>2, <1>5, <2>2 DEF DrainDisposes, Inv, DrainReaches
  <2>3. QED
    BY <1>2, <2>1, <2>2
<1>7. DrainReaches'
  BY <1>1, <1>2, <1>4, <1>6 DEF DrainReaches, At
<1>8. QED
  BY <1>4, <1>7

\* When none of those the drain waits for is left, nobody is: the others would
\* be below one of them.
LEMMA NobodyIsResident ==
    ASSUME Inv, drainAt = "disposing", drainWaits \cap Resident = {}
    PROVE  Resident = {}
<1>1. SUFFICES ASSUME Resident # {}  PROVE FALSE
  OBVIOUS
<1>2. PICK k \in Resident : Parent[k] \notin Resident
  BY <1>1, ParentAssumption DEF Resident
<1>3. ~RollingBack(k)
  BY DEF Inv, DrainReaches, RollingBack
<1>4. PICK o \in Children : k \in owned[o]
  BY <1>3 DEF Inv, DrainReaches
<1>5. Parent[k] = o /\ residency[o] # "absent"
  BY <1>4 DEF Inv, OwnersAreThere
<1>6. QED
  BY <1>2, <1>5 DEF Resident

\* A drain ends with nobody left.
LEMMA DrainEndsKeeps == ASSUME Inv, DrainEnds  PROVE Inv'
<1>1. /\ drainAt = "disposing" /\ drainAt' = "done" /\ drain' = drain /\ drainWaits' = drainWaits
      /\ delivery' = delivery /\ owned' = owned /\ residency' = residency
      /\ Resident = {}
  BY NobodyIsResident DEF DrainEnds
<1>2. (DrainReaches' => Inv') /\ Resident' = Resident
  BY <1>1, DrainStepKeeps DEF DrainEnds, Inv, TypeOK, agentVars
<1>3. DrainReaches'
  BY <1>1, <1>2 DEF Inv, DrainReaches, At
<1>4. QED
  BY <1>2, <1>3

-----------------------------------------------------------------------------
(* The theorems.                                                           *)

\* At first nothing is resident.
LEMMA InitInv == Init => Inv
<1> SUFFICES ASSUME Init  PROVE Inv
  OBVIOUS
<1>1. /\ residency = [k \in Children |-> "absent"] /\ agent = [k \in Children |-> 0]
      /\ born = [k \in Children |-> 0] /\ busy = [k \in Children |-> FALSE]
      /\ accepted = [k \in Children |-> 0] /\ parked = [k \in Children |-> FALSE]
      /\ owned = [k \in Children |-> {}] /\ watcher = [k \in Children |-> "none"]
      /\ poked = [k \in Children |-> FALSE] /\ lock = [k \in Children |-> <<>>]
      /\ delivery = [d \in Deliveries |-> Idle] /\ drain = "no" /\ drainAt = "none"
  BY DEF Init
<1>2. \A d \in Deliveries : At(d) = "idle"
  BY <1>1 DEF At, Idle
<1>3. TypeOK
  BY <1>1 DEF TypeOK
<1>4. CallsOK
  <2>1. <<>> \in Seq(PlaceT)
    OBVIOUS
  <2>2. QED
    BY <1>1, <2>1 DEF CallsOK
<1>5. LocksAreHeld /\ ParentsAreKnown /\ \A k : ~Published(k)
  BY <1>2 DEF LocksAreHeld, ParentsAreKnown, Published, Critical, Phases
<1>6. AgentsAreResident /\ OwnersAreThere /\ WorkIsResident
  BY <1>1, <1>2 DEF AgentsAreResident, OwnersAreThere, WorkIsResident
<1>7. LiveAreOwned /\ PublishedAreFresh /\ LiveAreWatched
  BY <1>1, <1>5 DEF LiveAreOwned, PublishedAreFresh, LiveAreWatched
<1>8. DrainReaches
  BY <1>1, <1>2 DEF DrainReaches
<1>9. QED
  BY <1>3, <1>4, <1>5, <1>6, <1>7, <1>8 DEF Inv

\* Every step preserves the inductive invariant.
LEMMA NextKeeps == Inv /\ [Next]_vars => Inv'
<1> SUFFICES ASSUME Inv, [Next]_vars  PROVE Inv'
  OBVIOUS
<1>1. ASSUME NEW d \in Deliveries, DeliverySteps(d)  PROVE Inv'
  BY <1>1, PreparedKeeps, EntersLockKeeps, WaitsNoMoreKeeps, InspectedKeeps, CreatedKeeps,
     CreationFailsKeeps, SubmitsKeeps DEF DeliverySteps
<1>2. ASSUME NEW k \in Children, ChildSteps(k)  PROVE Inv'
  BY <1>2, TurnBeginsKeeps, TurnEndsKeeps, WatcherWakesKeeps, WatcherLooksKeeps,
     OldWatcherLooksKeeps, WatcherIsPokedKeeps, ReleasesKeeps, ForgottenKeeps DEF ChildSteps
<1>3. CASE Internal
  BY <1>1, <1>2, <1>3, DrainDisposesKeeps, DrainEndsKeeps DEF Internal
<1>4. ASSUME NEW d \in Deliveries, CallerAborts(d) \/ \E k \in Children : Asks(d, k)  PROVE Inv'
  BY <1>4, CallerAbortsKeeps, AsksKeeps
<1>5. ASSUME NEW k \in Children, Reports(k) \/ Interrupts(k)  PROVE Inv'
  BY <1>5, ReportsKeeps, TurnEndsKeeps
<1>6. ASSUME NEW kind \in Drains, DrainBegins(kind)  PROVE Inv'
  BY <1>6, DrainBeginsKeeps
<1>7. CASE UNCHANGED vars
  <2>1. CallsOK' /\ LocksAreHeld'
    BY <1>7 DEF vars, Inv, CallsOK, LocksAreHeld, Holds, At, Child, Delivery
  <2>2. \A e \in Deliveries : Mild(e)
    BY <1>7 DEF vars, Mild, Same, At, Child
  <2>3. QED
    BY <1>7, <2>1, <2>2, MildKeeps DEF vars
<1>8. QED
  BY <1>3, <1>4, <1>5, <1>6, <1>7 DEF Next

\* The inductive invariant holds in every reachable state.
THEOREM InvHolds == Spec => []Inv
<1>1. QED
  BY InitInv, NextKeeps, PTL DEF Spec

\* There is one Agent of a child at most, whoever works is owned by an
\* Activation that is still there, and no settled Activation is overlooked.
THEOREM ActivationsStayNested == Spec => []ActivationsNest
<1>1. Inv => ActivationsNest
  <2> SUFFICES ASSUME Inv  PROVE ActivationsNest
    OBVIOUS
  <2>1. TypeOK
    BY DEF Inv
  <2>2. OneIncarnation
    <3>1. ASSUME NEW d \in Deliveries, delivery[d].phase \in {"inspecting", "creating"}
          PROVE  residency[delivery[d].child] = "absent" /\ agent[delivery[d].child] = 0
      BY <3>1, CallFields DEF Inv, AgentsAreResident, At, Child, Phases, Critical
    <3>2. QED
      BY <3>1 DEF Inv, OneIncarnation, AgentsAreResident
  <2>3. WorkIsOwned
    <3> SUFFICES ASSUME NEW k \in Children, accepted[k] > 0 \/ busy[k], Parent[k] \in Children
                 PROVE  /\ k \in owned[Parent[k]] /\ agent[Parent[k]] # 0
                        /\ residency[Parent[k]] \in {"live", "stopping"}
      BY DEF WorkIsOwned
    <3>1. k \in owned[Parent[k]]
      BY DEF Inv, LiveAreOwned
    <3>2. residency[Parent[k]] \in {"live", "stopping"}
      BY <3>1 DEF Inv, OwnersAreThere
    <3>3. QED
      BY <3>1, <3>2 DEF Inv, AgentsAreResident
  <2>4. SettledIsNoticed
    BY DEF Inv, TypeOK, SettledIsNoticed, LiveAreWatched
  <2>5. QED
    BY <2>1, <2>2, <2>3, <2>4 DEF ActivationsNest
<1>2. QED
  BY <1>1, InvHolds, PTL

\* A drain that has returned has left no Activation, and there will be none.
THEOREM DrainStaysComplete == Spec => []DrainIsComplete
<1>1. Inv => DrainIsComplete
  BY DEF Inv, DrainIsComplete, DrainReaches, AgentsAreResident, Resident, At
<1>2. QED
  BY <1>1, InvHolds, PTL

-----------------------------------------------------------------------------
(* Settlement.                                                             *)

\* Undoing a publication reaches only children in the same state.
LEMMA UndoingReachesFresh ==
    ASSUME Inv, NEW k \in Children, Published(k), NEW j \in Reach({k})
    PROVE  Published(j) /\ accepted[j] = 0 /\ ~busy[j]
<1> DEFINE set == {c \in Children : Published(c)}
<1>1. Closed(set)
  BY DEF Closed, Inv, TypeOK, OwnersAreThere, PublishedAreFresh
<1>2. Reach({k}) \subseteq set
  <2>1. owned \in [Children -> SUBSET Children] /\ {k} \in SUBSET Children
        /\ set \in SUBSET Children /\ {k} \subseteq set
    BY DEF Inv, TypeOK
  <2> HIDE DEF set
  <2>2. QED
    BY <1>1, <2>1, ReachDoes
<1>3. QED
  BY <1>2 DEF Inv, PublishedAreFresh

\* What a step may do to the residency and the messages of a child.
Keeps(k) ==
    /\ residency[k] = "live" /\ residency'[k] = "stopping" /\ drain' = "no" => ~busy[k] /\ accepted[k] = 0
    /\ accepted'[k] > accepted[k] => residency[k] = "live" /\ residency'[k] = "live"

\* A step that opens no disposal and accepts nothing.
LEMMA QuietKeeps ==
    ASSUME Inv, NEW k \in Children, residency'[k] # "stopping" \/ residency'[k] = residency[k],
           accepted'[k] = accepted[k]
    PROVE  Keeps(k)
BY DEF Inv, TypeOK, Keeps

\* A message to a live Activation is no loss.
LEMMA SendingKeeps ==
    ASSUME Inv, NEW k \in Children, NEW j \in Children, residency[j] = "live",
           residency' = residency, Sent(j)
    PROVE  Keeps(k)
BY SentDoes, QuietKeeps DEF Inv, Keeps

\* No step of a delivery drops an accepted message.
LEMMA DeliveriesDropNothing ==
    ASSUME Inv, NEW k \in Children, NEW d \in Deliveries, DeliverySteps(d)
    PROVE  Keeps(k)
<1>1. CASE UNCHANGED <<residency, accepted>>
  BY <1>1, QuietKeeps
<1>2. CASE Accept(d) /\ Acceptable(d) /\ At(d) \in Phases
  <2>1. Child(d) \in Children /\ residency[Child(d)] = "live"
    BY <1>2, CallFields DEF Inv, Acceptable, Caller, Child
  <2>2. QED
    BY <1>2, <2>1, SendingKeeps DEF Accept, Caller, Child
<1>3. CASE Created(d)
  <2>1. PICK c \in Children : c = Child(d)
    BY <1>3, CreatingMeans DEF Created, Caller, At
  <2>2. accepted' = accepted /\ residency'[c] # "stopping"
        /\ \A j \in Children \ {c} : residency'[j] = residency[j]
    BY <1>3, <2>1, CreatedDoes DEF agentVars
  <2>3. QED
    BY <2>2, QuietKeeps
<1>4. CASE Submits(d) /\ Opened(Reach({Child(d)})) /\ residency[Child(d)] = "live"
  <2>1. PICK c \in Children : c = Child(d) /\ Published(c)
    BY <1>4, CallFields DEF Inv, Submits, Caller, At, Child, Published, Phases, Critical
  <2>2. Reach({c}) \in SUBSET Live(Children)
    BY <1>4, <2>1, ReachIsLive DEF Inv, Live
  <2>3. Opening(Reach({c}))
    BY <1>4, <2>1, <2>2, OpenedDoes DEF Inv
  <2>4. CASE k \in Reach({c})
    BY <2>1, <2>3, <2>4, UndoingReachesFresh DEF Opening, Keeps
  <2>5. CASE k \notin Reach({c})
    BY <2>3, <2>5, QuietKeeps DEF Opening
  <2>6. QED
    BY <2>4, <2>5
<1>5. CASE Prepared(d) \/ WaitsNoMore(d) \/ Inspected(d) \/ CreationFails(d) \/ Unpublished(d)
  BY <1>1, <1>5 DEF Prepared, WaitsNoMore, Inspected, CreationFails, Unpublished, Refuse, agentVars
<1>6. CASE EntersLock(d)
  <2>1. At(d) \in Phases
    BY <1>6 DEF EntersLock, Caller, At, Phases
  <2>2. QED
    BY <1>1, <1>2, <1>6, <2>1 DEF EntersLock, Refuse, agentVars
<1>7. CASE Submits(d)
  <2>1. At(d) \in Phases
    BY <1>7 DEF Submits, Caller, At, Phases, Critical
  <2>2. QED
    BY <1>1, <1>2, <1>4, <1>7, <2>1 DEF Submits, Caller, Child
<1>8. QED
  BY <1>3, <1>5, <1>6, <1>7 DEF DeliverySteps

\* No step of an Agent, a watcher or a disposal does.
LEMMA ChildrenDropNothing ==
    ASSUME Inv, NEW k \in Children, NEW j \in Children, ChildSteps(j) \/ Reports(j) \/ Interrupts(j)
    PROVE  Keeps(k)
<1>1. TypeOK
  BY DEF Inv
<1>2. CASE TurnBegins(j)
  <2>1. PICK n \in Nat : n = accepted[j]
    BY <1>1 DEF TypeOK
  <2>2. accepted' = [accepted EXCEPT ![j] = n - 1] /\ residency' = residency
    BY <1>2, <2>1 DEF TurnBegins
  <2>3. CASE k = j
    BY <1>1, <2>1, <2>2, <2>3 DEF TypeOK, Keeps
  <2>4. CASE k # j
    BY <1>1, <2>2, <2>4, QuietKeeps DEF TypeOK
  <2>5. QED
    BY <2>3, <2>4
<1>3. CASE Reports(j)
  BY <1>3, ReporterHasParent, SendingKeeps DEF Reports
<1>4. CASE WatcherLooks(j)
  <2>1. accepted' = accepted
    BY <1>4 DEF WatcherLooks, agentVars
  <2>2. CASE residency' = residency
    BY <2>1, <2>2, QuietKeeps
  <2>3. CASE Settled(j) /\ residency' = [residency EXCEPT ![j] = "stopping"]
    <3>1. k # j => residency'[k] = residency[k]
      BY <1>1, <2>3 DEF TypeOK
    <3>2. k = j => Keeps(k)
      BY <1>1, <2>1, <2>3 DEF TypeOK, Settled, Keeps
    <3>3. QED
      BY <2>1, <3>1, <3>2, QuietKeeps
  <2>4. QED
    BY <1>4, <2>2, <2>3 DEF WatcherLooks
<1>5. CASE Releases(j) \/ Unregisters(j) \/ Forgotten(j)
  <2>1. /\ accepted' = accepted
        /\ \/ residency' = residency
           \/ residency' = [residency EXCEPT ![j] = "releasing"]
           \/ residency' = [residency EXCEPT ![j] = "absent"]
    BY <1>5 DEF Releases, Unregisters, Forgotten, agentVars
  <2>2. QED
    BY <1>1, <2>1, QuietKeeps DEF TypeOK
<1>6. CASE TurnEnds(j) \/ Interrupts(j) \/ WatcherWakes(j) \/ OldWatcherLooks(j) \/ WatcherIsPoked(j)
  <2>1. accepted' = accepted /\ residency' = residency
    BY <1>6 DEF TurnEnds, Interrupts, WatcherWakes, OldWatcherLooks, WatcherIsPoked, agentVars
  <2>2. QED
    BY <2>1, QuietKeeps
<1>7. QED
  BY <1>2, <1>3, <1>4, <1>5, <1>6 DEF ChildSteps

\* The drains are the only ones that end work, and they accept nothing.
LEMMA DrainsAcceptNothing ==
    ASSUME Inv, NEW k \in Children, DrainDisposes \/ DrainEnds \/ \E kind \in Drains : DrainBegins(kind)
    PROVE  Keeps(k)
<1>1. drain' # "no"
  BY DrainAssumption DEF Inv, DrainReaches, DrainDisposes, DrainEnds, DrainBegins
<1>2. accepted'[k] \in {0, accepted[k]} /\ accepted[k] \in Nat
  <2>1. accepted \in [Children -> Nat]
    BY DEF Inv, TypeOK
  <2>2. accepted' = accepted \/ \E set : Opened(set)
    BY DEF DrainDisposes, DrainEnds, DrainBegins, agentVars
  <2>3. ASSUME NEW set, Opened(set)  PROVE accepted'[k] \in {0, accepted[k]}
    BY <2>3 DEF Opened
  <2>4. QED
    BY <2>1, <2>2, <2>3
<1>3. ~(accepted'[k] > accepted[k])
  BY <1>2
<1>4. QED
  BY <1>1, <1>3 DEF Keeps

\* Outside a drain only what has settled is disposed of, and nothing is accepted
\* by an Activation that is being disposed of.
THEOREM SettlementNeverDrops == Spec => SettlementDropsNothing
<1> DEFINE Step == \A k \in Children : Keeps(k)
<1>1. Inv /\ Next => Step
  <2> SUFFICES ASSUME Inv, Next, NEW k \in Children  PROVE Keeps(k)
    OBVIOUS
  <2>1. CASE Internal
    BY <2>1, DeliveriesDropNothing, ChildrenDropNothing, DrainsAcceptNothing DEF Internal
  <2>2. ASSUME NEW d \in Deliveries, CallerAborts(d) \/ \E j \in Children : Asks(d, j)
        PROVE  Keeps(k)
    <3>1. accepted' = accepted /\ residency' = residency
      BY <2>2 DEF CallerAborts, Asks, agentVars
    <3>2. QED
      BY <3>1, QuietKeeps
  <2>3. QED
    BY <2>1, <2>2, ChildrenDropNothing, DrainsAcceptNothing DEF Next
<1>2. Inv /\ UNCHANGED vars => Step
  BY QuietKeeps DEF vars, agentVars
<1>3. Inv /\ [Next]_vars => [Step]_vars
  BY <1>1, <1>2
<1>4. QED
  BY <1>3, InvHolds, PTL DEF Spec, SettlementDropsNothing, Keeps
=============================================================================
