------------------------ MODULE Preparations_proofs -------------------------
(***************************************************************************)
(* What is proved of Preparations for any callers and bounds: reservations *)
(* are exact, waiters are served, and inspections return fresh views.      *)
(***************************************************************************)
EXTENDS Preparations, FiniteSetTheorems, TLAPS

-----------------------------------------------------------------------------
(* The inductive invariant.                                                *)

\* A resume that has taken the entry and will settle its reservation.
Settling == {"commit", "denied", "stale", "committed", "held"}

\* prepare and load reserve; inspect only checks.
KindsAreApart ==
    /\ \A i \in Inspectors : At(i) \notin Settling \cup {"settled", "woken"}
    /\ \A r \in Resumers : At(r) \notin {"check", "current", "outdated"}

\* While there is an entry the session is not live, and whoever is live or
\* retiring owns the state.
ColdOrLive ==
    /\ entry.phase # "none" => live = Nobody
    /\ live = Nobody \/ retiring = Nobody
    /\ \A r \in Resumers : r \in {live, retiring} => At(r) = "live" /\ state.owner = r
    /\ state.owner # Nobody => Tracked

\* Who a queued operation belongs to.
OwnerOf(j) ==
    CASE j.op = "commit" -> j.by \in Resumers /\ At(j.by) = "commit"
      [] j.op = "check"  -> j.by \in Inspectors /\ At(j.by) = "check"
      [] j.op = "write"  -> j.by \in Resumers /\ j.by \in {live, retiring}
      [] j.op = "retire" -> j.by \in Resumers /\ j.by = retiring
      [] OTHER           -> j.by = Nobody

JobsAreOwned == \A i \in DOMAIN chain : OwnerOf(chain[i])

\* A caller queues one operation at most, and one read is queued for an entry.
JobsAreDistinct ==
    \A i, j \in DOMAIN chain : i # j =>
        /\ chain[i].by # Nobody => chain[i].by # chain[j].by
        /\ chain[i].op = "load" /\ chain[j].op = "load" => chain[i].gen # chain[j].gen

AppendingIsFirst == \A i \in DOMAIN chain : chain[i].op = "appending" => i = 1

Reads(i, g) == i \in DOMAIN chain /\ chain[i] = Job("load", Nobody, g)

\* An entry is loading exactly as long as its read is queued.
LoadsAreQueued ==
    /\ entry.phase = "loading" => \E i \in DOMAIN chain : Reads(i, entry.gen)
    /\ \A i \in DOMAIN chain :
          chain[i].op = "load" /\ Held(chain[i].gen) => entry.phase = "loading"

\* A commit whose entry was dropped runs before the read of the next entry, so
\* before anybody can reserve that one.
StaleCommitsAreAhead ==
    \A i \in DOMAIN chain :
        chain[i].op = "commit" /\ ~Held(Mine(chain[i].by)) /\ entry.phase # "none" =>
            \E j \in DOMAIN chain : j > i /\ Reads(j, entry.gen)

Owns(r) == At(r) \in Settling /\ Held(Mine(r))

\* One resume has the entry, in the phase that fits where it is, and whoever
\* waits does so for that one.
SettlersAreExact ==
    /\ \A r \in Resumers :
          Owns(r) => entry.phase = IF At(r) = "held" THEN "reserved" ELSE "committing"
    /\ \A r, q \in Resumers : Owns(r) /\ Owns(q) => r = q
    /\ entry.phase \in {"committing", "reserved"} => \E r \in Resumers : Owns(r)
    /\ \A r \in Resumers : At(r) = "held" => Held(Mine(r))
    /\ \A r \in Resumers : At(r) = "settled" =>
          Held(Mine(r)) /\ entry.phase \in {"committing", "reserved"}
    /\ \A r \in Resumers : At(r) = "woken" /\ Held(Mine(r)) => entry.phase # "loading"

\* While an append runs nobody has got further than to queue a commit.
AppendIsAlone ==
    Running("appending") => \A r \in Resumers : Owns(r) => At(r) = "commit"

\* What was committed is what is stored, and nobody owns it.
CommittedIsExact ==
    \A r \in Resumers : Owns(r) /\ At(r) \in {"committed", "held"} =>
        /\ ~View(r).open /\ View(r).length = state.cursor
        /\ stored.length = state.cursor + foreign
        /\ Tracked /\ state.owner = Nobody

\* What a check found current is no older than the inspection.
ChecksAreFresh ==
    \A i \in Inspectors :
        /\ call[i].since <= stored.length
        /\ At(i) = "current" => call[i].since <= View(i).length

ForeignOK == foreign \in Nat

Inv ==
    /\ TypeOK /\ ForeignOK /\ KindsAreApart /\ ColdOrLive
    /\ JobsAreOwned /\ JobsAreDistinct /\ AppendingIsFirst
    /\ LoadsAreQueued /\ StaleCommitsAreAhead
    /\ SettlersAreExact /\ AppendIsAlone /\ CommittedIsExact /\ ChecksAreFresh

-----------------------------------------------------------------------------
(* The operators of the model.                                             *)

CallT == [at : Places, mine : Nat, view : Views, since : Nat]
JobT  == [op : Ops, by : Callers \cup {Nobody}, gen : Nat]

\* A call that ends forgets its entry.
LEMMA EndDoes ==
    ASSUME call \in [Callers -> CallT], NEW c \in Callers, NEW how \in Places
    PROVE  /\ End(c, how) \in [Callers -> CallT]
           /\ End(c, how)[c] = NoCall(how)
           /\ \A x \in Callers \ {c} : End(c, how)[x] = call[x]
<1>1. NoCall(how) \in CallT
  BY DEF NoCall, CallT, NoView, Views
<1>2. QED
  BY <1>1 DEF End

\* A call that goes on keeps its entry, its view and when it came.
LEMMA GoDoes ==
    ASSUME call \in [Callers -> CallT], NEW c \in Callers, NEW place \in Places
    PROVE  /\ Go(c, place) \in [Callers -> CallT]
           /\ Go(c, place)[c].at = place /\ Go(c, place)[c].mine = Mine(c)
           /\ Go(c, place)[c].view = View(c) /\ Go(c, place)[c].since = call[c].since
           /\ \A x \in Callers \ {c} : Go(c, place)[x] = call[x]
BY DEF Go, CallT, Mine, View

\* Whoever waits for the entry goes on, nobody else does.
LEMMA WokenDoes ==
    ASSUME NEW calls \in [Callers -> CallT], NEW g
    PROVE  /\ Woken(calls, g) \in [Callers -> CallT]
           /\ \A x \in Callers :
                 /\ Woken(calls, g)[x].mine = calls[x].mine
                 /\ Woken(calls, g)[x].view = calls[x].view
                 /\ Woken(calls, g)[x].since = calls[x].since
                 /\ IF calls[x].at = "settled" /\ calls[x].mine = g
                    THEN Woken(calls, g)[x].at = "woken"
                    ELSE Woken(calls, g)[x] = calls[x]
<1>1. "woken" \in Places
  BY DEF Places
<1>2. QED
  BY <1>1 DEF Woken, CallT

\* The entry, the calls and the chain name fewer identities than there are.
LEMMA FreshIsFresh ==
    ASSUME entry.gen \in Nat, chain \in Seq(JobT), call \in [Callers -> CallT]
    PROVE  /\ Fresh \in Nat \ {0} /\ Fresh # entry.gen
           /\ \A c \in Callers : Mine(c) # Fresh
           /\ \A i \in DOMAIN chain : chain[i].gen # Fresh
<1> DEFINE mines == {Mine(c) : c \in Callers}
           queued == {chain[i].gen : i \in 1..Len(chain)}
           used == {entry.gen} \cup mines \cup queued
           m == [c \in Callers |-> Mine(c)]
           q == [i \in 1..Len(chain) |-> chain[i].gen]
<1>0. Len(chain) \in Nat /\ DOMAIN chain = 1..Len(chain)
  OBVIOUS
<1>1. IsFiniteSet(mines) /\ Cardinality(mines) <= Cardinality(Callers) /\ Cardinality(mines) \in Nat
  <2>1. m \in Surjection(Callers, mines)
    BY DEF Surjection
  <2>2. QED
    BY <2>1, CallersAreDistinct, FS_Surjection, FS_CardinalityType
<1>2. IsFiniteSet(queued) /\ Cardinality(queued) <= Len(chain) /\ Cardinality(queued) \in Nat
  <2>1. q \in Surjection(1..Len(chain), queued)
    BY DEF Surjection
  <2>2. IsFiniteSet(1..Len(chain)) /\ Cardinality(1..Len(chain)) = Len(chain)
    <3>1. ASSUME NEW n \in Nat  PROVE IsFiniteSet(1..n) /\ Cardinality(1..n) = n
      <4>1. 1 \in Int /\ n \in Int
        OBVIOUS
      <4>2. IsFiniteSet(1..n) /\ Cardinality(1..n) = IF 1 > n THEN 0 ELSE n - 1 + 1
        BY <4>1, FS_Interval, Zenon
      <4>3. QED
        BY <4>2
    <3>2. QED
      BY <1>0, <3>1
  <2>3. IsFiniteSet(queued) /\ Cardinality(queued) <= Len(chain)
    BY <2>1, <2>2, FS_Surjection
  <2>4. QED
    BY <2>3, FS_CardinalityType
<1>3. IsFiniteSet(used) /\ Cardinality(used) <= Cardinality(Callers) + Len(chain) + 1
  <2>1. IsFiniteSet({entry.gen}) /\ Cardinality({entry.gen}) = 1
    BY FS_Singleton
  <2>2. /\ IsFiniteSet({entry.gen} \cup mines)
        /\ Cardinality({entry.gen} \cup mines)
              = 1 + Cardinality(mines) - Cardinality({entry.gen} \cap mines)
    <3> HIDE DEF mines
    <3> QED  BY <2>1, <1>1, FS_Union
  <2>3. Cardinality({entry.gen} \cap mines) \in Nat
    BY <2>1, FS_Intersection, FS_CardinalityType
  <2>4. /\ IsFiniteSet(used)
        /\ Cardinality(used) = Cardinality({entry.gen} \cup mines) + Cardinality(queued)
                                  - Cardinality(({entry.gen} \cup mines) \cap queued)
    <3> HIDE DEF mines, queued
    <3> QED  BY <2>2, <1>2, FS_Union
  <2>5. Cardinality(({entry.gen} \cup mines) \cap queued) \in Nat
    BY <2>2, FS_Intersection, FS_CardinalityType
  <2>6. Cardinality(Callers) \in Nat
    BY CallersAreDistinct, FS_CardinalityType
  <2> HIDE DEF mines, queued, used
  <2>7. QED
    BY <2>2, <2>3, <2>4, <2>5, <2>6, <1>0, <1>1, <1>2
<1>4. PICK g \in Gens : g \notin used
  <2> HIDE DEF used
  <2>1. SUFFICES ASSUME Gens \subseteq used  PROVE FALSE
    OBVIOUS
  <2>2. Cardinality(Callers) \in Nat
    BY CallersAreDistinct, FS_CardinalityType
  <2>3. Cardinality(Gens) = Cardinality(Callers) + Len(chain) + 2
    BY <1>0, <2>2, FS_Interval DEF Gens
  <2>4. Cardinality(Gens) <= Cardinality(used)
    BY <1>3, <2>1, FS_Subset
  <2>5. Cardinality(used) \in Nat
    BY <1>3, FS_CardinalityType
  <2>6. QED
    BY <2>2, <2>3, <2>4, <2>5, <1>0, <1>3
<1> DEFINE Free(x) == /\ x \notin {entry.gen} \cup {Mine(c) : c \in Callers}
                      /\ \A i \in DOMAIN chain : chain[i].gen # x
<1>5. Free(g)
  BY <1>0, <1>4
<1>6. Fresh = CHOOSE x \in Gens : Free(x)
  BY DEF Fresh
<1> HIDE DEF Free
<1>7. Fresh \in Gens /\ Free(Fresh)
  BY <1>4, <1>5, <1>6
<1>8. Fresh \in Nat \ {0}
  BY <1>7, <1>0, CallersAreDistinct, FS_CardinalityType DEF Gens
<1>9. QED
  BY <1>7, <1>8 DEF Free

-----------------------------------------------------------------------------
(* What a step does to the entry and the calls, c being the caller that     *)
(* takes it, or Nobody.                                                    *)

\* A bystander keeps its call; one that waits for a read may get its result.
Spared(x) ==
    \/ call'[x] = call[x]
    \/ /\ At(x) = "result" /\ call'[x].at \in {"result", "refused"}
       /\ call'[x].since \in {0, call[x].since}

Others(c) == \A x \in Callers \ {c} : Spared(x)

OthersWoken(c) ==
    \A x \in Callers \ {c} :
        \/ /\ At(x) = "settled" /\ Mine(x) = entry.gen
           /\ call'[x].at = "woken" /\ call'[x].mine = Mine(x)
           /\ call'[x].view = View(x) /\ call'[x].since = call[x].since
        \/ ~(At(x) = "settled" /\ Mine(x) = entry.gen) /\ Spared(x)

\* c goes where it waits for nobody's reservation and has none.
Withdraws(c) ==
    c \in Callers =>
        /\ At(c) \notin Ended /\ call'[c].at \in {"head", "waited", "result", "check", "current", "outdated"} \cup Ended
        /\ c \in Resumers => call'[c].at \notin {"check", "current", "outdated"}

Leaves(c) ==
    /\ entry' = entry /\ Others(c) /\ Withdraws(c)
    /\ c \in Resumers => ~Owns(c)

Advances(r) ==
    /\ r \in Resumers /\ entry' = entry /\ Others(r) /\ At(r) = "commit"
    /\ call'[r].at \in {"denied", "stale", "committed"}
    /\ call'[r].mine = Mine(r) /\ call'[r].view = View(r) /\ call'[r].since = call[r].since

Waits(r) ==
    /\ r \in Resumers /\ entry' = entry /\ Others(r) /\ At(r) \in {"result", "woken"}
    /\ call'[r].at = "settled" /\ call'[r].mine = Mine(r) /\ call'[r].since = call[r].since
    /\ Held(Mine(r)) /\ entry.phase \in {"committing", "reserved"}

Drops(c) ==
    /\ entry.phase # "none" /\ entry' = NoEntry /\ OthersWoken(c) /\ Withdraws(c)
    /\ \A r \in Resumers \ {c} : At(r) # "held"

Readies(r) ==
    /\ r \in Resumers /\ Owns(r) /\ entry' = [entry EXCEPT !.phase = "ready"]
    /\ OthersWoken(r) /\ call'[r] = NoCall("refused")

Fills ==
    /\ entry.phase = "loading" /\ Others(Nobody)
    /\ entry' = [entry EXCEPT !.phase = "ready", !.view = stored]

Starts(c) ==
    /\ c \in Callers /\ At(c) = "waited" /\ entry.phase = "none" /\ Others(c)
    /\ entry' = [gen |-> Fresh, phase |-> "loading", view |-> NoView]
    /\ call'[c].at = "result" /\ call'[c].mine = Fresh

Takes(r) ==
    /\ r \in Resumers /\ Others(r) /\ At(r) \in {"result", "woken"}
    /\ Held(Mine(r)) /\ entry.phase = "ready"
    /\ entry' = [entry EXCEPT !.phase = "committing"]
    /\ call'[r].at = "commit" /\ call'[r].mine = Mine(r) /\ call'[r].since = call[r].since

Keeps(r) ==
    /\ r \in Resumers /\ Others(r) /\ At(r) = "committed" /\ Held(Mine(r))
    /\ entry' = [entry EXCEPT !.phase = "reserved"]
    /\ call'[r].at = "held" /\ call'[r].mine = Mine(r)
    /\ call'[r].view = View(r) /\ call'[r].since = call[r].since

Effect(c) ==
    \/ Leaves(c) \/ Advances(c) \/ Waits(c) \/ Drops(c) \/ Readies(c)
    \/ c = Nobody /\ Fills
    \/ Starts(c) \/ Takes(c) \/ Keeps(c)

EntryT == [gen : Nat, phase : {"none", "loading", "ready", "committing", "reserved"}, view : Views]

\* A resume that goes away leaves the others as exact as they were.
LEMMA LeavesKeeps ==
    ASSUME TypeOK, KindsAreApart, SettlersAreExact, NEW c \in Callers \cup {Nobody}, Leaves(c)
    PROVE  KindsAreApart' /\ SettlersAreExact'
<1> USE DEF Leaves, Others, Spared, Withdraws, Settling, At, Mine, Held, Ended
<1>1. KindsAreApart'
  BY CallersAreDistinct DEF KindsAreApart, Callers
<1>2. \A r \in Resumers : Owns(r)' <=> Owns(r)
  BY DEF Owns, Callers
<1>3. \A r \in Resumers : Owns(r) => call'[r] = call[r]
  BY DEF Owns, Callers
<1>4. \A r \in Resumers : call'[r].at \in {"held", "settled", "woken"} => call'[r] = call[r]
  BY DEF Callers
<1>5. SettlersAreExact'
  BY <1>2, <1>3, <1>4 DEF SettlersAreExact, Owns
<1>6. QED
  BY <1>1, <1>5

\* The end of a commit changes where its caller is, not what it has.
LEMMA AdvancesKeeps ==
    ASSUME TypeOK, KindsAreApart, SettlersAreExact, NEW c \in Callers \cup {Nobody}, Advances(c)
    PROVE  KindsAreApart' /\ SettlersAreExact'
<1> USE DEF Advances, Others, Spared, Settling, At, Mine, Held, Ended
<1>1. KindsAreApart'
  BY CallersAreDistinct DEF KindsAreApart, Callers
<1>2. \A r \in Resumers : Owns(r)' <=> Owns(r)
  BY DEF Owns, Callers
<1>3. \A r \in Resumers : Owns(r) /\ r # c => call'[r] = call[r]
  BY DEF Owns, Callers
<1>4. \A r \in Resumers : call'[r].at \in {"held", "settled", "woken"} => call'[r] = call[r]
  BY DEF Callers
<1>5. SettlersAreExact'
  BY <1>2, <1>3, <1>4 DEF SettlersAreExact, Owns
<1>6. QED
  BY <1>1, <1>5

\* One more caller waits for whoever has the entry.
LEMMA WaitsKeeps ==
    ASSUME TypeOK, KindsAreApart, SettlersAreExact, NEW c \in Callers \cup {Nobody}, Waits(c)
    PROVE  KindsAreApart' /\ SettlersAreExact'
<1> USE DEF Waits, Others, Spared, Settling, At, Mine, Held, Ended
<1>1. KindsAreApart'
  BY CallersAreDistinct DEF KindsAreApart, Callers
<1>2. \A r \in Resumers : Owns(r)' <=> Owns(r)
  BY DEF Owns, Callers
<1>3. \A r \in Resumers : Owns(r) => call'[r] = call[r]
  BY DEF Owns, Callers
<1>4. \A r \in Resumers : call'[r].at \in {"held", "settled", "woken"} /\ r # c => call'[r] = call[r]
  BY DEF Callers
<1>5. SettlersAreExact'
  BY <1>2, <1>3, <1>4 DEF SettlersAreExact, Owns
<1>6. QED
  BY <1>1, <1>5

\* Nobody waits for an entry that was dropped.
LEMMA DropsKeeps ==
    ASSUME TypeOK, KindsAreApart, SettlersAreExact, NEW c \in Callers \cup {Nobody}, Drops(c)
    PROVE  KindsAreApart' /\ SettlersAreExact'
<1> USE DEF Drops, OthersWoken, Withdraws, Others, Spared, Settling, At, Mine, Held, Ended
<1>1. KindsAreApart'
  BY CallersAreDistinct DEF KindsAreApart, Callers
<1>2. entry'.phase = "none" /\ \A r \in Resumers : ~Owns(r)'
  BY DEF Owns, NoEntry
<1>3. \A r \in Resumers : call'[r].at \notin {"held", "settled"}
  BY DEF Callers, SettlersAreExact
<1>4. SettlersAreExact'
  BY <1>2, <1>3 DEF SettlersAreExact, NoEntry
<1>5. QED
  BY <1>1, <1>4

\* Nobody waits for an entry that is ready again.
LEMMA ReadiesKeeps ==
    ASSUME TypeOK, KindsAreApart, SettlersAreExact, NEW c \in Callers \cup {Nobody}, Readies(c)
    PROVE  KindsAreApart' /\ SettlersAreExact'
<1> USE DEF Readies, OthersWoken, NoCall, Others, Spared, Settling, At, Mine, Held, Ended
<1>1. KindsAreApart'
  BY CallersAreDistinct DEF KindsAreApart, Callers
<1>2. entry'.phase = "ready" /\ entry'.gen = entry.gen
  BY DEF TypeOK
<1>3. \A r \in Resumers : ~Owns(r)'
  BY <1>2 DEF Owns, Callers, SettlersAreExact
<1>4. \A r \in Resumers : call'[r].at # "settled"
  BY DEF Callers, SettlersAreExact
<1>5. \A r \in Resumers : call'[r].at # "held"
  <2>1. \A r \in Resumers : r # c => At(r) # "held"
    BY DEF SettlersAreExact, Owns, Callers
  <2>2. QED
    BY <2>1 DEF Callers
<1>6. SettlersAreExact'
  BY <1>2, <1>3, <1>4, <1>5 DEF SettlersAreExact
<1>7. QED
  BY <1>1, <1>6

\* Nobody has reserved an entry that was still loading.
LEMMA FillsKeeps ==
    ASSUME TypeOK, KindsAreApart, SettlersAreExact, NEW c \in Callers \cup {Nobody}, c = Nobody, Fills
    PROVE  KindsAreApart' /\ SettlersAreExact'
<1> USE DEF Fills, Others, Spared, Settling, At, Mine, Held, Ended
<1>1. KindsAreApart'
  BY CallersAreDistinct DEF KindsAreApart, Callers
<1>2. entry'.phase = "ready" /\ entry'.gen = entry.gen
  BY DEF TypeOK
<1>3. \A r \in Resumers : At(r) \notin {"held", "settled"} /\ ~Owns(r)
  BY DEF SettlersAreExact, Owns
<1>4. \A r \in Resumers : call'[r].at \notin {"held", "settled"} /\ ~Owns(r)'
  BY <1>2, <1>3, CallersAreDistinct DEF Owns, Callers
<1>5. SettlersAreExact'
  BY <1>2, <1>4 DEF SettlersAreExact
<1>6. QED
  BY <1>1, <1>5

\* Nobody has reserved an entry whose identity is new.
LEMMA StartsKeeps ==
    ASSUME TypeOK, KindsAreApart, SettlersAreExact, NEW c \in Callers \cup {Nobody}, Starts(c)
    PROVE  KindsAreApart' /\ SettlersAreExact'
<1> USE DEF Starts, Others, Spared, Settling, At, Mine, Held, Ended
<1>1. KindsAreApart'
  BY CallersAreDistinct DEF KindsAreApart, Callers
<1>2. \A r \in Resumers : At(r) \notin {"held", "settled"} /\ ~Owns(r)
  BY DEF SettlersAreExact, Owns
<1>3. entry'.phase = "loading" /\ entry'.gen = Fresh
  OBVIOUS
<1>4. \A x \in Callers : Mine(x) # Fresh
  BY FreshIsFresh DEF TypeOK, CallT, JobT, EntryT
<1>5. \A r \in Resumers : call'[r].at \notin {"held", "settled"} /\ ~Owns(r)'
  BY <1>2, <1>3, <1>4 DEF Owns, Callers
<1>6. \A r \in Resumers : call'[r].at = "woken" => call'[r].mine # Fresh
  BY <1>4 DEF Callers
<1>7. SettlersAreExact'
  BY <1>3, <1>5, <1>6 DEF SettlersAreExact
<1>8. QED
  BY <1>1, <1>7

\* Whoever takes a ready entry is the only one that has it.
LEMMA TakesKeeps ==
    ASSUME TypeOK, KindsAreApart, SettlersAreExact, NEW c \in Callers \cup {Nobody}, Takes(c)
    PROVE  KindsAreApart' /\ SettlersAreExact'
<1> USE DEF Takes, Others, Spared, Settling, At, Mine, Held, Ended
<1>1. KindsAreApart'
  BY CallersAreDistinct DEF KindsAreApart, Callers
<1>2. entry'.phase = "committing" /\ entry'.gen = entry.gen
  BY DEF TypeOK
<1>3. \A r \in Resumers : At(r) \notin {"held", "settled"} /\ ~Owns(r)
  BY DEF SettlersAreExact, Owns
<1>4. \A r \in Resumers : call'[r].at \notin {"held", "settled"} /\ (Owns(r)' <=> r = c)
  BY <1>2, <1>3 DEF Owns, Callers
<1>5. SettlersAreExact'
  BY <1>2, <1>4 DEF SettlersAreExact
<1>6. QED
  BY <1>1, <1>5

\* A reservation that is kept stays with whoever committed it.
LEMMA KeepsKeeps ==
    ASSUME TypeOK, KindsAreApart, SettlersAreExact, NEW c \in Callers \cup {Nobody}, Keeps(c)
    PROVE  KindsAreApart' /\ SettlersAreExact'
<1> USE DEF Keeps, Others, Spared, Settling, At, Mine, Held, Ended
<1>1. KindsAreApart'
  BY CallersAreDistinct DEF KindsAreApart, Callers
<1>2. entry'.phase = "reserved" /\ entry'.gen = entry.gen
  BY DEF TypeOK
<1>3. Owns(c) /\ Owns(c)'
  BY <1>2 DEF Owns
<1>4. \A r \in Resumers : Owns(r)' <=> r = c
  BY <1>2, <1>3 DEF Owns, Callers, SettlersAreExact
<1>5. \A r \in Resumers : call'[r].at = "held" => r = c
  BY <1>3 DEF Callers, SettlersAreExact, Owns
<1>6. \A r \in Resumers : call'[r].at = "settled" => Held(Mine(r)) /\ call'[r] = call[r]
  BY DEF Callers, SettlersAreExact
<1>7. SettlersAreExact'
  BY <1>2, <1>3, <1>4, <1>5, <1>6 DEF SettlersAreExact
<1>8. QED
  BY <1>1, <1>7

\* So does every step.
LEMMA EffectKeeps ==
    ASSUME TypeOK, KindsAreApart, SettlersAreExact, NEW c \in Callers \cup {Nobody}, Effect(c)
    PROVE  KindsAreApart' /\ SettlersAreExact'
BY LeavesKeeps, AdvancesKeeps, WaitsKeeps, DropsKeeps, ReadiesKeeps, FillsKeeps, StartsKeeps,
   TakesKeeps, KeepsKeeps DEF Effect

\* Bystanders of a step keep what is queued for them, and sessions in the store
\* stay where they are.
LEMMA EffectSpares ==
    ASSUME NEW c \in Callers \cup {Nobody}, Effect(c), NEW x \in Callers \ {c}
    PROVE  /\ At(x) \notin {"result", "settled"} => call'[x] = call[x]
           /\ call'[x].at \in {"check", "commit", "current", "denied", "stale", "committed", "held"}
                 => call'[x] = call[x]
BY CallersAreDistinct
DEF Effect, Leaves, Advances, Waits, Drops, Readies, Fills, Starts, Takes, Keeps, Others, OthersWoken,
    Spared, At, Ended

-----------------------------------------------------------------------------
(* What a step does to the chain.                                          *)

Grows(j) == j \in JobT /\ chain' = Append(chain, j)

\* One operation is taken out: the running one, or an aborted caller's.
Cuts(k) ==
    /\ k \in DOMAIN chain
    /\ chain' \in Seq(JobT) /\ Len(chain') = Len(chain) - 1
    /\ \A i \in 1..(Len(chain) - 1) : chain'[i] = chain[IF i < k THEN i ELSE i + 1]

\* An append begins to run.
Swaps == Running("append") /\ chain' = [chain EXCEPT ![1] = Job("appending", Nobody, 0)]

\* A queued operation comes last.
LEMMA GrowsDoes ==
    ASSUME chain \in Seq(JobT), NEW j \in JobT, Grows(j)
    PROVE  /\ chain' \in Seq(JobT) /\ Len(chain) \in Nat
           /\ DOMAIN chain = 1..Len(chain) /\ DOMAIN chain' = 1..(Len(chain) + 1)
           /\ \A i \in DOMAIN chain : chain'[i] = chain[i]
           /\ chain'[Len(chain) + 1] = j
           /\ \A op \in Ops : op # j.op => (Running(op)' <=> Running(op))
<1>1. /\ chain' \in Seq(JobT) /\ Len(chain) \in Nat /\ Len(chain') = Len(chain) + 1
      /\ DOMAIN chain = 1..Len(chain) /\ DOMAIN chain' = 1..(Len(chain) + 1)
      /\ \A i \in DOMAIN chain : chain'[i] = chain[i]
      /\ chain'[Len(chain) + 1] = j
  BY DEF Grows
<1>2. chain # <<>> => Head(chain') = Head(chain) /\ chain' # <<>>
  BY <1>1 DEF Grows
<1>3. chain = <<>> => Head(chain') = j /\ chain' # <<>>
  BY <1>1 DEF Grows
<1>4. QED
  BY <1>1, <1>2, <1>3 DEF Running

\* The others keep their order.
LEMMA CutsDoes ==
    ASSUME chain \in Seq(JobT), NEW k, Cuts(k)
    PROVE  /\ chain' \in Seq(JobT) /\ Len(chain) \in Nat \ {0} /\ k \in 1..Len(chain)
           /\ DOMAIN chain = 1..Len(chain) /\ DOMAIN chain' = 1..(Len(chain) - 1)
           /\ \A i \in DOMAIN chain : i < k => i \in DOMAIN chain' /\ chain'[i] = chain[i]
           /\ \A i \in DOMAIN chain : i > k => i - 1 \in DOMAIN chain' /\ chain'[i - 1] = chain[i]
           /\ \A i \in DOMAIN chain' : (i < k /\ chain'[i] = chain[i]) \/ (i >= k /\ chain'[i] = chain[i + 1])
           /\ k # 1 => \A op \in Ops : Running(op)' <=> Running(op)
<1>1. /\ Len(chain) \in Nat \ {0} /\ k \in 1..Len(chain) /\ DOMAIN chain = 1..Len(chain)
      /\ DOMAIN chain' = 1..(Len(chain) - 1) /\ Len(chain) - 1 \in Nat
  BY DEF Cuts
<1>2. \A i \in DOMAIN chain' : i \in DOMAIN chain /\ i + 1 \in DOMAIN chain
  BY <1>1
<1>3. \A i \in DOMAIN chain' : chain'[i] = chain[IF i < k THEN i ELSE i + 1]
  BY <1>1 DEF Cuts
<1>4. \A i \in DOMAIN chain' : chain'[i] \in JobT
  BY <1>2, <1>3
<1>5. chain' \in Seq(JobT) /\ Len(chain') = Len(chain) - 1
  BY <1>1, <1>4 DEF Cuts
<1>6. ASSUME k # 1  PROVE chain' # <<>> /\ chain # <<>> /\ Head(chain') = Head(chain)
  <2>1. Len(chain) > 1 /\ 1 \in DOMAIN chain'
    BY <1>1, <1>6
  <2>2. chain'[1] = chain[1]
    BY <1>1, <1>3, <1>6, <2>1
  <2>3. QED
    BY <1>1, <1>5, <2>1, <2>2
<1>7. QED
  BY <1>1, <1>2, <1>3, <1>5, <1>6 DEF Running

\* The append that begins takes the place it had.
LEMMA SwapsDoes ==
    ASSUME chain \in Seq(JobT), Swaps
    PROVE  /\ chain' \in Seq(JobT) /\ DOMAIN chain' = DOMAIN chain /\ 1 \in DOMAIN chain
           /\ DOMAIN chain = 1..Len(chain) /\ Len(chain) \in Nat
           /\ chain[1].op = "append" /\ chain'[1] = Job("appending", Nobody, 0)
           /\ \A i \in DOMAIN chain : i # 1 => chain'[i] = chain[i]
<1>1. Job("appending", Nobody, 0) \in JobT
  BY DEF Job, JobT, Ops
<1>2. Len(chain) \in Nat /\ chain # <<>> /\ DOMAIN chain = 1..Len(chain) /\ 1 \in DOMAIN chain
  BY DEF Swaps, Running
<1>3. chain[1].op = "append"
  BY <1>2 DEF Swaps, Running
<1>4. QED
  BY <1>1, <1>2, <1>3 DEF Swaps

\* The operation that ends is the first one.
LEMMA FinishDoes ==
    ASSUME chain \in Seq(JobT), NEW op, Finish(op)
    PROVE  /\ Cuts(1) /\ 1 \in DOMAIN chain /\ Head(chain) = chain[1] /\ chain[1] \in JobT
           /\ chain[1].op = op /\ Running(op)
<1>1. Len(chain) \in Nat /\ chain # <<>> /\ DOMAIN chain = 1..Len(chain) /\ 1 \in DOMAIN chain
  BY DEF Finish, Running
<1>2. /\ Tail(chain) \in Seq(JobT) /\ Len(Tail(chain)) = Len(chain) - 1
      /\ \A i \in 1..(Len(chain) - 1) : Tail(chain)[i] = chain[IF i < 1 THEN i ELSE i + 1]
  BY <1>1
<1>3. QED
  BY <1>1, <1>2 DEF Finish, Running, Cuts

\* An aborted caller's operation is taken out, if it has one.
LEMMA DequeuedDoes ==
    ASSUME chain \in Seq(JobT), NEW c \in Callers, chain' = Dequeued(c)
    PROVE  \/ chain' = chain /\ \A i \in DOMAIN chain : chain[i].by # c
           \/ \E k \in DOMAIN chain : Cuts(k) /\ chain[k].by = c
<1>1. CASE \E i \in DOMAIN chain : chain[i].by = c
  <2> DEFINE k == CHOOSE i \in DOMAIN chain : chain[i].by = c
  <2>1. k \in DOMAIN chain /\ chain[k].by = c
    BY <1>1
  <2>2. chain' = [i \in 1..(Len(chain) - 1) |-> chain[IF i < k THEN i ELSE i + 1]]
    BY <1>1 DEF Dequeued
  <2>3. PICK n \in DOMAIN chain : n = k
    BY <2>1
  <2> HIDE DEF k
  <2>4. chain' = [i \in 1..(Len(chain) - 1) |-> chain[IF i < n THEN i ELSE i + 1]]
    BY <2>2, <2>3
  <2>5. Len(chain) \in Nat \ {0} /\ DOMAIN chain = 1..Len(chain) /\ Len(chain) - 1 \in Nat
    BY <2>3
  <2>6. \A i \in 1..(Len(chain) - 1) : chain[IF i < n THEN i ELSE i + 1] \in JobT
    BY <2>5
  <2>7. chain' \in Seq(JobT) /\ Len(chain') = Len(chain) - 1
    BY <2>4, <2>5, <2>6
  <2>8. Cuts(n) /\ chain[n].by = c
    BY <2>1, <2>3, <2>4, <2>7 DEF Cuts
  <2>9. QED
    BY <2>8
<1>2. CASE ~\E i \in DOMAIN chain : chain[i].by = c
  BY <1>2 DEF Dequeued
<1>3. QED
  BY <1>1, <1>2

\* What is queued once stays queued once.
LEMMA CutsKeepsOrder ==
    ASSUME chain \in Seq(JobT), JobsAreDistinct, AppendingIsFirst, NEW k, Cuts(k)
    PROVE  JobsAreDistinct' /\ AppendingIsFirst'
<1>1. /\ Len(chain) \in Nat /\ k \in 1..Len(chain) /\ DOMAIN chain = 1..Len(chain)
      /\ DOMAIN chain' = 1..(Len(chain) - 1)
      /\ \A i \in DOMAIN chain' : (i < k /\ chain'[i] = chain[i]) \/ (i >= k /\ chain'[i] = chain[i + 1])
  BY CutsDoes
<1>2. JobsAreDistinct'
  <2>1. \A i, j \in DOMAIN chain' : i # j => \E m, n \in DOMAIN chain : m # n /\ chain'[i] = chain[m] /\ chain'[j] = chain[n]
    BY <1>1
  <2>2. QED
    BY <2>1 DEF JobsAreDistinct
<1>3. AppendingIsFirst'
  <2>1. \A i \in DOMAIN chain' : \E m \in DOMAIN chain : m >= i /\ (m = i \/ m > 1) /\ chain'[i] = chain[m]
    BY <1>1
  <2>2. QED
    BY <2>1, <1>1 DEF AppendingIsFirst
<1>4. QED
  BY <1>2, <1>3

\* A new operation of somebody who has none queued keeps the chain distinct.
LEMMA GrowsKeepsOrder ==
    ASSUME chain \in Seq(JobT), JobsAreDistinct, AppendingIsFirst, NEW j \in JobT, Grows(j),
           j.op # "appending",
           j.by # Nobody => \A i \in DOMAIN chain : chain[i].by # j.by,
           j.op = "load" => \A i \in DOMAIN chain : chain[i].gen # j.gen
    PROVE  JobsAreDistinct' /\ AppendingIsFirst'
<1>1. /\ Len(chain) \in Nat
      /\ DOMAIN chain = 1..Len(chain) /\ DOMAIN chain' = 1..(Len(chain) + 1)
      /\ \A i \in DOMAIN chain : chain'[i] = chain[i]
      /\ chain'[Len(chain) + 1] = j
  BY GrowsDoes
<1>2. \A i \in DOMAIN chain' : i \in DOMAIN chain \/ i = Len(chain) + 1
  BY <1>1
<1>3. QED
  BY <1>1, <1>2 DEF JobsAreDistinct, AppendingIsFirst

\* An append that begins to run is the first operation.
LEMMA SwapsKeepsOrder ==
    ASSUME chain \in Seq(JobT), JobsAreDistinct, AppendingIsFirst, Swaps
    PROVE  JobsAreDistinct' /\ AppendingIsFirst'
<1>1. /\ DOMAIN chain' = DOMAIN chain /\ chain'[1] = Job("appending", Nobody, 0)
      /\ \A i \in DOMAIN chain : i # 1 => chain'[i] = chain[i]
  BY SwapsDoes
<1>2. chain'[1].op = "appending" /\ chain'[1].by = Nobody
  BY <1>1 DEF Job
<1>3. QED
  BY <1>1, <1>2 DEF JobsAreDistinct, AppendingIsFirst

-----------------------------------------------------------------------------
(* The order of reads and commits.                                         *)

\* The current entry stays the current entry, and goes on loading if it does.
SameEntry ==
    /\ entry'.gen = entry.gen
    /\ entry'.phase = "none" <=> entry.phase = "none"
    /\ entry'.phase = "loading" <=> entry.phase = "loading"

\* The callers of queued commits keep their entries.
SameClaims ==
    \A i \in DOMAIN chain' : chain'[i].op = "commit" => call'[chain'[i].by].mine = Mine(chain'[i].by)

\* Nothing happened to the chain or to the entry's identity.
LEMMA ChainKeepsReads ==
    ASSUME LoadsAreQueued, StaleCommitsAreAhead, SameEntry, SameClaims, chain' = chain
    PROVE  LoadsAreQueued' /\ StaleCommitsAreAhead'
<1>1. \A g : Held(g)' <=> Held(g)
  BY DEF SameEntry, Held
<1>2. \A i : Reads(i, entry.gen)' <=> Reads(i, entry.gen)
  BY DEF Reads, SameEntry
<1>3. LoadsAreQueued'
  BY <1>1, <1>2 DEF LoadsAreQueued, SameEntry
<1>4. StaleCommitsAreAhead'
  BY <1>1, <1>2 DEF StaleCommitsAreAhead, SameEntry, SameClaims, Mine
<1>5. QED
  BY <1>3, <1>4

\* An operation that comes last is behind every read.
LEMMA GrowsKeepsReads ==
    ASSUME chain \in Seq(JobT), LoadsAreQueued, StaleCommitsAreAhead, SameEntry, SameClaims,
           NEW j \in JobT, Grows(j), j.op # "load",
           j.op = "commit" => Held(Mine(j.by))
    PROVE  LoadsAreQueued' /\ StaleCommitsAreAhead'
<1>1. /\ Len(chain) \in Nat
      /\ DOMAIN chain = 1..Len(chain) /\ DOMAIN chain' = 1..(Len(chain) + 1)
      /\ \A i \in DOMAIN chain : chain'[i] = chain[i]
      /\ chain'[Len(chain) + 1] = j
  BY GrowsDoes
<1>2. \A i \in DOMAIN chain' : i \in DOMAIN chain \/ (i = Len(chain) + 1 /\ chain'[i] = j)
  BY <1>1
<1>3. \A g : Held(g)' <=> Held(g)
  BY DEF SameEntry, Held
<1>4. \A i : Reads(i, entry.gen) => Reads(i, entry.gen)' /\ i \in DOMAIN chain'
  BY <1>1 DEF Reads, SameEntry
<1>5. LoadsAreQueued'
  BY <1>1, <1>2, <1>3, <1>4 DEF LoadsAreQueued, SameEntry
<1>6. StaleCommitsAreAhead'
  BY <1>1, <1>2, <1>3, <1>4 DEF StaleCommitsAreAhead, SameEntry, SameClaims, Mine
<1>7. QED
  BY <1>5, <1>6

\* The read of the current entry stays where it is when another operation goes.
LEMMA CutsKeepsReads ==
    ASSUME chain \in Seq(JobT), LoadsAreQueued, StaleCommitsAreAhead, SameEntry, SameClaims,
           NEW k, Cuts(k), entry.phase # "none" => ~Reads(k, entry.gen)
    PROVE  LoadsAreQueued' /\ StaleCommitsAreAhead'
<1>1. /\ Len(chain) \in Nat \ {0} /\ k \in 1..Len(chain)
      /\ DOMAIN chain = 1..Len(chain) /\ DOMAIN chain' = 1..(Len(chain) - 1)
      /\ \A i \in DOMAIN chain : i < k => i \in DOMAIN chain' /\ chain'[i] = chain[i]
      /\ \A i \in DOMAIN chain : i > k => i - 1 \in DOMAIN chain' /\ chain'[i - 1] = chain[i]
      /\ \A i \in DOMAIN chain' : (i < k /\ chain'[i] = chain[i]) \/ (i >= k /\ chain'[i] = chain[i + 1])
  BY CutsDoes
<1>2. \A g : Held(g)' <=> Held(g)
  BY DEF SameEntry, Held
<1>3. \A i \in DOMAIN chain : entry.phase # "none" /\ Reads(i, entry.gen) =>
         \/ i < k /\ Reads(i, entry.gen)'
         \/ i > k /\ Reads(i - 1, entry.gen)'
  BY <1>1 DEF Reads, SameEntry
<1>4. \A i \in DOMAIN chain' : \E m \in DOMAIN chain :
         chain'[i] = chain[m] /\ ((i < k /\ m = i) \/ (i >= k /\ m = i + 1))
  <2>1. \A i \in DOMAIN chain' : i \in DOMAIN chain /\ i + 1 \in DOMAIN chain
    BY <1>1
  <2>2. QED
    BY <2>1, <1>1
<1>5. LoadsAreQueued'
  <2>1. entry'.phase = "loading" => \E i \in DOMAIN chain' : Reads(i, entry.gen)'
    BY <1>1, <1>3 DEF LoadsAreQueued, SameEntry
  <2>2. QED
    BY <2>1, <1>2, <1>4 DEF LoadsAreQueued, SameEntry
<1>6. StaleCommitsAreAhead'
  <2> SUFFICES ASSUME NEW i \in DOMAIN chain',
                      chain'[i].op = "commit", ~Held(Mine(chain[i].by))', entry'.phase # "none"
               PROVE  \E j \in DOMAIN chain' : j > i /\ Reads(j, entry.gen)'
    BY DEF StaleCommitsAreAhead
  <2>1. PICK m \in DOMAIN chain : chain'[i] = chain[m] /\ ((i < k /\ m = i) \/ (i >= k /\ m = i + 1))
    BY <1>4
  <2>2. ~Held(Mine(chain[m].by)) /\ chain[m].op = "commit" /\ entry.phase # "none"
    BY <1>2, <2>1 DEF SameClaims, Mine, SameEntry
  <2>3. PICK n \in DOMAIN chain : n > m /\ Reads(n, entry.gen)
    BY <2>2 DEF StaleCommitsAreAhead
  <2>4. QED
    BY <1>1, <1>3, <2>1, <2>2, <2>3
<1>7. QED
  BY <1>5, <1>6

\* An append is neither a read nor a commit.
LEMMA SwapsKeepsReads ==
    ASSUME chain \in Seq(JobT), LoadsAreQueued, StaleCommitsAreAhead, SameEntry, SameClaims, Swaps
    PROVE  LoadsAreQueued' /\ StaleCommitsAreAhead'
<1>1. /\ DOMAIN chain' = DOMAIN chain /\ 1 \in DOMAIN chain
      /\ chain[1].op = "append" /\ chain'[1] = Job("appending", Nobody, 0)
      /\ \A i \in DOMAIN chain : i # 1 => chain'[i] = chain[i]
  BY SwapsDoes
<1>2. \A g : Held(g)' <=> Held(g)
  BY DEF SameEntry, Held
<1>3. \A i : Reads(i, entry.gen) => Reads(i, entry.gen)'
  BY <1>1 DEF Reads, SameEntry, Job
<1>4. chain'[1].op = "appending"
  BY <1>1 DEF Job
<1>5. LoadsAreQueued'
  BY <1>1, <1>2, <1>3, <1>4 DEF LoadsAreQueued, SameEntry
<1>6. StaleCommitsAreAhead'
  BY <1>1, <1>2, <1>3, <1>4 DEF StaleCommitsAreAhead, SameEntry, SameClaims, Mine
<1>7. QED
  BY <1>5, <1>6

\* A dropped entry has nothing to say about the chain.
LEMMA DroppedHasNoReads ==
    ASSUME entry' = NoEntry
    PROVE  LoadsAreQueued' /\ StaleCommitsAreAhead'
BY DEF LoadsAreQueued, StaleCommitsAreAhead, NoEntry, Held

\* The read of the current entry ends: every stale commit has run.
LEMMA ReadEnds ==
    ASSUME chain \in Seq(JobT), JobsAreDistinct, StaleCommitsAreAhead, SameClaims, Cuts(1),
           Reads(1, entry.gen), entry.phase = "loading", entry'.gen = entry.gen, entry'.phase = "ready"
    PROVE  LoadsAreQueued' /\ StaleCommitsAreAhead'
<1>1. /\ Len(chain) \in Nat \ {0}
      /\ DOMAIN chain = 1..Len(chain) /\ DOMAIN chain' = 1..(Len(chain) - 1)
      /\ \A i \in DOMAIN chain' : chain'[i] = chain[i + 1]
  <2>1. /\ Len(chain) \in Nat \ {0}
        /\ DOMAIN chain = 1..Len(chain) /\ DOMAIN chain' = 1..(Len(chain) - 1)
        /\ \A i \in DOMAIN chain' : (i < 1 /\ chain'[i] = chain[i]) \/ (i >= 1 /\ chain'[i] = chain[i + 1])
    BY CutsDoes
  <2>2. QED
    BY <2>1
<1>2. \A g : Held(g)' <=> Held(g)
  BY DEF Held
<1>3. \A i \in DOMAIN chain : i # 1 /\ chain[i].op = "load" => chain[i].gen # entry.gen
  BY <1>1 DEF JobsAreDistinct, Reads, Job
<1>4. LoadsAreQueued'
  BY <1>1, <1>2, <1>3 DEF LoadsAreQueued, Held
<1>5. \A i \in DOMAIN chain : chain[i].op = "commit" => Held(Mine(chain[i].by))
  <2> SUFFICES ASSUME NEW i \in DOMAIN chain, chain[i].op = "commit", ~Held(Mine(chain[i].by))
               PROVE  FALSE
    OBVIOUS
  <2>1. PICK j \in DOMAIN chain : j > i /\ Reads(j, entry.gen)
    BY DEF StaleCommitsAreAhead
  <2>2. QED
    BY <1>1, <1>3, <2>1 DEF Reads, Job
<1>6. StaleCommitsAreAhead'
  BY <1>1, <1>2, <1>5 DEF StaleCommitsAreAhead, SameClaims, Mine
<1>7. QED
  BY <1>4, <1>6

\* A new entry is read after everything that is queued.
LEMMA ReadStarts ==
    ASSUME chain \in Seq(JobT), NEW g \in Nat, \A i \in DOMAIN chain : chain[i].gen # g,
           Grows(Job("load", Nobody, g)), entry'.gen = g, entry'.phase = "loading"
    PROVE  LoadsAreQueued' /\ StaleCommitsAreAhead'
<1> DEFINE j == Job("load", Nobody, g)
<1>1. j \in JobT
  BY DEF Grows
<1>2. /\ Len(chain) \in Nat
      /\ DOMAIN chain = 1..Len(chain) /\ DOMAIN chain' = 1..(Len(chain) + 1)
      /\ \A i \in DOMAIN chain : chain'[i] = chain[i]
      /\ chain'[Len(chain) + 1] = j
  <2> HIDE DEF j
  <2>1. Grows(j)
    BY DEF j
  <2>2. QED
    BY <1>1, <2>1, GrowsDoes
<1>3. PICK n \in Nat : n = Len(chain) + 1
  BY <1>2
<1>4. n \in DOMAIN chain' /\ chain'[n] = j /\ \A i \in DOMAIN chain' : i < n \/ i = n
  BY <1>2, <1>3
<1>5. Reads(n, entry.gen)'
  BY <1>4 DEF Reads
<1>6. LoadsAreQueued'
  BY <1>4, <1>5 DEF LoadsAreQueued
<1>7. StaleCommitsAreAhead'
  <2>1. \A i \in DOMAIN chain' : chain'[i].op = "commit" => i < n
    BY <1>4 DEF Job
  <2>2. QED
    BY <2>1, <1>4, <1>5 DEF StaleCommitsAreAhead
<1>8. QED
  BY <1>6, <1>7

-----------------------------------------------------------------------------
(* What follows from the effect of a step.                                 *)

EntryOK ==
    /\ entry \in EntryT
    /\ entry.gen = 0 <=> entry.phase = "none"
    /\ entry.view = NoView <=> entry.phase \in {"none", "loading"}

\* An entry has an identity, and a source as soon as it is loaded.
LEMMA EffectTypesEntry ==
    ASSUME TypeOK, SettlersAreExact, NEW c \in Callers \cup {Nobody}, Effect(c)
    PROVE  EntryOK'
<1>1. EntryOK /\ stored \in Views /\ stored.length > 0
  BY DEF TypeOK, EntryOK, EntryT
<1>2. CASE Leaves(c) \/ Advances(c) \/ Waits(c)
  BY <1>1, <1>2 DEF Leaves, Advances, Waits, EntryOK
<1>3. CASE Drops(c)
  BY <1>3 DEF Drops, EntryOK, NoEntry, EntryT, NoView, Views
<1>4. CASE Readies(c)
  <2>1. entry.phase \in {"committing", "reserved"}
    BY <1>4 DEF Readies, SettlersAreExact
  <2>2. QED
    BY <2>1, <1>1, <1>4 DEF Readies, EntryOK, EntryT
<1>5. CASE Fills
  <2>1. entry'.gen = entry.gen /\ entry'.phase = "ready" /\ entry'.view = stored /\ entry' \in EntryT
    BY <1>1, <1>5 DEF Fills, EntryOK, EntryT
  <2>2. stored # NoView
    BY <1>1 DEF NoView, Views
  <2>3. QED
    BY <2>1, <2>2, <1>1, <1>5 DEF EntryOK, Fills
<1>6. CASE Starts(c)
  <2>1. Fresh \in Nat \ {0}
    BY FreshIsFresh DEF TypeOK, CallT, JobT, EntryT
  <2>2. QED
    BY <1>6, <2>1 DEF Starts, EntryOK, EntryT, NoView, Views
<1>7. CASE Takes(c) \/ Keeps(c)
  <2>1. CASE Takes(c)
    BY <2>1, <1>1 DEF Takes, EntryOK, EntryT
  <2>2. CASE Keeps(c)
    <3>1. entry.phase \in {"committing", "reserved"}
      BY <2>2 DEF Keeps, SettlersAreExact, Owns, Settling
    <3>2. QED
      BY <3>1, <2>2, <1>1 DEF Keeps, EntryOK, EntryT
  <2>3. QED
    BY <1>7, <2>1, <2>2
<1>8. QED
  BY <1>2, <1>3, <1>4, <1>5, <1>6, <1>7 DEF Effect

\* Whoever has the entry had it, or takes it.
LEMMA EffectOwns ==
    ASSUME TypeOK, SettlersAreExact, NEW c \in Callers \cup {Nobody}, Effect(c),
           NEW r \in Resumers, Owns(r)'
    PROVE  \/ Owns(r) /\ call'[r] = call[r]
           \/ r = c /\ (Advances(c) \/ Takes(c) \/ Keeps(c))
<1> USE DEF Others, OthersWoken, Spared, At, Mine, Held, Owns, Settling, Ended
<1>1. r \in Callers
  BY DEF Callers
<1>2. CASE Leaves(c)
  BY <1>1, <1>2 DEF Leaves, Withdraws
<1>3. CASE Advances(c)
  BY <1>1, <1>3 DEF Advances
<1>4. CASE Waits(c)
  BY <1>1, <1>4 DEF Waits
<1>5. CASE Drops(c)
  BY <1>5 DEF Drops, NoEntry
<1>6. CASE Readies(c)
  <2>1. entry'.phase = "ready" /\ entry'.gen = entry.gen
    BY <1>6 DEF Readies, TypeOK
  <2>2. QED
    BY <1>1, <1>6, <2>1 DEF Readies, SettlersAreExact, NoCall
<1>7. CASE c = Nobody /\ Fills
  <2>1. entry'.phase = "ready" /\ entry'.gen = entry.gen
    BY <1>7 DEF Fills, TypeOK
  <2>2. QED
    BY <1>1, <1>7, <2>1, CallersAreDistinct DEF Fills
<1>8. CASE Starts(c)
  <2>1. Mine(r) # Fresh
    BY <1>1, FreshIsFresh DEF TypeOK, CallT, JobT, EntryT
  <2>2. QED
    BY <1>1, <1>8, <2>1 DEF Starts
<1>9. CASE Takes(c)
  <2>1. entry'.phase = "committing" /\ entry'.gen = entry.gen
    BY <1>9 DEF Takes, TypeOK
  <2>2. QED
    BY <1>1, <1>9, <2>1 DEF Takes
<1>10. CASE Keeps(c)
  <2>1. entry'.phase = "reserved" /\ entry'.gen = entry.gen
    BY <1>10 DEF Keeps, TypeOK
  <2>2. QED
    BY <1>1, <1>10, <2>1 DEF Keeps
<1>11. QED
  BY <1>2, <1>3, <1>4, <1>5, <1>6, <1>7, <1>8, <1>9, <1>10 DEF Effect

\* A session in the store stays there.
LEMMA EffectKeepsLive ==
    ASSUME NEW c \in Callers \cup {Nobody}, Effect(c), NEW x \in Callers, At(x) = "live"
    PROVE  call'[x] = call[x]
<1>1. CASE x = c
  BY <1>1, CallersAreDistinct
  DEF Effect, Leaves, Advances, Waits, Drops, Readies, Starts, Takes, Keeps, Withdraws, At, Ended,
      Owns, Settling
<1>2. CASE x # c
  BY <1>2, EffectSpares
<1>3. QED
  BY <1>1, <1>2

\* Only Enter makes an entry, and only while no session is live.
LEMMA EffectKeepsCold ==
    ASSUME TypeOK, ColdOrLive, NEW c \in Callers \cup {Nobody}, Effect(c),
           UNCHANGED <<live, retiring>>, Starts(c) => live = Nobody,
           state'.owner = state.owner, Tracked => Tracked'
    PROVE  ColdOrLive'
<1>1. entry'.phase # "none" => entry.phase # "none" \/ Starts(c)
  BY DEF Effect, Leaves, Advances, Waits, Drops, Readies, Fills, Takes, Keeps, NoEntry, Owns, Held
<1>2. \A r \in Resumers : r \in {live, retiring} => call'[r].at = "live"
  BY EffectKeepsLive DEF ColdOrLive, Callers, At
<1>3. QED
  BY <1>1, <1>2 DEF ColdOrLive, At, Tracked

\* While an append runs no commit ends.
LEMMA EffectKeepsAlone ==
    ASSUME TypeOK, SettlersAreExact, AppendIsAlone, NEW c \in Callers \cup {Nobody}, Effect(c),
           Running("appending")' => Running("appending") /\ ~Advances(c)
    PROVE  AppendIsAlone'
<1> SUFFICES ASSUME Running("appending"), ~Advances(c), NEW r \in Resumers, Owns(r)'
             PROVE  At(r)' = "commit"
  BY DEF AppendIsAlone
<1>1. CASE Owns(r) /\ call'[r] = call[r]
  BY <1>1 DEF AppendIsAlone, At
<1>2. CASE r = c /\ Takes(c)
  BY <1>2 DEF Takes, At
<1>3. ~(r = c /\ Keeps(c))
  BY DEF Keeps, AppendIsAlone, Owns, Settling
<1>4. QED
  BY <1>1, <1>2, <1>3, EffectOwns

\* What was committed stays what is stored, unless it is written here, which
\* needs an entry that nobody has.
LEMMA EffectKeepsCommitted ==
    ASSUME TypeOK, ForeignOK, SettlersAreExact, CommittedIsExact,
           NEW c \in Callers \cup {Nobody}, Effect(c),
           Advances(c) => call'[c].at # "committed",
           \/ state'.cursor = state.cursor /\ state'.owner = state.owner /\ stored'.length - foreign' = stored.length - foreign
                 /\ stored'.length \in Nat /\ foreign' \in Nat
           \/ \A r \in Resumers : Owns(r) => At(r) \notin {"committed", "held"}
    PROVE  CommittedIsExact'
<1> SUFFICES ASSUME NEW r \in Resumers, Owns(r)', At(r)' \in {"committed", "held"}
             PROVE  /\ ~View(r).open' /\ View(r).length' = state.cursor'
                    /\ stored.length' = state.cursor' + foreign'
                    /\ Tracked' /\ state.owner' = Nobody
  BY DEF CommittedIsExact
<1>1. Owns(r) /\ At(r) \in {"committed", "held"} /\ View(r)' = View(r)
  <2>1. CASE Owns(r) /\ call'[r] = call[r]
    BY <2>1 DEF At, View
  <2>2. ~(r = c /\ Takes(c))
    BY DEF Takes, At
  <2>3. CASE r = c /\ Keeps(c)
    BY <2>3 DEF Keeps, Owns, Settling, At, View
  <2>4. ~(r = c /\ Advances(c))
    BY DEF Advances, At
  <2>5. QED
    BY <2>1, <2>2, <2>3, <2>4, EffectOwns
<1>2. stored.length \in Nat /\ foreign \in Nat /\ state.cursor \in Nat
  BY DEF TypeOK, Views, ForeignOK
<1>3. /\ ~View(r).open /\ View(r).length = state.cursor /\ stored.length = state.cursor + foreign
      /\ Tracked /\ state.owner = Nobody
  BY <1>1 DEF CommittedIsExact
<1>4. QED
  BY <1>1, <1>2, <1>3 DEF Tracked

\* An inspection that a check finds current is as fresh as what is stored.
LEMMA EffectKeepsFresh ==
    ASSUME TypeOK, ChecksAreFresh, NEW c \in Callers \cup {Nobody}, Effect(c),
           stored'.length \in Nat, stored'.length >= stored.length,
           c \in Inspectors =>
               /\ call'[c].since \in {0, call[c].since, stored.length}
               /\ call'[c].at = "current" =>
                     /\ call'[c].since = call[c].since /\ call'[c].view = View(c)
                     /\ View(c).length = stored.length
    PROVE  ChecksAreFresh'
<1> SUFFICES ASSUME NEW i \in Inspectors
             PROVE  /\ call'[i].since <= stored'.length
                    /\ call'[i].at = "current" => call'[i].since <= call'[i].view.length
  BY DEF ChecksAreFresh, At, View
<1>1. i \in Callers /\ call[i].since \in Nat /\ stored.length \in Nat /\ call[i].since <= stored.length
  BY DEF TypeOK, ChecksAreFresh, Callers, Views
<1>2. CASE i = c
  BY <1>1, <1>2 DEF View
<1>3. CASE i # c
  <2>1. call'[i].since \in {0, call[i].since}
    BY <1>1, <1>3
    DEF Effect, Leaves, Advances, Waits, Drops, Readies, Fills, Starts, Takes, Keeps, Others,
        OthersWoken, Spared
  <2>2. call'[i].at = "current" => call'[i] = call[i]
    BY <1>1, <1>3, EffectSpares
  <2>3. QED
    BY <1>1, <2>1, <2>2 DEF ChecksAreFresh, At, View
<1>4. QED
  BY <1>2, <1>3

\* A session that is live or retiring stays so for the operations it queued.
Stays(x) ==
    x \in Resumers =>
        /\ x \in {live, retiring} => x \in {live', retiring'}
        /\ x = retiring => x = retiring'

\* Operations of bystanders stay theirs.
LEMMA EffectKeepsOwners ==
    ASSUME JobsAreOwned, NEW c \in Callers \cup {Nobody}, Effect(c),
           \A i \in DOMAIN chain' :
               \/ OwnerOf(chain[i])'
               \/ \E m \in DOMAIN chain : /\ chain'[i] = chain[m] /\ (chain[m].by = c => c = Nobody)
                                          /\ Stays(chain[m].by)
    PROVE  JobsAreOwned'
<1> SUFFICES ASSUME NEW i \in DOMAIN chain', NEW m \in DOMAIN chain,
                    chain'[i] = chain[m], chain[m].by = c => c = Nobody, Stays(chain[m].by)
             PROVE  OwnerOf(chain[i])'
  BY DEF JobsAreOwned
<1>1. PICK j : j = chain[m]
  OBVIOUS
<1>2. OwnerOf(j) /\ chain'[i] = j /\ (j.by = c => c = Nobody) /\ Stays(j.by)
  BY <1>1 DEF JobsAreOwned
<1>3. ASSUME j.by \in Callers, At(j.by) \in {"commit", "check"}
      PROVE  call'[j.by] = call[j.by]
  BY <1>2, <1>3, EffectSpares, CallersAreDistinct
<1>4. OwnerOf(j)'
  BY <1>2, <1>3 DEF OwnerOf, Stays, At, Callers
<1>5. QED
  BY <1>2, <1>4

\* A caller that does not wait in the chain has nothing in it.
LEMMA NoJobs ==
    ASSUME JobsAreOwned, ColdOrLive, NEW c \in Callers, At(c) \notin {"commit", "check", "live"}
    PROVE  \A i \in DOMAIN chain : chain[i].by # c
BY CallersAreDistinct DEF JobsAreOwned, OwnerOf, ColdOrLive, Callers

\* When the first operation ends, no append runs.
LEMMA NoAppendAfterEnd ==
    ASSUME chain \in Seq(JobT), AppendingIsFirst, Cuts(1)
    PROVE  ~Running("appending")'
<1>1. /\ Len(chain) \in Nat \ {0} /\ DOMAIN chain = 1..Len(chain) /\ DOMAIN chain' = 1..(Len(chain) - 1)
      /\ \A i \in DOMAIN chain' : (i < 1 /\ chain'[i] = chain[i]) \/ (i >= 1 /\ chain'[i] = chain[i + 1])
      /\ chain' \in Seq(JobT)
  BY CutsDoes
<1>2. SUFFICES ASSUME chain' # <<>>  PROVE Head(chain').op # "appending"
  BY DEF Running
<1>3. 1 \in DOMAIN chain' /\ Head(chain') = chain'[1]
  BY <1>1, <1>2
<1>4. 2 \in DOMAIN chain /\ chain'[1] = chain[2]
  BY <1>1, <1>3
<1>5. QED
  BY <1>3, <1>4 DEF AppendingIsFirst

-----------------------------------------------------------------------------
(* Steps of one kind.                                                      *)

StateT == [cursor : Nat, owner : Resumers \cup {Nobody}]

\* What every step keeps, given the types of what it writes.
LEMMA StepTypes ==
    ASSUME Inv, NEW c \in Callers \cup {Nobody}, Effect(c),
           call' \in [Callers -> CallT], chain' \in Seq(JobT),
           stored' \in Views, stored'.length > 0, state' \in StateT,
           {live', retiring'} \subseteq Resumers \cup {Nobody}, unsaved' \subseteq Resumers,
           foreign' \in Nat
    PROVE  TypeOK' /\ ForeignOK' /\ KindsAreApart' /\ SettlersAreExact'
<1>1. EntryOK'
  BY EffectTypesEntry DEF Inv
<1>2. TypeOK' /\ ForeignOK'
  BY <1>1 DEF TypeOK, ForeignOK, EntryOK, EntryT, CallT, JobT, StateT
<1>3. QED
  BY <1>2, EffectKeeps DEF Inv

\* Whoever's commit is queued keeps its entry.
LEMMA ClaimsStay ==
    ASSUME JobsAreOwned', NEW c \in Callers \cup {Nobody}, Effect(c)
    PROVE  SameClaims
<1> SUFFICES ASSUME NEW i \in DOMAIN chain', chain'[i].op = "commit"
             PROVE  call'[chain'[i].by].mine = Mine(chain'[i].by)
  BY DEF SameClaims
<1>1. chain'[i].by \in Resumers /\ call'[chain'[i].by].at = "commit"
  BY DEF JobsAreOwned, OwnerOf, At
<1>2. CASE chain'[i].by # c
  BY <1>1, <1>2, EffectSpares DEF Callers, Mine
<1>3. CASE chain'[i].by = c
  BY <1>1, <1>3, CallersAreDistinct
  DEF Effect, Leaves, Advances, Waits, Drops, Readies, Starts, Takes, Keeps, Withdraws, NoCall,
      Ended, Callers
<1>4. QED
  BY <1>2, <1>3

\* The entry stays the current one unless it is dropped, started or filled.
LEMMA EntryStays ==
    ASSUME TypeOK, SettlersAreExact, NEW c \in Callers \cup {Nobody}, Effect(c),
           ~Drops(c), ~Starts(c), ~(c = Nobody /\ Fills)
    PROVE  SameEntry
<1>1. entry \in EntryT
  BY DEF TypeOK, EntryT
<1>2. CASE Leaves(c) \/ Advances(c) \/ Waits(c)
  BY <1>2 DEF SameEntry, Leaves, Advances, Waits
<1>3. CASE Readies(c)
  <2>1. entry.phase \in {"committing", "reserved"}
    BY <1>3 DEF Readies, SettlersAreExact
  <2>2. QED
    BY <1>1, <1>3, <2>1 DEF SameEntry, Readies, EntryT
<1>4. CASE Takes(c)
  BY <1>1, <1>4 DEF SameEntry, Takes, EntryT
<1>5. CASE Keeps(c)
  <2>1. entry.phase \in {"committing", "reserved"}
    BY <1>5 DEF Keeps, SettlersAreExact, Owns, Settling
  <2>2. QED
    BY <1>1, <1>5, <2>1 DEF SameEntry, Keeps, EntryT
<1>6. QED
  BY <1>2, <1>3, <1>4, <1>5 DEF Effect

\* What an inspection that takes a step knows.
Informed(c) ==
    c \in Inspectors =>
        /\ call'[c].since \in {0, call[c].since, stored.length}
        /\ call'[c].at = "current" =>
              /\ call'[c].since = call[c].since /\ call'[c].view = View(c)
              /\ View(c).length = stored.length

Resting ==
    /\ UNCHANGED <<state, live, retiring>> /\ unsaved' \subseteq Resumers
    /\ \/ UNCHANGED <<stored, foreign>>
       \/ stored' \in Views /\ stored'.length = stored.length + 1 /\ foreign' = foreign + 1

\* A foreign write moves the log and its history together.
LEMMA RestingTypes ==
    ASSUME TypeOK, ForeignOK, Resting
    PROVE  /\ stored' \in Views /\ stored'.length > 0 /\ state' \in StateT
           /\ {live', retiring'} \subseteq Resumers \cup {Nobody} /\ unsaved' \subseteq Resumers
           /\ foreign' \in Nat /\ stored.length \in Nat /\ stored'.length \in Nat
           /\ stored'.length >= stored.length
           /\ stored'.length - foreign' = stored.length - foreign
<1>1. /\ stored.length \in Nat /\ stored.length > 0 /\ foreign \in Nat /\ stored \in Views
      /\ state \in StateT /\ {live, retiring} \subseteq Resumers \cup {Nobody}
  BY DEF TypeOK, ForeignOK, Views, StateT
<1>2. CASE UNCHANGED <<stored, foreign>>
  BY <1>1, <1>2 DEF Resting
<1>3. CASE stored' \in Views /\ stored'.length = stored.length + 1 /\ foreign' = foreign + 1
  BY <1>1, <1>3 DEF Resting
<1>4. QED
  BY <1>2, <1>3 DEF Resting

\* A step that touches neither the chain nor the log, unless a foreign write does.
LEMMA CallStep ==
    ASSUME Inv, NEW c \in Callers \cup {Nobody}, Effect(c), Resting, Informed(c),
           call' \in [Callers -> CallT], chain' = chain,
           \A m \in DOMAIN chain : chain[m].by = c => c = Nobody,
           ~Advances(c), ~Starts(c), ~(c = Nobody /\ Fills)
    PROVE  Inv'
<1> USE DEF Inv
<1>r. /\ stored' \in Views /\ stored'.length > 0 /\ state' \in StateT
      /\ {live', retiring'} \subseteq Resumers \cup {Nobody} /\ unsaved' \subseteq Resumers
      /\ foreign' \in Nat /\ stored.length \in Nat /\ stored'.length \in Nat
      /\ stored'.length >= stored.length
      /\ stored'.length - foreign' = stored.length - foreign
  BY RestingTypes
<1>1. TypeOK' /\ ForeignOK' /\ KindsAreApart' /\ SettlersAreExact'
  BY <1>r, StepTypes DEF TypeOK, JobT
<1>2. ColdOrLive'
  BY EffectKeepsCold DEF Resting, Tracked
<1>3. JobsAreDistinct' /\ AppendingIsFirst'
  BY DEF JobsAreDistinct, AppendingIsFirst
<1>4. JobsAreOwned'
  <2>1. \A m \in DOMAIN chain : Stays(chain[m].by)
    BY DEF Stays, Resting
  <2>2. QED
    BY <2>1, EffectKeepsOwners
<1>5. LoadsAreQueued' /\ StaleCommitsAreAhead'
  <2>1. CASE Drops(c)
    BY <2>1, DroppedHasNoReads DEF Drops
  <2>2. CASE ~Drops(c)
    BY <2>2, <1>4, EntryStays, ClaimsStay, ChainKeepsReads
  <2>3. QED
    BY <2>1, <2>2
<1>6. AppendIsAlone'
  BY EffectKeepsAlone DEF Running
<1>7. CommittedIsExact'
  BY <1>r, EffectKeepsCommitted DEF Resting
<1>8. ChecksAreFresh'
  BY <1>r, EffectKeepsFresh DEF Informed
<1>9. QED
  BY <1>1, <1>2, <1>3, <1>4, <1>5, <1>6, <1>7, <1>8

\* A step that queues an operation.
LEMMA GrowStep ==
    ASSUME Inv, NEW c \in Callers \cup {Nobody}, Effect(c), Resting, Informed(c),
           call' \in [Callers -> CallT], NEW j \in JobT, Grows(j), OwnerOf(j)',
           \A m \in DOMAIN chain : chain[m].by = c => c = Nobody,
           j.by # Nobody => \A m \in DOMAIN chain : chain[m].by # j.by,
           j.op \notin {"load", "appending"}, j.op = "commit" => Held(Mine(j.by)),
           ~Advances(c), ~Starts(c), ~(c = Nobody /\ Fills), ~Drops(c)
    PROVE  Inv'
<1> USE DEF Inv
<1>0. chain \in Seq(JobT)
  BY DEF TypeOK, JobT
<1>a. /\ chain' \in Seq(JobT) /\ Len(chain) \in Nat
      /\ DOMAIN chain = 1..Len(chain) /\ DOMAIN chain' = 1..(Len(chain) + 1)
      /\ \A i \in DOMAIN chain : chain'[i] = chain[i]
      /\ chain'[Len(chain) + 1] = j
      /\ Running("appending")' <=> Running("appending")
  BY <1>0, GrowsDoes DEF Ops
<1>r. /\ stored' \in Views /\ stored'.length > 0 /\ state' \in StateT
      /\ {live', retiring'} \subseteq Resumers \cup {Nobody} /\ unsaved' \subseteq Resumers
      /\ foreign' \in Nat /\ stored.length \in Nat /\ stored'.length \in Nat
      /\ stored'.length >= stored.length
      /\ stored'.length - foreign' = stored.length - foreign
  BY RestingTypes
<1>1. TypeOK' /\ ForeignOK' /\ KindsAreApart' /\ SettlersAreExact'
  BY <1>r, <1>a, StepTypes
<1>2. ColdOrLive'
  BY EffectKeepsCold DEF Resting, Tracked
<1>3. JobsAreDistinct' /\ AppendingIsFirst'
  BY <1>0, GrowsKeepsOrder
<1>4. JobsAreOwned'
  <2>1. \A m \in DOMAIN chain : Stays(chain[m].by)
    BY DEF Stays, Resting
  <2>2. ASSUME NEW i \in DOMAIN chain'
        PROVE  \/ OwnerOf(chain[i])'
               \/ \E m \in DOMAIN chain : /\ chain'[i] = chain[m] /\ (chain[m].by = c => c = Nobody)
                                          /\ Stays(chain[m].by)
    <3>1. CASE i = Len(chain) + 1
      BY <3>1, <1>a
    <3>2. CASE i # Len(chain) + 1
      BY <3>2, <1>a, <2>1
    <3>3. QED
      BY <3>1, <3>2
  <2>3. QED
    BY <2>2, EffectKeepsOwners
<1>5. LoadsAreQueued' /\ StaleCommitsAreAhead'
  BY <1>0, <1>4, EntryStays, ClaimsStay, GrowsKeepsReads
<1>6. AppendIsAlone'
  BY <1>a, EffectKeepsAlone
<1>7. CommittedIsExact'
  BY <1>r, EffectKeepsCommitted DEF Resting
<1>8. ChecksAreFresh'
  BY <1>r, EffectKeepsFresh DEF Informed
<1>9. QED
  BY <1>1, <1>2, <1>3, <1>4, <1>5, <1>6, <1>7, <1>8

\* What is left of the chain when c's operation is taken out.
LEMMA CutKeepsChain ==
    ASSUME Inv, NEW c \in Callers \cup {Nobody}, Effect(c), NEW k, Cuts(k),
           c # Nobody => chain[k].by = c,
           \A m \in DOMAIN chain : m # k => Stays(chain[m].by),
           \/ entry' = NoEntry
           \/ Fills /\ k = 1 /\ Reads(1, entry.gen)
           \/ SameEntry /\ (entry.phase # "none" => ~Reads(k, entry.gen))
    PROVE  /\ JobsAreDistinct' /\ AppendingIsFirst' /\ JobsAreOwned'
           /\ LoadsAreQueued' /\ StaleCommitsAreAhead'
           /\ Running("appending")' => Running("appending") /\ k # 1
<1> USE DEF Inv
<1>0. chain \in Seq(JobT)
  BY DEF TypeOK, JobT
<1>a. /\ DOMAIN chain = 1..Len(chain) /\ DOMAIN chain' = 1..(Len(chain) - 1) /\ Len(chain) \in Nat
      /\ k \in 1..Len(chain)
      /\ \A i \in DOMAIN chain' : (i < k /\ chain'[i] = chain[i]) \/ (i >= k /\ chain'[i] = chain[i + 1])
      /\ k # 1 => \A op \in Ops : Running(op)' <=> Running(op)
  BY <1>0, CutsDoes
<1>1. JobsAreDistinct' /\ AppendingIsFirst'
  BY <1>0, CutsKeepsOrder
<1>2. JobsAreOwned'
  <2>1. \A m \in DOMAIN chain : m # k => (chain[m].by = c => c = Nobody)
    BY <1>a DEF JobsAreDistinct
  <2>2. \A i \in DOMAIN chain' : \E m \in DOMAIN chain : m # k /\ chain'[i] = chain[m]
    BY <1>a
  <2>3. \A i \in DOMAIN chain' : \E m \in DOMAIN chain :
           chain'[i] = chain[m] /\ (chain[m].by = c => c = Nobody) /\ Stays(chain[m].by)
    BY <2>1, <2>2
  <2>4. QED
    BY <2>3, EffectKeepsOwners
<1>3. LoadsAreQueued' /\ StaleCommitsAreAhead'
  <2>1. SameClaims
    BY <1>2, ClaimsStay
  <2>2. CASE entry' = NoEntry
    BY <2>2, DroppedHasNoReads
  <2>3. CASE Fills /\ k = 1 /\ Reads(1, entry.gen)
    <3>1. entry.phase = "loading" /\ entry'.gen = entry.gen /\ entry'.phase = "ready"
      BY <2>3 DEF Fills, TypeOK
    <3>2. QED
      BY <3>1, <2>1, <2>3, <1>0, ReadEnds
  <2>4. CASE SameEntry /\ (entry.phase # "none" => ~Reads(k, entry.gen))
    BY <2>1, <2>4, <1>0, CutsKeepsReads
  <2>5. QED
    BY <2>2, <2>3, <2>4
<1>4. Running("appending")' => Running("appending") /\ k # 1
  BY <1>0, <1>a, NoAppendAfterEnd DEF Ops
<1>5. QED
  BY <1>1, <1>2, <1>3, <1>4

\* A step that takes an operation out and leaves the log alone.
LEMMA CutStep ==
    ASSUME Inv, NEW c \in Callers \cup {Nobody}, Effect(c), Resting, Informed(c),
           call' \in [Callers -> CallT], NEW k, Cuts(k),
           c # Nobody => chain[k].by = c,
           \/ entry' = NoEntry
           \/ Fills /\ k = 1 /\ Reads(1, entry.gen)
           \/ SameEntry /\ (entry.phase # "none" => ~Reads(k, entry.gen)),
           ~Starts(c), Advances(c) => k = 1 /\ call'[c].at # "committed"
    PROVE  Inv'
<1> USE DEF Inv
<1>0. chain' \in Seq(JobT)
  BY DEF Cuts
<1>r. /\ stored' \in Views /\ stored'.length > 0 /\ state' \in StateT
      /\ {live', retiring'} \subseteq Resumers \cup {Nobody} /\ unsaved' \subseteq Resumers
      /\ foreign' \in Nat /\ stored.length \in Nat /\ stored'.length \in Nat
      /\ stored'.length >= stored.length
      /\ stored'.length - foreign' = stored.length - foreign
  BY RestingTypes
<1>1. TypeOK' /\ ForeignOK' /\ KindsAreApart' /\ SettlersAreExact'
  BY <1>r, <1>0, StepTypes
<1>2. ColdOrLive'
  BY EffectKeepsCold DEF Resting, Tracked
<1>3. \A m \in DOMAIN chain : Stays(chain[m].by)
  BY DEF Stays, Resting
<1>4. /\ JobsAreDistinct' /\ AppendingIsFirst' /\ JobsAreOwned'
      /\ LoadsAreQueued' /\ StaleCommitsAreAhead'
      /\ Running("appending")' => Running("appending") /\ k # 1
  BY <1>3, CutKeepsChain
<1>6. AppendIsAlone'
  BY <1>4, EffectKeepsAlone
<1>7. CommittedIsExact'
  BY <1>r, EffectKeepsCommitted DEF Resting
<1>8. ChecksAreFresh'
  BY <1>r, EffectKeepsFresh DEF Informed
<1>9. QED
  BY <1>1, <1>2, <1>4, <1>6, <1>7, <1>8

-----------------------------------------------------------------------------
(* remove and makeReady.                                                   *)

Quits == {"head"} \cup Ended

\* remove after a call's end: its entry is dropped and its waiters go on, or nothing
\* happens to an entry that is no longer the current one.
LEMMA RemoveDoes ==
    ASSUME call \in [Callers -> CallT], NEW c \in Callers, NEW how \in Quits,
           Remove(Mine(c), End(c, how))
    PROVE  /\ call' \in [Callers -> CallT] /\ call'[c] = NoCall(how)
           /\ Held(Mine(c)) => entry' = NoEntry /\ OthersWoken(c)
           /\ ~Held(Mine(c)) => entry' = entry /\ Others(c)
<1>1. how \in Places /\ how # "settled"
  BY DEF Quits, Ended, Places
<1>2. /\ End(c, how) \in [Callers -> CallT] /\ End(c, how)[c] = NoCall(how)
      /\ \A x \in Callers \ {c} : End(c, how)[x] = call[x]
  BY <1>1, EndDoes
<1>3. CASE ~Held(Mine(c))
  BY <1>2, <1>3 DEF Remove, Others, Spared
<1>4. CASE Held(Mine(c))
  <2>1. entry' = NoEntry /\ call' = Woken(End(c, how), entry.gen)
    BY <1>4 DEF Remove, Held
  <2>2. /\ call' \in [Callers -> CallT]
        /\ \A x \in Callers :
              /\ call'[x].mine = End(c, how)[x].mine
              /\ call'[x].view = End(c, how)[x].view
              /\ call'[x].since = End(c, how)[x].since
              /\ IF End(c, how)[x].at = "settled" /\ End(c, how)[x].mine = entry.gen
                 THEN call'[x].at = "woken"
                 ELSE call'[x] = End(c, how)[x]
    BY <1>2, <2>1, WokenDoes
  <2>3. call'[c] = NoCall(how)
    BY <1>1, <1>2, <2>2 DEF NoCall
  <2>4. OthersWoken(c)
    BY <1>2, <2>2 DEF OthersWoken, Spared, At, Mine, View
  <2>5. QED
    BY <1>4, <2>1, <2>2, <2>3, <2>4
<1>5. QED
  BY <1>3, <1>4

\* invalidate: the current entry is dropped, if there is one.
LEMMA InvalidateDoes ==
    ASSUME call \in [Callers -> CallT], Remove(entry.gen, call)
    PROVE  /\ call' \in [Callers -> CallT]
           /\ entry.phase # "none" => entry' = NoEntry /\ OthersWoken(Nobody)
           /\ entry.phase = "none" => entry' = entry /\ call' = call
<1>1. CASE entry.phase = "none"
  BY <1>1 DEF Remove, Held
<1>2. CASE entry.phase # "none"
  <2>1. entry' = NoEntry /\ call' = Woken(call, entry.gen)
    BY <1>2 DEF Remove, Held
  <2>2. /\ call' \in [Callers -> CallT]
        /\ \A x \in Callers :
              /\ call'[x].mine = call[x].mine
              /\ call'[x].view = call[x].view
              /\ call'[x].since = call[x].since
              /\ IF call[x].at = "settled" /\ call[x].mine = entry.gen
                 THEN call'[x].at = "woken"
                 ELSE call'[x] = call[x]
    BY <2>1, WokenDoes
  <2>3. OthersWoken(Nobody)
    BY <2>2 DEF OthersWoken, Spared, At, Mine, View
  <2>4. QED
    BY <1>2, <2>1, <2>2, <2>3
<1>3. QED
  BY <1>1, <1>2

\* makeReady after a call's end: the entry is ready and its waiters go on.
LEMMA MakeReadyDoes ==
    ASSUME call \in [Callers -> CallT], NEW c \in Callers, NEW how \in Quits,
           MakeReady(Mine(c), End(c, how))
    PROVE  /\ call' \in [Callers -> CallT] /\ call'[c] = NoCall(how)
           /\ Held(Mine(c)) => entry' = [entry EXCEPT !.phase = "ready"] /\ OthersWoken(c)
           /\ ~Held(Mine(c)) => entry' = entry /\ Others(c)
<1>1. how \in Places /\ how # "settled"
  BY DEF Quits, Ended, Places
<1>2. /\ End(c, how) \in [Callers -> CallT] /\ End(c, how)[c] = NoCall(how)
      /\ \A x \in Callers \ {c} : End(c, how)[x] = call[x]
  BY <1>1, EndDoes
<1>3. CASE ~Held(Mine(c))
  BY <1>2, <1>3 DEF MakeReady, Others, Spared
<1>4. CASE Held(Mine(c))
  <2>1. entry' = [entry EXCEPT !.phase = "ready"] /\ call' = Woken(End(c, how), entry.gen)
    BY <1>4 DEF MakeReady, Held
  <2>2. /\ call' \in [Callers -> CallT]
        /\ \A x \in Callers :
              /\ call'[x].mine = End(c, how)[x].mine
              /\ call'[x].view = End(c, how)[x].view
              /\ call'[x].since = End(c, how)[x].since
              /\ IF End(c, how)[x].at = "settled" /\ End(c, how)[x].mine = entry.gen
                 THEN call'[x].at = "woken"
                 ELSE call'[x] = End(c, how)[x]
    BY <1>2, <2>1, WokenDoes
  <2>3. call'[c] = NoCall(how)
    BY <1>1, <1>2, <2>2 DEF NoCall
  <2>4. OthersWoken(c)
    BY <1>2, <2>2 DEF OthersWoken, Spared, At, Mine, View
  <2>5. QED
    BY <1>4, <2>1, <2>2, <2>3, <2>4
<1>5. QED
  BY <1>3, <1>4

\* A call that ends leaves the entry to the others, or drops its own or a ready
\* one.
LEMMA QuitsOrDrops ==
    ASSUME Inv, NEW c \in Callers, NEW how \in Quits, Remove(Mine(c), End(c, how)),
           At(c) \notin Ended,
           c \in Resumers => At(c) \in Settling,
           c \in Inspectors => entry.phase = "ready"
    PROVE  /\ Leaves(c) \/ Drops(c)
           /\ call' \in [Callers -> CallT] /\ call'[c] = NoCall(how)
           /\ Informed(c) /\ ~Advances(c) /\ ~Starts(c)
<1> USE DEF Inv
<1>1. /\ call' \in [Callers -> CallT] /\ call'[c] = NoCall(how)
      /\ Held(Mine(c)) => entry' = NoEntry /\ OthersWoken(c)
      /\ ~Held(Mine(c)) => entry' = entry /\ Others(c)
  BY RemoveDoes DEF TypeOK, CallT
<1>2. Withdraws(c)
  BY <1>1 DEF Withdraws, Quits, NoCall, Ended
<1>3. Informed(c) /\ ~Advances(c) /\ ~Starts(c)
  BY <1>1 DEF Informed, Advances, Starts, NoCall, Quits, Ended
<1>4. CASE ~Held(Mine(c))
  BY <1>1, <1>2, <1>3, <1>4 DEF Leaves, Owns
<1>5. CASE Held(Mine(c))
  <2>1. \A r \in Resumers \ {c} : At(r) # "held"
    BY <1>5, CallersAreDistinct DEF SettlersAreExact, Owns, Settling, Callers
  <2>2. QED
    BY <1>1, <1>2, <1>3, <1>5, <2>1 DEF Drops, Held
<1>6. QED
  BY <1>4, <1>5

\* A call that ends without touching the entry.
LEMMA QuitsDoes ==
    ASSUME Inv, NEW c \in Callers, NEW how \in Quits, call' = End(c, how), entry' = entry,
           At(c) \notin Ended, c \in Resumers => ~Owns(c)
    PROVE  /\ Leaves(c) /\ call' \in [Callers -> CallT] /\ call'[c] = NoCall(how)
           /\ Informed(c) /\ ~Advances(c) /\ ~Starts(c)
<1> USE DEF Inv
<1>1. how \in Places
  BY DEF Quits, Ended, Places
<1>2. /\ call' \in [Callers -> CallT] /\ call'[c] = NoCall(how)
      /\ \A x \in Callers \ {c} : call'[x] = call[x]
  <2>1. call \in [Callers -> CallT]
    BY DEF TypeOK, CallT
  <2> HIDE DEF Inv
  <2>2. QED
    BY <1>1, <2>1, EndDoes
<1>3. Leaves(c)
  BY <1>2 DEF Leaves, Others, Spared, Withdraws, Quits, NoCall, Ended
<1>4. QED
  BY <1>2, <1>3 DEF Informed, Advances, Starts, NoCall, Quits, Ended

-----------------------------------------------------------------------------
(* One step per action: calls and entries.                                 *)

\* A call that a live session answers had no entry.
LEMMA AnswerFromLiveKeeps == ASSUME Inv, NEW c \in Callers, AnswerFromLive(c)  PROVE Inv'
<1> USE DEF Inv
<1>1. At(c) \in {"waited", "current", "outdated"} /\ call' = End(c, "live-answer")
      /\ UNCHANGED <<stored, entry, state, chain, live, retiring, unsaved, foreign>>
  BY DEF AnswerFromLive, sessions
<1>2. "live-answer" \in Quits /\ At(c) \notin Ended /\ ~Owns(c)
  BY <1>1 DEF Quits, Ended, Owns, Settling
<1>3. /\ Leaves(c) /\ call' \in [Callers -> CallT]
      /\ Informed(c) /\ ~Advances(c) /\ ~Starts(c)
  BY <1>1, <1>2, QuitsDoes
<1>4. \A m \in DOMAIN chain : chain[m].by # c
  BY <1>1, NoJobs
<1>5. Resting
  BY <1>1 DEF Resting, TypeOK
<1>6. QED
  BY <1>1, <1>3, <1>4, <1>5, CallStep, CallersAreDistinct DEF Effect

\* A call that has waited for a retirement has no entry yet.
LEMMA WaitForRetirementKeeps == ASSUME Inv, NEW c \in Callers, WaitForRetirement(c)  PROVE Inv'
<1> USE DEF Inv
<1>1. At(c) = "head" /\ call' = Go(c, "waited")
      /\ UNCHANGED <<stored, entry, state, chain, live, retiring, unsaved, foreign>>
  BY DEF WaitForRetirement, sessions
<1>2. /\ call' \in [Callers -> CallT] /\ call'[c].at = "waited" /\ call'[c].since = call[c].since
      /\ Others(c)
  BY <1>1, GoDoes DEF TypeOK, CallT, Places, Others, Spared
<1>3. Leaves(c) /\ Informed(c) /\ ~Advances(c) /\ ~Starts(c)
  BY <1>1, <1>2 DEF Leaves, Withdraws, Owns, Settling, Ended, Informed, Advances, Starts
<1>4. \A m \in DOMAIN chain : chain[m].by # c
  BY <1>1, NoJobs
<1>5. Resting
  BY <1>1 DEF Resting, TypeOK
<1>6. QED
  BY <1>1, <1>2, <1>3, <1>4, <1>5, CallStep, CallersAreDistinct DEF Effect

\* A new entry starts with its read queued, a shared one is not touched.
LEMMA EnterKeeps == ASSUME Inv, NEW c \in Callers, Enter(c)  PROVE Inv'
<1> USE DEF Inv
<1> DEFINE g == IF entry.phase # "none" THEN entry.gen ELSE Fresh
           x == [at |-> "result", mine |-> g,
                 view |-> IF c \in Inspectors THEN entry.view ELSE NoView,
                 since |-> IF c \in Inspectors THEN stored.length ELSE 0]
<1>1. /\ At(c) = "waited" /\ live = Nobody
      /\ call' = [call EXCEPT ![c] = x]
      /\ UNCHANGED <<stored, state, live, retiring, unsaved, foreign>>
  BY DEF Enter, sessions
<1>2. entry.gen \in Nat /\ Fresh \in Nat \ {0} /\ entry.view \in Views /\ stored.length \in Nat
  BY FreshIsFresh DEF TypeOK, CallT, JobT, Views
<1>3. x \in CallT
  BY <1>2 DEF CallT, Places, NoView, Views
<1>4. call' \in [Callers -> CallT] /\ call'[c] = x /\ Others(c)
  BY <1>1, <1>3 DEF TypeOK, CallT, Others, Spared
<1>5. Informed(c) /\ ~Advances(c)
  BY <1>4 DEF Informed, Advances
<1>6. \A m \in DOMAIN chain : chain[m].by # c
  BY <1>1, NoJobs
<1>7. Resting
  BY <1>1 DEF Resting, TypeOK
<1>8. CASE entry.phase # "none"
  <2>1. entry' = entry /\ chain' = chain
    BY <1>8 DEF Enter
  <2>2. Leaves(c) /\ ~Starts(c)
    BY <1>1, <1>4, <1>8, <2>1 DEF Leaves, Withdraws, Owns, Settling, Ended, Starts
  <2>3. QED
    BY <1>4, <1>5, <1>6, <1>7, <2>1, <2>2, CallStep, CallersAreDistinct DEF Effect
<1>9. CASE entry.phase = "none"
  <2>1. /\ entry' = [gen |-> Fresh, phase |-> "loading", view |-> NoView]
        /\ chain' = Append(chain, Job("load", Nobody, Fresh))
    BY <1>9 DEF Enter
  <2>2. Starts(c)
    BY <1>1, <1>4, <1>9, <2>1 DEF Starts
  <2>3. Job("load", Nobody, Fresh) \in JobT
    BY <1>2 DEF Job, JobT, Ops
  <2>4. PICK j \in JobT : j = Job("load", Nobody, Fresh)
    BY <2>3
  <2>5. j.op = "load" /\ j.by = Nobody /\ j.gen = Fresh
    BY <2>4 DEF Job
  <2>6. Grows(j)
    BY <2>1, <2>4 DEF Grows
  <2>7. \A i \in DOMAIN chain : chain[i].gen # j.gen
    BY <2>5, FreshIsFresh DEF TypeOK, CallT, JobT
  <2>8. chain \in Seq(JobT)
    BY DEF TypeOK, JobT
  <2>9. /\ chain' \in Seq(JobT) /\ Len(chain) \in Nat
        /\ DOMAIN chain = 1..Len(chain) /\ DOMAIN chain' = 1..(Len(chain) + 1)
        /\ \A i \in DOMAIN chain : chain'[i] = chain[i]
        /\ chain'[Len(chain) + 1] = j
        /\ Running("appending")' <=> Running("appending")
    BY <2>5, <2>6, <2>8, GrowsDoes DEF Ops
  <2>10. Effect(c)
    BY <2>2 DEF Effect
  <2>11. TypeOK' /\ ForeignOK' /\ KindsAreApart' /\ SettlersAreExact'
    BY <1>4, <1>7, <2>9, <2>10, RestingTypes, StepTypes
  <2>12. ColdOrLive'
    BY <1>1, <2>10, EffectKeepsCold DEF Tracked
  <2>13. JobsAreDistinct' /\ AppendingIsFirst'
    BY <2>5, <2>6, <2>7, <2>8, GrowsKeepsOrder
  <2>14. JobsAreOwned'
    <3>1. \A m \in DOMAIN chain : Stays(chain[m].by)
      BY <1>1 DEF Stays
    <3>2. OwnerOf(j)'
      BY <2>5 DEF OwnerOf
    <3>3. ASSUME NEW i \in DOMAIN chain'
          PROVE  \/ OwnerOf(chain[i])'
                 \/ \E m \in DOMAIN chain : /\ chain'[i] = chain[m] /\ (chain[m].by = c => c = Nobody)
                                            /\ Stays(chain[m].by)
      <4>1. CASE i = Len(chain) + 1
        BY <4>1, <2>9, <3>2
      <4>2. CASE i # Len(chain) + 1
        BY <4>2, <2>9, <3>1, <1>6
      <4>3. QED
        BY <4>1, <4>2
    <3>4. QED
      BY <2>10, <3>3, EffectKeepsOwners
  <2>15. LoadsAreQueued' /\ StaleCommitsAreAhead'
    <3>1. Grows(Job("load", Nobody, j.gen)) /\ j.gen \in Nat
      BY <2>4, <2>5, <2>6, <1>2
    <3>2. entry'.gen = j.gen /\ entry'.phase = "loading"
      BY <2>1, <2>5
    <3>3. QED
      BY <2>7, <2>8, <3>1, <3>2, ReadStarts
  <2>16. AppendIsAlone'
    BY <1>5, <2>9, <2>10, EffectKeepsAlone
  <2>17. CommittedIsExact' /\ ChecksAreFresh'
    BY <1>5, <1>7, <2>10, RestingTypes, EffectKeepsCommitted, EffectKeepsFresh DEF Resting, Informed
  <2>18. QED
    BY <2>11, <2>12, <2>13, <2>14, <2>15, <2>16, <2>17
<1>10. QED
  BY <1>8, <1>9

\* A caller whose entry's read is over finds the entry loaded, or gone.
LEMMA LoadedIsOver ==
    ASSUME LoadsAreQueued, NEW c \in Callers, Loaded(c), Held(Mine(c))
    PROVE  entry.phase # "loading"
BY DEF Loaded, LoadsAreQueued, Reads, Held

\* A resume starts again, waits, or takes a ready entry with its commit queued.
LEMMA ReserveKeeps == ASSUME Inv, NEW r \in Resumers, Reserve(r)  PROVE Inv'
<1> USE DEF Inv
<1>1. /\ At(r) \in {"result", "woken"} /\ r \in Callers
      /\ UNCHANGED <<stored, state, live, retiring, unsaved, foreign>>
  BY DEF Reserve, Loaded, sessions, Callers
<1>2. Resting
  BY <1>1 DEF Resting, TypeOK
<1>3. \A m \in DOMAIN chain : chain[m].by # r
  BY <1>1, NoJobs
<1>4. ~Owns(r) /\ At(r) \notin Ended /\ r \notin Inspectors /\ r # Nobody
  BY <1>1, CallersAreDistinct DEF Owns, Settling, Ended, Callers
<1>5. CASE ~Held(Mine(r)) /\ call' = End(r, "head") /\ UNCHANGED <<entry, chain>>
  <2>1. /\ Leaves(r) /\ call' \in [Callers -> CallT]
        /\ Informed(r) /\ ~Advances(r) /\ ~Starts(r)
    BY <1>1, <1>4, <1>5, QuitsDoes DEF Quits
  <2>2. QED
    BY <1>1, <1>2, <1>3, <1>4, <1>5, <2>1, CallStep DEF Effect
<1>6. CASE Held(Mine(r)) /\ entry.phase # "ready" /\ call' = Go(r, "settled") /\ UNCHANGED <<entry, chain>>
  <2>1. entry.phase \in {"committing", "reserved"}
    <3>1. entry.phase # "loading"
      BY <1>1, <1>6, LoadedIsOver DEF Reserve, SettlersAreExact
    <3>2. QED
      BY <3>1, <1>6 DEF Held, TypeOK
  <2>2. /\ call' \in [Callers -> CallT]
        /\ call'[r].at = "settled" /\ call'[r].mine = Mine(r) /\ call'[r].since = call[r].since
        /\ \A x \in Callers \ {r} : call'[x] = call[x]
    BY <1>1, <1>6, GoDoes DEF Places, TypeOK, CallT
  <2>3. Waits(r) /\ ~Advances(r) /\ ~Starts(r) /\ Informed(r)
    BY <1>1, <1>4, <1>6, <2>1, <2>2 DEF Waits, Others, Spared, Advances, Starts, Informed
  <2>4. QED
    BY <1>1, <1>2, <1>3, <1>4, <1>6, <2>2, <2>3, CallStep DEF Effect
<1>7. CASE /\ Held(Mine(r)) /\ entry.phase = "ready"
           /\ call' = [call EXCEPT ![r].at = "commit", ![r].view = entry.view]
           /\ entry' = [entry EXCEPT !.phase = "committing"]
           /\ chain' = Append(chain, Job("commit", r, 0))
  <2>1. /\ call' \in [Callers -> CallT]
        /\ call'[r].at = "commit" /\ call'[r].mine = Mine(r) /\ call'[r].since = call[r].since
        /\ \A x \in Callers \ {r} : call'[x] = call[x]
    <3>1. entry.view \in Views /\ "commit" \in Places /\ call \in [Callers -> CallT]
      BY DEF TypeOK, Places, CallT
    <3>2. QED
      BY <1>1, <1>7, <3>1 DEF CallT, Mine
  <2>2. Takes(r) /\ ~Advances(r) /\ ~Starts(r) /\ ~Drops(r) /\ Informed(r)
    BY <1>1, <1>4, <1>7, <2>1 DEF Takes, Others, Spared, Advances, Starts, Drops, Withdraws, Informed, Ended
  <2>3. PICK j \in JobT : j = Job("commit", r, 0)
    BY <1>1 DEF Job, JobT, Ops
  <2>4. j.op = "commit" /\ j.by = r /\ Grows(j)
    BY <1>7, <2>3 DEF Job, Grows
  <2>5. OwnerOf(j)'
    BY <2>1, <2>4 DEF OwnerOf, At
  <2>6. QED
    BY <1>1, <1>2, <1>3, <1>4, <1>7, <2>1, <2>2, <2>4, <2>5, GrowStep DEF Effect
<1>8. QED
  BY <1>5, <1>6, <1>7 DEF Reserve

\* An inspection queues its check while it keeps its entry.
LEMMA QueueCheckKeeps == ASSUME Inv, NEW i \in Inspectors, QueueCheck(i)  PROVE Inv'
<1> USE DEF Inv
<1>1. /\ At(i) = "result" /\ i \in Callers
      /\ UNCHANGED <<stored, entry, state, live, retiring, unsaved, foreign>>
  BY DEF QueueCheck, Loaded, sessions, Callers
<1>2. Resting
  BY <1>1 DEF Resting, TypeOK
<1>3. \A m \in DOMAIN chain : chain[m].by # i
  BY <1>1, NoJobs
<1>4. ~Owns(i) /\ At(i) \notin Ended /\ i \notin Resumers /\ i # Nobody
  BY <1>1, CallersAreDistinct DEF Owns, Settling, Ended, Callers
<1>5. CASE call' = End(i, "live-answer") /\ UNCHANGED chain
  <2>1. /\ Leaves(i) /\ call' \in [Callers -> CallT]
        /\ Informed(i) /\ ~Advances(i) /\ ~Starts(i)
    BY <1>1, <1>4, <1>5, QuitsDoes DEF Quits, Ended
  <2>2. QED
    BY <1>1, <1>2, <1>3, <1>4, <1>5, <2>1, CallStep DEF Effect
<1>6. CASE call' = Go(i, "check") /\ chain' = Append(chain, Job("check", i, 0))
  <2>1. /\ call' \in [Callers -> CallT]
        /\ call'[i].at = "check" /\ call'[i].since = call[i].since
        /\ \A x \in Callers \ {i} : call'[x] = call[x]
    BY <1>1, <1>6, GoDoes DEF Places, TypeOK, CallT
  <2>2. Leaves(i) /\ ~Advances(i) /\ ~Starts(i) /\ ~Drops(i) /\ Informed(i)
    <3>1. entry.phase # "none" => entry' # NoEntry
      BY <1>1 DEF NoEntry
    <3>2. QED
      BY <1>1, <1>4, <2>1, <3>1
      DEF Leaves, Others, Spared, Withdraws, Ended, Advances, Starts, Drops, Informed
  <2>3. PICK j \in JobT : j = Job("check", i, 0)
    BY <1>1 DEF Job, JobT, Ops
  <2>4. j.op = "check" /\ j.by = i /\ Grows(j)
    BY <1>6, <2>3 DEF Job, Grows
  <2>5. OwnerOf(j)'
    BY <2>1, <2>4 DEF OwnerOf, At
  <2>6. QED
    BY <1>1, <1>2, <1>3, <1>4, <2>1, <2>2, <2>4, <2>5, GrowStep DEF Effect
<1>7. QED
  BY <1>5, <1>6 DEF QueueCheck

\* An inspection returns, or drops an entry that was ready and stale.
LEMMA AfterCheckKeeps == ASSUME Inv, NEW i \in Inspectors, AfterCheck(i)  PROVE Inv'
<1> USE DEF Inv
<1>1. /\ At(i) \in {"current", "outdated"} /\ i \in Callers
      /\ UNCHANGED <<stored, state, chain, live, retiring, unsaved, foreign>>
  BY DEF AfterCheck, sessions, Callers
<1>2. Resting
  BY <1>1 DEF Resting, TypeOK
<1>3. \A m \in DOMAIN chain : chain[m].by # i
  BY <1>1, NoJobs
<1>4. ~Owns(i) /\ At(i) \notin Ended /\ i \notin Resumers /\ i # Nobody
  BY <1>1, CallersAreDistinct DEF Owns, Settling, Ended, Callers
<1>5. ASSUME NEW how \in Quits, call' = End(i, how), UNCHANGED entry
      PROVE  Inv'
  <2>1. /\ Leaves(i) /\ call' \in [Callers -> CallT]
        /\ Informed(i) /\ ~Advances(i) /\ ~Starts(i)
    BY <1>1, <1>4, <1>5, QuitsDoes
  <2>2. QED
    BY <1>1, <1>2, <1>3, <1>4, <1>5, <2>1, CallStep DEF Effect
<1>6. CASE entry.phase = "ready" /\ Remove(Mine(i), End(i, "head"))
  <2>1. /\ Leaves(i) \/ Drops(i)
        /\ call' \in [Callers -> CallT] /\ Informed(i) /\ ~Advances(i) /\ ~Starts(i)
    BY <1>1, <1>4, <1>6, QuitsOrDrops DEF Quits
  <2>2. QED
    BY <1>1, <1>2, <1>3, <1>4, <2>1, CallStep DEF Effect
<1>7. {"returned", "borrowed", "head"} \subseteq Quits
  BY DEF Quits, Ended
<1>8. QED
  BY <1>5, <1>6, <1>7 DEF AfterCheck

\* A denied commit drops the entry it had, not its successor.
LEMMA CommitRejectedKeeps == ASSUME Inv, NEW r \in Resumers, CommitRejected(r)  PROVE Inv'
<1> USE DEF Inv
<1>1. /\ At(r) = "denied" /\ r \in Callers /\ r # Nobody /\ r \notin Inspectors
      /\ UNCHANGED <<stored, state, chain, live, retiring, unsaved, foreign>>
      /\ Remove(Mine(r), End(r, "refused"))
  BY CallersAreDistinct DEF CommitRejected, sessions, Callers
<1>2. Resting
  BY <1>1 DEF Resting, TypeOK
<1>3. \A m \in DOMAIN chain : chain[m].by # r
  BY <1>1, NoJobs
<1>4. /\ Leaves(r) \/ Drops(r)
      /\ call' \in [Callers -> CallT] /\ Informed(r) /\ ~Advances(r) /\ ~Starts(r)
  BY <1>1, QuitsOrDrops DEF Quits, Ended, Settling
<1>5. QED
  BY <1>1, <1>2, <1>3, <1>4, CallStep DEF Effect

\* So does a stale one.
LEMMA ReadAgainKeeps == ASSUME Inv, NEW r \in Resumers, ReadAgain(r)  PROVE Inv'
<1> USE DEF Inv
<1>1. /\ At(r) = "stale" /\ r \in Callers /\ r # Nobody /\ r \notin Inspectors
      /\ UNCHANGED <<stored, state, chain, live, retiring, unsaved, foreign>>
      /\ Remove(Mine(r), End(r, "head"))
  BY CallersAreDistinct DEF ReadAgain, sessions, Callers
<1>2. Resting
  BY <1>1 DEF Resting, TypeOK
<1>3. \A m \in DOMAIN chain : chain[m].by # r
  BY <1>1, NoJobs
<1>4. /\ Leaves(r) \/ Drops(r)
      /\ call' \in [Callers -> CallT] /\ Informed(r) /\ ~Advances(r) /\ ~Starts(r)
  BY <1>1, QuitsOrDrops DEF Quits, Ended, Settling
<1>5. QED
  BY <1>1, <1>2, <1>3, <1>4, CallStep DEF Effect

\* A reservation that is given back goes to whoever waits for it.
LEMMA GivesBack ==
    ASSUME Inv, NEW r \in Resumers, At(r) \in {"committed", "held"}, chain' = chain, Resting,
           MakeReady(Mine(r), End(r, "refused"))
    PROVE  Inv'
<1> USE DEF Inv
<1>1. r \in Callers /\ r # Nobody /\ r \notin Inspectors /\ "refused" \in Quits
  BY CallersAreDistinct DEF Callers, Quits, Ended
<1>2. \A m \in DOMAIN chain : chain[m].by # r
  BY <1>1, NoJobs
<1>3. /\ call' \in [Callers -> CallT] /\ call'[r] = NoCall("refused")
      /\ Held(Mine(r)) => entry' = [entry EXCEPT !.phase = "ready"] /\ OthersWoken(r)
      /\ ~Held(Mine(r)) => entry' = entry /\ Others(r)
  BY <1>1, MakeReadyDoes DEF TypeOK, CallT
<1>4. Leaves(r) \/ Readies(r)
  BY <1>1, <1>3 DEF Leaves, Readies, Owns, Settling, Withdraws, NoCall, Ended
<1>5. ~Advances(r) /\ ~Starts(r) /\ Informed(r)
  BY <1>1 DEF Advances, Starts, Informed
<1>6. QED
  BY <1>1, <1>2, <1>3, <1>4, <1>5, CallStep DEF Effect

\* An aborted commit gives the entry back.
LEMMA AbortCommittedKeeps == ASSUME Inv, NEW r \in Resumers, AbortCommitted(r)  PROVE Inv'
<1>1. Resting
  BY DEF AbortCommitted, sessions, Resting, Inv, TypeOK
<1>2. QED
  BY <1>1, GivesBack DEF AbortCommitted

\* load gives up what it committed, prepare keeps it.
LEMMA ReservedKeeps == ASSUME Inv, NEW r \in Resumers, Reserved(r)  PROVE Inv'
<1> USE DEF Inv
<1>1. /\ At(r) = "committed" /\ r \in Callers /\ r # Nobody /\ r \notin Inspectors
      /\ UNCHANGED <<stored, state, chain, live, retiring, unsaved, foreign>>
  BY CallersAreDistinct DEF Reserved, sessions, Callers
<1>2. Resting
  BY <1>1 DEF Resting, TypeOK
<1>3. \A m \in DOMAIN chain : chain[m].by # r
  BY <1>1, NoJobs
<1>4. CASE ~Held(Mine(r)) /\ call' = End(r, "head") /\ UNCHANGED entry
  <2>1. /\ Leaves(r) /\ call' \in [Callers -> CallT]
        /\ Informed(r) /\ ~Advances(r) /\ ~Starts(r)
    BY <1>1, <1>4, QuitsDoes DEF Quits, Owns, Ended
  <2>2. QED
    BY <1>1, <1>2, <1>3, <2>1, CallStep DEF Effect
<1>5. CASE Held(Mine(r)) /\ Remove(Mine(r), End(r, "returned"))
  <2>1. /\ Leaves(r) \/ Drops(r)
        /\ call' \in [Callers -> CallT] /\ Informed(r) /\ ~Advances(r) /\ ~Starts(r)
    BY <1>1, <1>5, QuitsOrDrops DEF Quits, Ended, Settling
  <2>2. QED
    BY <1>1, <1>2, <1>3, <2>1, CallStep DEF Effect
<1>6. CASE /\ Held(Mine(r)) /\ call' = Go(r, "held")
           /\ entry' = [entry EXCEPT !.phase = "reserved"]
  <2>1. /\ call' \in [Callers -> CallT]
        /\ call'[r].at = "held" /\ call'[r].mine = Mine(r)
        /\ call'[r].view = View(r) /\ call'[r].since = call[r].since
        /\ \A x \in Callers \ {r} : call'[x] = call[x]
    BY <1>1, <1>6, GoDoes DEF Places, TypeOK, CallT
  <2>2. Keeps(r) /\ ~Advances(r) /\ ~Starts(r) /\ Informed(r)
    BY <1>1, <1>6, <2>1 DEF Keeps, Others, Spared, Advances, Starts, Informed
  <2>3. QED
    BY <1>1, <1>2, <1>3, <2>1, <2>2, CallStep DEF Effect
<1>7. QED
  BY <1>4, <1>5, <1>6 DEF Reserved

\* A holder gives back what it did not publish.
LEMMA ReleaseKeeps == ASSUME Inv, NEW r \in Resumers, Release(r)  PROVE Inv'
<1> USE DEF Inv
<1>1. /\ At(r) = "held" /\ r \in Callers /\ r # Nobody /\ r \notin Inspectors
      /\ UNCHANGED <<stored, state, chain, live, retiring, unsaved, foreign>>
  BY CallersAreDistinct DEF Release, sessions, Callers
<1>2. Resting
  BY <1>1 DEF Resting, TypeOK
<1>3. CASE MakeReady(Mine(r), End(r, "refused"))
  BY <1>1, <1>2, <1>3, GivesBack
<1>4. CASE Remove(Mine(r), End(r, "refused"))
  <2>1. \A m \in DOMAIN chain : chain[m].by # r
    BY <1>1, NoJobs
  <2>2. /\ Leaves(r) \/ Drops(r)
        /\ call' \in [Callers -> CallT] /\ Informed(r) /\ ~Advances(r) /\ ~Starts(r)
    BY <1>1, <1>4, QuitsOrDrops DEF Quits, Ended, Settling
  <2>3. QED
    BY <1>1, <1>2, <2>1, <2>2, CallStep DEF Effect
<1>5. QED
  BY <1>3, <1>4 DEF Release

\* A caller that leaves takes its queued operation with it.
LEMMA AbortKeeps == ASSUME Inv, NEW c \in Callers, Abort(c)  PROVE Inv'
<1> USE DEF Inv
<1>1. /\ At(c) \in {"result", "settled", "woken", "check", "commit"}
      /\ chain' = Dequeued(c) /\ c # Nobody /\ "refused" \in Quits /\ chain \in Seq(JobT)
      /\ UNCHANGED <<stored, state, live, retiring, unsaved, foreign>>
  BY CallersAreDistinct DEF Abort, sessions, Quits, Ended, TypeOK, JobT
<1>2. Resting
  BY <1>1 DEF Resting, TypeOK
<1>3. /\ Leaves(c) \/ Drops(c)
      /\ call' \in [Callers -> CallT] /\ Informed(c) /\ ~Advances(c) /\ ~Starts(c)
  <2>1. CASE At(c) = "commit"
    <3>1. Remove(Mine(c), End(c, "refused"))
      BY <2>1 DEF Abort
    <3>2. c \notin Inspectors
      BY <2>1 DEF KindsAreApart, Settling
    <3>3. QED
      BY <1>1, <2>1, <3>1, <3>2, QuitsOrDrops DEF Ended, Settling
  <2>2. CASE At(c) # "commit"
    <3>1. call' = End(c, "refused") /\ entry' = entry
      BY <2>2 DEF Abort
    <3>2. ~Owns(c) /\ At(c) \notin Ended
      BY <1>1, <2>2 DEF Owns, Settling, Ended
    <3>3. QED
      BY <1>1, <3>1, <3>2, QuitsDoes
  <2>3. QED
    BY <2>1, <2>2
<1>4. CASE chain' = chain /\ \A i \in DOMAIN chain : chain[i].by # c
  BY <1>1, <1>2, <1>3, <1>4, CallStep DEF Effect
<1>5. ASSUME NEW k \in DOMAIN chain, Cuts(k), chain[k].by = c
      PROVE  Inv'
  <2>1. ~Reads(k, entry.gen)
    BY <1>1, <1>5 DEF Reads, Job
  <2>2. CASE Drops(c)
    BY <1>1, <1>2, <1>3, <1>5, <2>1, <2>2, CutStep DEF Effect, Drops
  <2>3. CASE Leaves(c)
    BY <1>1, <1>2, <1>3, <1>5, <2>1, <2>3, CutStep DEF Effect, Leaves, SameEntry
  <2>4. QED
    BY <1>3, <2>2, <2>3
<1>6. QED
  BY <1>1, <1>4, <1>5, DequeuedDoes

\* A step that no caller takes.
LEMMA NobodyLeaves ==
    ASSUME UNCHANGED <<entry, call>>
    PROVE  Leaves(Nobody) /\ Informed(Nobody) /\ ~Advances(Nobody) /\ ~Starts(Nobody)
           /\ (entry.phase # "none" => ~Drops(Nobody)) /\ ~Fills
<1>1. Nobody \notin Callers /\ Nobody \notin Resumers /\ Nobody \notin Inspectors
  BY CallersAreDistinct DEF Callers
<1>2. ~Fills
  <2>1. Fills => entry'.phase = "ready" \/ entry' # entry
    BY DEF Fills
  <2>2. QED
    BY <2>1 DEF Fills
<1>3. QED
  BY <1>1, <1>2
  DEF Leaves, Others, Spared, Withdraws, Informed, Advances, Starts, Drops, NoEntry

\* A step that changes neither entry nor calls nor chain.
LEMMA QuietStep ==
    ASSUME Inv, UNCHANGED <<entry, call, chain>>, Resting
    PROVE  Inv'
<1>1. call' \in [Callers -> CallT]
  BY DEF Inv, TypeOK, CallT
<1>2. QED
  BY <1>1, NobodyLeaves, CallStep DEF Effect

\* Events that are not durable yet, and events of other processes.
LEMMA QuietActionsKeep ==
    ASSUME Inv, \/ ForeignWrite
                \/ \E r \in Resumers : SetupAppends(r) \/ LiveAppends(r)
    PROVE  Inv'
<1> USE DEF Inv
<1>1. UNCHANGED <<entry, call, chain>>
  BY DEF ForeignWrite, SetupAppends, LiveAppends
<1>2. CASE ForeignWrite
  <2>1. Resting
    <3>1. stored.length \in Nat /\ foreign \in Nat
      BY DEF TypeOK, Views, ForeignOK
    <3>2. QED
      BY <1>2, <3>1 DEF ForeignWrite, sessions, Resting, TypeOK, Views
  <2>2. QED
    BY <1>1, <2>1, QuietStep
<1>3. CASE \E r \in Resumers : SetupAppends(r) \/ LiveAppends(r)
  <2>1. Resting
    BY <1>3 DEF SetupAppends, LiveAppends, Resting, TypeOK
  <2>2. QED
    BY <1>1, <2>1, QuietStep
<1>4. QED
  BY <1>2, <1>3

\* An operation that nobody waits for is queued.
LEMMA QueueStep ==
    ASSUME Inv, UNCHANGED <<entry, call>>, Resting, NEW j \in JobT, Grows(j),
           j.op \in {"append", "write", "retire"}, OwnerOf(j)',
           j.by # Nobody => \A m \in DOMAIN chain : chain[m].by # j.by
    PROVE  Inv'
<1>1. call' \in [Callers -> CallT]
  BY DEF Inv, TypeOK, CallT
<1>2. ~Drops(Nobody)
  BY DEF Drops, NoEntry
<1>3. QED
  BY <1>1, <1>2, NobodyLeaves, GrowStep DEF Effect

\* Appends, writes and retirements are queued.
LEMMA QueueActionsKeep ==
    ASSUME Inv, \/ AppendCall
                \/ \E r \in Resumers : Drain(r) \/ QueueRetire(r)
    PROVE  Inv'
<1> USE DEF Inv
<1>1. UNCHANGED <<entry, call>> /\ Resting
  BY DEF AppendCall, Drain, QueueRetire, sessions, Resting, TypeOK
<1>2. CASE AppendCall
  <2>1. PICK j \in JobT : j = Job("append", Nobody, 0)
    BY DEF Job, JobT, Ops
  <2>2. j.op = "append" /\ j.by = Nobody /\ Grows(j)
    BY <1>2, <2>1 DEF Job, Grows, AppendCall
  <2>3. OwnerOf(j)'
    BY <2>2 DEF OwnerOf
  <2>4. QED
    BY <1>1, <2>2, <2>3, QueueStep
<1>3. ASSUME NEW r \in Resumers, Drain(r)  PROVE Inv'
  <2>1. PICK j \in JobT : j = Job("write", r, 0)
    BY DEF Job, JobT, Ops, Callers
  <2>2. j.op = "write" /\ j.by = r /\ Grows(j)
    BY <1>3, <2>1 DEF Job, Grows, Drain
  <2>3. OwnerOf(j)' /\ \A m \in DOMAIN chain : chain[m].by # j.by
    BY <1>3, <2>2 DEF OwnerOf, Drain, sessions, Queued
  <2>4. QED
    BY <1>1, <2>2, <2>3, QueueStep
<1>4. ASSUME NEW r \in Resumers, QueueRetire(r)  PROVE Inv'
  <2>1. PICK j \in JobT : j = Job("retire", r, 0)
    BY DEF Job, JobT, Ops, Callers
  <2>2. j.op = "retire" /\ j.by = r /\ Grows(j)
    BY <1>4, <2>1 DEF Job, Grows, QueueRetire
  <2>3. OwnerOf(j)' /\ \A m \in DOMAIN chain : chain[m].by # j.by
    BY <1>4, <2>2 DEF OwnerOf, QueueRetire, sessions, Queued
  <2>4. QED
    BY <1>1, <2>2, <2>3, QueueStep
<1>5. QED
  BY <1>2, <1>3, <1>4

\* Only a ready entry is evicted, which nobody has.
LEMMA EvictKeeps == ASSUME Inv, Evict  PROVE Inv'
<1> USE DEF Inv
<1>1. /\ entry.phase = "ready" /\ entry' = NoEntry
      /\ UNCHANGED <<stored, state, chain, call, live, retiring, unsaved, foreign>>
  BY DEF Evict, sessions
<1>2. Nobody \notin Callers /\ Nobody \notin Resumers /\ Nobody \notin Inspectors
  BY CallersAreDistinct DEF Callers
<1>3. \A x \in Callers : At(x) # "settled"
  BY <1>1 DEF SettlersAreExact, KindsAreApart, Callers
<1>4. \A r \in Resumers : At(r) # "held"
  BY <1>1 DEF SettlersAreExact, Owns, Settling
<1>5. Drops(Nobody) /\ Informed(Nobody) /\ ~Advances(Nobody) /\ ~Starts(Nobody) /\ ~Fills
  BY <1>1, <1>2, <1>3, <1>4
  DEF Drops, OthersWoken, Spared, Withdraws, Informed, Advances, Starts, Fills
<1>6. Resting /\ call' \in [Callers -> CallT]
  BY <1>1 DEF Resting, TypeOK, CallT
<1>7. QED
  BY <1>1, <1>5, <1>6, CallStep DEF Effect

-----------------------------------------------------------------------------
(* One step per action: the chain.                                         *)

\* A read fills its entry, or only answers whoever waited for a dropped one.
LEMMA LoadKeeps == ASSUME Inv, Load  PROVE Inv'
<1> USE DEF Inv
<1>1. /\ chain \in Seq(JobT) /\ Finish("load")
      /\ UNCHANGED <<stored, state, live, retiring, unsaved, foreign>>
  BY DEF Load, sessions, TypeOK, JobT
<1>2. /\ Cuts(1) /\ 1 \in DOMAIN chain /\ Head(chain) = chain[1] /\ chain[1] \in JobT
      /\ chain[1].op = "load"
  BY <1>1, FinishDoes
<1>3. PICK g \in Nat : g = chain[1].gen
  BY <1>2 DEF JobT
<1>4. /\ entry' = Filled(g)
      /\ call' = [c \in Callers |-> IF c \in Inspectors /\ WaitsFor(c, g)
                                    THEN [call[c] EXCEPT !.view = stored] ELSE call[c]]
  BY <1>2, <1>3 DEF Load
<1>5. chain[1].by = Nobody
  BY <1>2 DEF JobsAreOwned, OwnerOf
<1>6. chain[1] = Job("load", Nobody, g)
  BY <1>2, <1>3, <1>5 DEF JobT, Job
<1>7. call' \in [Callers -> CallT] /\ Others(Nobody)
  <2>1. call \in [Callers -> CallT] /\ stored \in Views
    BY DEF TypeOK, CallT
  <2>2. call' \in [Callers -> CallT]
    BY <1>4, <2>1 DEF CallT
  <2>3. ASSUME NEW x \in Callers  PROVE Spared(x)
    <3>1. CASE x \in Inspectors /\ WaitsFor(x, g)
      <4>1. call'[x] = [call[x] EXCEPT !.view = stored] /\ At(x) = "result"
        BY <1>4, <3>1 DEF WaitsFor
      <4>2. call'[x].at = "result" /\ call'[x].since = call[x].since
        BY <4>1, <2>1 DEF CallT, At
      <4>3. QED
        BY <4>1, <4>2 DEF Spared
    <3>2. CASE ~(x \in Inspectors /\ WaitsFor(x, g))
      BY <1>4, <3>2 DEF Spared
    <3>3. QED
      BY <3>1, <3>2
  <2>4. QED
    BY <2>2, <2>3 DEF Others
<1>8. Nobody \notin Callers /\ Nobody \notin Resumers /\ Nobody \notin Inspectors
  BY CallersAreDistinct DEF Callers
<1>9. Resting /\ Informed(Nobody) /\ ~Starts(Nobody) /\ ~Advances(Nobody)
  BY <1>1, <1>8 DEF Resting, TypeOK, Informed, Starts, Advances
<1>10. CASE Held(g)
  <2>1. entry.phase = "loading" /\ entry.gen = g
    BY <1>2, <1>3, <1>10 DEF LoadsAreQueued, Held
  <2>2. Fills
    BY <1>4, <1>7, <1>10, <2>1 DEF Fills, Filled
  <2>3. Reads(1, entry.gen)
    BY <1>2, <1>6, <2>1 DEF Reads
  <2>4. QED
    BY <1>2, <1>7, <1>9, <2>2, <2>3, CutStep DEF Effect
<1>11. CASE ~Held(g)
  <2>1. entry' = entry
    BY <1>4, <1>11 DEF Filled
  <2>2. Leaves(Nobody) /\ SameEntry
    BY <1>7, <1>8, <2>1 DEF Leaves, Withdraws, SameEntry
  <2>3. entry.phase # "none" => ~Reads(1, entry.gen)
    BY <1>3, <1>11 DEF Reads, Held, Job
  <2>4. QED
    BY <1>2, <1>7, <1>9, <2>2, <2>3, CutStep DEF Effect
<1>12. QED
  BY <1>10, <1>11

\* A failed read refuses whoever waited for it.
LEMMA LoadFailsKeeps == ASSUME Inv, LoadFails  PROVE Inv'
<1> USE DEF Inv
<1>1. /\ chain \in Seq(JobT) /\ Finish("load")
      /\ UNCHANGED <<stored, state, live, retiring, unsaved, foreign>>
  BY DEF LoadFails, sessions, TypeOK, JobT
<1>2. /\ Cuts(1) /\ 1 \in DOMAIN chain /\ Head(chain) = chain[1] /\ chain[1] \in JobT
      /\ chain[1].op = "load"
  BY <1>1, FinishDoes
<1>3. PICK g \in Nat : g = chain[1].gen
  BY <1>2 DEF JobT
<1>4. PICK calls : calls = [c \in Callers |-> IF WaitsFor(c, g) THEN NoCall("refused") ELSE call[c]]
  OBVIOUS
<1>5. Remove(g, calls)
  BY <1>2, <1>3, <1>4 DEF LoadFails
<1>6. /\ calls \in [Callers -> CallT]
      /\ \A x \in Callers : \/ calls[x] = call[x]
                            \/ At(x) = "result" /\ calls[x] = NoCall("refused")
  <2>1. call \in [Callers -> CallT] /\ NoCall("refused") \in CallT
    BY DEF TypeOK, CallT, NoCall, Places, Ended, NoView, Views
  <2>2. QED
    BY <1>4, <2>1 DEF WaitsFor
<1>7. Nobody \notin Callers /\ Nobody \notin Resumers /\ Nobody \notin Inspectors
  BY CallersAreDistinct DEF Callers
<1>8. Resting /\ Informed(Nobody) /\ ~Starts(Nobody) /\ ~Advances(Nobody)
  BY <1>1, <1>7 DEF Resting, TypeOK, Informed, Starts, Advances
<1>9. CASE Held(g)
  <2>1. entry.phase = "loading" /\ entry.gen = g
    BY <1>2, <1>3, <1>9 DEF LoadsAreQueued, Held
  <2>2. entry' = NoEntry /\ call' = Woken(calls, g)
    BY <1>5, <1>9 DEF Remove
  <2>3. /\ call' \in [Callers -> CallT]
        /\ \A x \in Callers :
              /\ call'[x].mine = calls[x].mine
              /\ call'[x].view = calls[x].view
              /\ call'[x].since = calls[x].since
              /\ IF calls[x].at = "settled" /\ calls[x].mine = g
                 THEN call'[x].at = "woken" ELSE call'[x] = calls[x]
    BY <1>6, <2>2, WokenDoes
  <2>4. \A r \in Resumers : At(r) # "held"
    BY <2>1 DEF SettlersAreExact, Owns, Settling
  <2>5. OthersWoken(Nobody)
    <3> SUFFICES ASSUME NEW x \in Callers
                 PROVE  \/ /\ At(x) = "settled" /\ Mine(x) = entry.gen
                           /\ call'[x].at = "woken" /\ call'[x].mine = Mine(x)
                           /\ call'[x].view = View(x) /\ call'[x].since = call[x].since
                        \/ ~(At(x) = "settled" /\ Mine(x) = entry.gen) /\ Spared(x)
      BY DEF OthersWoken
    <3>1. CASE calls[x] = call[x]
      BY <2>1, <2>3, <3>1 DEF Spared, At, Mine, View
    <3>2. CASE At(x) = "result" /\ calls[x] = NoCall("refused")
      BY <2>1, <2>3, <3>2 DEF Spared, NoCall
    <3>3. QED
      BY <1>6, <3>1, <3>2
  <2>6. Drops(Nobody)
    BY <1>7, <2>1, <2>2, <2>4, <2>5 DEF Drops, Withdraws
  <2>7. QED
    BY <1>2, <1>8, <2>2, <2>3, <2>6, CutStep DEF Effect
<1>10. CASE ~Held(g)
  <2>1. entry' = entry /\ call' = calls
    BY <1>5, <1>10 DEF Remove
  <2>2. Leaves(Nobody) /\ SameEntry
    BY <1>6, <1>7, <2>1 DEF Leaves, Others, Spared, NoCall, Withdraws, SameEntry
  <2>3. entry.phase # "none" => ~Reads(1, entry.gen)
    BY <1>3, <1>10 DEF Reads, Held, Job
  <2>4. QED
    BY <1>2, <1>6, <1>8, <2>1, <2>2, <2>3, CutStep DEF Effect
<1>11. QED
  BY <1>9, <1>10

\* When a commit runs, nobody else has committed the current entry.
LEMMA CommitIsAlone ==
    ASSUME Inv, chain \in Seq(JobT), 1 \in DOMAIN chain, chain[1].op = "commit"
    PROVE  /\ chain[1].by \in Resumers /\ At(chain[1].by) = "commit"
           /\ \A q \in Resumers : Owns(q) => At(q) \notin {"committed", "held"}
<1> USE DEF Inv
<1>1. chain[1].by \in Resumers /\ At(chain[1].by) = "commit"
  BY DEF JobsAreOwned, OwnerOf
<1>2. CASE Held(Mine(chain[1].by))
  <2>1. Owns(chain[1].by)
    BY <1>1, <1>2 DEF Owns, Settling
  <2>2. QED
    BY <1>1, <2>1 DEF SettlersAreExact
<1>3. CASE ~Held(Mine(chain[1].by))
  <2>1. entry.phase = "none" \/ entry.phase = "loading"
    <3>1. CASE entry.phase # "none"
      <4>1. PICK j \in DOMAIN chain : Reads(j, entry.gen)
        BY <1>3, <3>1 DEF StaleCommitsAreAhead
      <4>2. QED
        BY <3>1, <4>1 DEF Reads, Job, LoadsAreQueued, Held
    <3>2. QED
      BY <3>1
  <2>2. QED
    BY <1>1, <2>1 DEF SettlersAreExact
<1>4. QED
  BY <1>1, <1>2, <1>3

\* The end of a commit.
LEMMA CommitEnds ==
    ASSUME Inv, Finish("commit"), NEW place \in {"denied", "stale", "committed"},
           call' = Go(Head(chain).by, place), UNCHANGED <<entry, live, retiring, unsaved>>,
           stored' \in Views, stored'.length > 0, stored'.length >= stored.length,
           state' \in StateT, foreign' \in Nat, state'.owner = state.owner, Tracked => Tracked',
           place = "committed" =>
               /\ ~View(Head(chain).by).open /\ View(Head(chain).by).length = state'.cursor
               /\ stored'.length = state'.cursor + foreign'
               /\ Tracked' /\ state'.owner = Nobody
    PROVE  Inv'
<1> USE DEF Inv
<1>1. chain \in Seq(JobT)
  BY DEF TypeOK, JobT
<1>2. /\ Cuts(1) /\ 1 \in DOMAIN chain /\ Head(chain) = chain[1] /\ chain[1] \in JobT
      /\ chain[1].op = "commit"
  BY <1>1, FinishDoes
<1>3. PICK r \in Resumers : r = chain[1].by
  BY <1>1, <1>2, CommitIsAlone
<1>4. /\ At(r) = "commit" /\ r \in Callers /\ r # Nobody /\ r \notin Inspectors
      /\ \A q \in Resumers : Owns(q) => At(q) \notin {"committed", "held"}
  BY <1>1, <1>2, <1>3, CommitIsAlone, CallersAreDistinct DEF Callers
<1>5. /\ call' \in [Callers -> CallT]
      /\ call'[r].at = place /\ call'[r].mine = Mine(r)
      /\ call'[r].view = View(r) /\ call'[r].since = call[r].since
      /\ \A x \in Callers \ {r} : call'[x] = call[x]
  <2>1. place \in Places /\ call \in [Callers -> CallT] /\ call' = Go(r, place)
    BY <1>2, <1>3 DEF Places, TypeOK, CallT
  <2>2. QED
    BY <1>4, <2>1, GoDoes
<1>6. Advances(r) /\ Effect(r)
  BY <1>4, <1>5 DEF Advances, Effect, Others, Spared
<1>7. TypeOK' /\ ForeignOK' /\ KindsAreApart' /\ SettlersAreExact'
  <2>1. chain' \in Seq(JobT) /\ {live', retiring'} \subseteq Resumers \cup {Nobody} /\ unsaved' \subseteq Resumers
    BY <1>2 DEF Cuts, TypeOK
  <2>2. QED
    BY <1>4, <1>5, <1>6, <2>1, StepTypes
<1>8. ColdOrLive'
  <2>1. ~Starts(r)
    BY <1>4 DEF Starts
  <2>2. QED
    BY <1>4, <1>6, <2>1, EffectKeepsCold
<1>9. /\ JobsAreDistinct' /\ AppendingIsFirst' /\ JobsAreOwned'
      /\ LoadsAreQueued' /\ StaleCommitsAreAhead'
      /\ Running("appending")' => Running("appending") /\ 1 # 1
  <2>1. SameEntry /\ ~Reads(1, entry.gen)
    BY <1>2 DEF SameEntry, Reads, Job
  <2>2. \A m \in DOMAIN chain : Stays(chain[m].by)
    BY DEF Stays
  <2>3. QED
    BY <1>2, <1>3, <1>4, <1>6, <2>1, <2>2, CutKeepsChain
<1>10. AppendIsAlone'
  BY <1>9 DEF AppendIsAlone
<1>11. CommittedIsExact'
  <2> SUFFICES ASSUME NEW q \in Resumers, Owns(q)', At(q)' \in {"committed", "held"}
               PROVE  /\ ~View(q).open' /\ View(q).length' = state.cursor'
                      /\ stored.length' = state.cursor' + foreign'
                      /\ Tracked' /\ state.owner' = Nobody
    BY DEF CommittedIsExact
  <2>1. q = r
    BY <1>4, <1>6, EffectOwns DEF At
  <2>2. place = "committed"
    BY <1>5, <2>1 DEF At
  <2>3. QED
    BY <1>2, <1>3, <1>5, <2>1, <2>2 DEF View
<1>12. ChecksAreFresh'
  <2>1. stored'.length \in Nat
    BY DEF Views
  <2>2. QED
    BY <1>4, <1>6, <2>1, EffectKeepsFresh
<1>13. QED
  BY <1>7, <1>8, <1>9, <1>10, <1>11, <1>12

\* A commit that ends has checked, and set the cursor to, what is stored.
LEMMA CommitKeeps == ASSUME Inv, CommitPrepared \/ CommitFails  PROVE Inv'
<1> USE DEF Inv
<1>1. /\ Finish("commit") /\ UNCHANGED <<entry, live, retiring, unsaved>>
  BY DEF CommitPrepared, CommitFails, sessions
<1>2. /\ stored \in Views /\ stored.length \in Nat /\ stored.length > 0
      /\ state \in StateT /\ foreign \in Nat
  BY DEF TypeOK, StateT, ForeignOK, Views
<1>3. ASSUME NEW place \in {"denied", "stale"}, call' = Go(Head(chain).by, place),
             UNCHANGED <<stored, state, foreign>>
      PROVE  Inv'
  BY <1>1, <1>2, <1>3, CommitEnds DEF Tracked
<1>4. CASE CommitFails
  BY <1>3, <1>4 DEF CommitFails
<1>5. CASE CommitPrepared
  <2> DEFINE r == Head(chain).by
  <2>1. CASE call' = Go(r, "denied") /\ UNCHANGED <<stored, state, foreign>>
    BY <1>3, <2>1
  <2>2. CASE call' = Go(r, "stale") /\ UNCHANGED <<stored, state, foreign>>
    BY <1>3, <2>2
  <2>3. CASE /\ call' = Go(r, "stale")
             /\ stored' = [length |-> stored.length + 1, open |-> FALSE]
             /\ foreign' = IF foreign > 0 THEN foreign + 1 ELSE 0
             /\ UNCHANGED state
    <3>1. /\ stored' \in Views /\ stored'.length > 0 /\ stored'.length >= stored.length
          /\ state' \in StateT /\ foreign' \in Nat
      BY <1>2, <2>3 DEF Views
    <3>2. QED
      BY <1>1, <2>3, <3>1, CommitEnds DEF Tracked
  <2>4. CASE /\ Unowned /\ IsPreparedSourceCurrent(View(r)) /\ ~View(r).open
             /\ call' = Go(r, "committed")
             /\ state' = [cursor |-> View(r).length, owner |-> Nobody]
             /\ foreign' = 0
             /\ UNCHANGED stored
    <3>1. stored.length = View(r).length
      BY <2>4 DEF IsPreparedSourceCurrent
    <3>2. /\ state' \in StateT /\ state'.cursor = View(r).length /\ foreign' = 0
          /\ stored'.length = state'.cursor + foreign'
          /\ state'.owner = state.owner /\ state'.owner = Nobody /\ Tracked'
      BY <1>2, <2>4, <3>1 DEF StateT, Unowned, Tracked
    <3>3. QED
      BY <1>1, <1>2, <2>4, <3>2, CommitEnds
  <2>5. QED
    BY <1>5, <2>1, <2>2, <2>3, <2>4 DEF CommitPrepared
<1>6. QED
  BY <1>4, <1>5

\* A check compares with what is stored when it runs.
LEMMA CheckKeeps == ASSUME Inv, Check  PROVE Inv'
<1> USE DEF Inv
<1>1. /\ chain \in Seq(JobT) /\ Finish("check")
      /\ UNCHANGED <<stored, entry, state, live, retiring, unsaved, foreign>>
  BY DEF Check, sessions, TypeOK, JobT
<1>2. /\ Cuts(1) /\ 1 \in DOMAIN chain /\ Head(chain) = chain[1] /\ chain[1] \in JobT
      /\ chain[1].op = "check"
  BY <1>1, FinishDoes
<1>3. PICK i \in Inspectors : i = chain[1].by
  BY <1>2 DEF JobsAreOwned, OwnerOf
<1>4. At(i) = "check" /\ i \in Callers /\ i # Nobody /\ i \notin Resumers
  BY <1>2, <1>3, CallersAreDistinct DEF JobsAreOwned, OwnerOf, Callers
<1>5. PICK place \in {"current", "outdated"} :
         call' = Go(i, place) /\ (place = "current" => View(i).length = stored.length)
  BY <1>2, <1>3 DEF Check, IsPreparedSourceCurrent
<1>6. /\ call' \in [Callers -> CallT]
      /\ call'[i].at = place /\ call'[i].view = View(i) /\ call'[i].since = call[i].since
      /\ \A x \in Callers \ {i} : call'[x] = call[x]
  <2>1. place \in Places /\ call \in [Callers -> CallT]
    BY DEF Places, TypeOK, CallT
  <2>2. QED
    BY <1>4, <1>5, <2>1, GoDoes
<1>7. Leaves(i) /\ Informed(i) /\ ~Starts(i) /\ ~Advances(i)
  BY <1>1, <1>4, <1>5, <1>6
  DEF Leaves, Others, Spared, Withdraws, Ended, Informed, Starts, Advances
<1>8. SameEntry /\ ~Reads(1, entry.gen) /\ Resting
  BY <1>1, <1>2 DEF SameEntry, Reads, Job, Resting, TypeOK
<1>9. QED
  BY <1>2, <1>3, <1>4, <1>6, <1>7, <1>8, CutStep DEF Effect

\* An append to a reserved session changes nothing.
LEMMA AppendRefusedKeeps == ASSUME Inv, AppendRefused  PROVE Inv'
<1> USE DEF Inv
<1>1. /\ chain \in Seq(JobT) /\ Finish("append")
      /\ UNCHANGED <<stored, entry, state, call, live, retiring, unsaved, foreign>>
  BY DEF AppendRefused, sessions, TypeOK, JobT
<1>2. /\ Cuts(1) /\ 1 \in DOMAIN chain /\ chain[1].op = "append"
  BY <1>1, FinishDoes
<1>3. SameEntry /\ ~Reads(1, entry.gen) /\ Resting /\ call' \in [Callers -> CallT]
  BY <1>1, <1>2 DEF SameEntry, Reads, Job, Resting, TypeOK, CallT
<1>4. QED
  BY <1>1, <1>2, <1>3, NobodyLeaves, CutStep DEF Effect

\* What an append or a write does to the entry while nobody has committed it.
LEMMA Invalidates ==
    ASSUME Inv, Remove(entry.gen, call), \A r \in Resumers : At(r) # "held"
    PROVE  /\ call' \in [Callers -> CallT] /\ (Leaves(Nobody) \/ Drops(Nobody))
           /\ entry'.phase = "none"
           /\ (entry' = NoEntry \/ (entry' = entry /\ entry.phase = "none"))
           /\ ~Starts(Nobody) /\ ~Advances(Nobody) /\ ~Fills
<1>1. Nobody \notin Callers /\ Nobody \notin Resumers /\ Nobody \notin Inspectors
  BY CallersAreDistinct DEF Callers
<1>2. /\ call' \in [Callers -> CallT]
      /\ (entry.phase # "none" => (entry' = NoEntry /\ OthersWoken(Nobody)))
      /\ (entry.phase = "none" => (entry' = entry /\ call' = call))
  BY InvalidateDoes DEF Inv, TypeOK, CallT
<1>3. CASE entry.phase # "none"
  <2>1. Drops(Nobody) /\ entry'.phase = "none" /\ entry' = NoEntry
    BY <1>1, <1>2, <1>3 DEF Drops, Withdraws, NoEntry
  <2>2. ~Starts(Nobody) /\ ~Advances(Nobody)
    BY <1>1 DEF Starts, Advances
  <2>3. Fills => entry'.phase = "ready"
    BY DEF Fills, TypeOK, Inv
  <2>4. QED
    BY <1>2, <2>1, <2>2, <2>3
<1>4. CASE entry.phase = "none"
  BY <1>1, <1>2, <1>4 DEF Leaves, Others, Spared, Withdraws, Starts, Advances, Fills
<1>5. QED
  BY <1>3, <1>4

\* An append adopts the log only while nobody has the entry.
LEMMA AppendBeginKeeps == ASSUME Inv, AppendBegin  PROVE Inv'
<1> USE DEF Inv
<1>1. /\ chain \in Seq(JobT) /\ Swaps /\ UNCHANGED <<live, retiring, unsaved>>
      /\ entry.phase \notin {"committing", "reserved"}
  BY DEF AppendBegin, Swaps, sessions, TypeOK, JobT, Writable
<1>2. Nobody \notin Callers /\ Nobody \notin Resumers /\ Nobody \notin Inspectors
  BY CallersAreDistinct DEF Callers
<1>3. \A r \in Resumers : ~Owns(r) /\ At(r) # "held"
  BY <1>1 DEF SettlersAreExact, Owns, Settling
<1>4. /\ stored \in Views /\ stored.length \in Nat /\ stored.length > 0
      /\ state \in StateT /\ foreign \in Nat
  BY DEF TypeOK, StateT, ForeignOK, Views
<1>5. /\ call' \in [Callers -> CallT] /\ (Leaves(Nobody) \/ Drops(Nobody))
      /\ (entry' = NoEntry \/ SameEntry)
      /\ ~Starts(Nobody) /\ ~Advances(Nobody) /\ ~Fills
  <2>1. CASE UNCHANGED <<entry, call>>
    BY <2>1, NobodyLeaves DEF SameEntry, TypeOK, CallT
  <2>2. CASE Remove(entry.gen, call)
    BY <1>3, <2>2, Invalidates DEF SameEntry
  <2>3. QED
    BY <2>1, <2>2 DEF AppendBegin
<1>6. /\ stored' \in Views /\ stored'.length > 0 /\ stored'.length >= stored.length
      /\ state' \in StateT /\ foreign' \in Nat /\ state'.owner = state.owner /\ (Tracked => Tracked')
  <2>1. CASE Tracked
    BY <1>4, <2>1 DEF AppendBegin, Tracked
  <2>2. CASE ~Tracked
    <3>1. /\ stored' = [length |-> IF stored.open THEN stored.length + 1 ELSE stored.length,
                        open |-> FALSE]
          /\ state' = [cursor |-> stored'.length, owner |-> Nobody] /\ foreign' = 0
      BY <2>2 DEF AppendBegin
    <3>2. stored' \in Views /\ stored'.length > 0 /\ stored'.length >= stored.length
      BY <1>4, <3>1 DEF Views
    <3>3. state.owner = Nobody
      BY <2>2 DEF ColdOrLive
    <3>4. QED
      BY <2>2, <3>1, <3>2, <3>3 DEF Views, StateT
  <2>3. QED
    BY <2>1, <2>2
<1>7. /\ chain' \in Seq(JobT) /\ DOMAIN chain' = DOMAIN chain /\ 1 \in DOMAIN chain
      /\ chain'[1] = Job("appending", Nobody, 0)
      /\ \A i \in DOMAIN chain : i # 1 => chain'[i] = chain[i]
  BY <1>1, SwapsDoes
<1>8. Effect(Nobody)
  BY <1>5 DEF Effect
<1>9. TypeOK' /\ ForeignOK' /\ KindsAreApart' /\ SettlersAreExact'
  <2>1. {live', retiring'} \subseteq Resumers \cup {Nobody} /\ unsaved' \subseteq Resumers
    BY <1>1 DEF TypeOK
  <2>2. QED
    BY <1>5, <1>6, <1>7, <1>8, <2>1, StepTypes
<1>10. ColdOrLive'
  BY <1>1, <1>5, <1>6, <1>8, EffectKeepsCold
<1>11. JobsAreDistinct' /\ AppendingIsFirst'
  BY <1>1, SwapsKeepsOrder
<1>12. JobsAreOwned'
  <2>1. \A m \in DOMAIN chain : Stays(chain[m].by)
    BY <1>1 DEF Stays
  <2>2. OwnerOf(chain[1])'
    BY <1>7 DEF OwnerOf, Job
  <2>3. ASSUME NEW i \in DOMAIN chain'
        PROVE  \/ OwnerOf(chain[i])'
               \/ \E m \in DOMAIN chain : /\ chain'[i] = chain[m] /\ (chain[m].by = Nobody => Nobody = Nobody)
                                          /\ Stays(chain[m].by)
    BY <1>7, <2>1, <2>2
  <2>4. QED
    BY <1>8, <2>3, EffectKeepsOwners
<1>13. LoadsAreQueued' /\ StaleCommitsAreAhead'
  <2>1. CASE entry' = NoEntry
    BY <2>1, DroppedHasNoReads
  <2>2. CASE SameEntry
    BY <1>1, <1>8, <1>12, <2>2, ClaimsStay, SwapsKeepsReads
  <2>3. QED
    BY <1>5, <2>1, <2>2
<1>14. \A r \in Resumers : ~Owns(r)'
  BY <1>2, <1>3, <1>8, EffectOwns
<1>15. AppendIsAlone' /\ CommittedIsExact'
  BY <1>14 DEF AppendIsAlone, CommittedIsExact
<1>16. ChecksAreFresh'
  BY <1>2, <1>6, <1>8, EffectKeepsFresh DEF Views
<1>17. QED
  BY <1>9, <1>10, <1>11, <1>12, <1>13, <1>15, <1>16

\* An append or a write ends: the entry is invalidated.
LEMMA WrittenKeeps ==
    ASSUME Inv, NEW op \in {"appending", "write"}, Finish(op), NEW open \in BOOLEAN, Written(open),
           UNCHANGED <<live, retiring, foreign>>, unsaved' \subseteq Resumers,
           \A r \in Resumers : At(r) # "held"
    PROVE  Inv'
<1> USE DEF Inv
<1>1. chain \in Seq(JobT)
  BY DEF TypeOK, JobT
<1>2. Cuts(1) /\ 1 \in DOMAIN chain /\ chain[1].op = op
  BY <1>1, FinishDoes
<1>3. Nobody \notin Callers /\ Nobody \notin Resumers /\ Nobody \notin Inspectors
  BY CallersAreDistinct DEF Callers
<1>5. /\ call' \in [Callers -> CallT] /\ (Leaves(Nobody) \/ Drops(Nobody))
      /\ entry'.phase = "none" /\ (entry' = NoEntry \/ (entry' = entry /\ entry.phase = "none"))
      /\ ~Starts(Nobody) /\ ~Advances(Nobody) /\ ~Fills
  BY Invalidates DEF Written
<1>6. /\ stored' \in Views /\ stored'.length > 0 /\ stored'.length >= stored.length
      /\ state' \in StateT /\ foreign' \in Nat /\ state'.owner = state.owner /\ (Tracked => Tracked')
  <2>1. stored.length \in Nat /\ state \in StateT /\ foreign \in Nat
    BY DEF TypeOK, StateT, ForeignOK, Views
  <2>2. PICK n \in Nat : n = state.cursor + 1
    BY <2>1 DEF StateT
  <2>3. state' = [state EXCEPT !.cursor = n]
    BY <2>1, <2>2 DEF Written, StateT
  <2>4. state' \in StateT /\ state'.owner = state.owner /\ (Tracked => Tracked')
    BY <2>1, <2>2, <2>3 DEF StateT, Tracked
  <2>5. stored'.length = stored.length + 1 /\ stored' = [length |-> stored.length + 1, open |-> open]
    BY DEF Written
  <2>6. QED
    BY <2>1, <2>4, <2>5 DEF Views
<1>7. Effect(Nobody)
  BY <1>5 DEF Effect
<1>8. TypeOK' /\ ForeignOK' /\ KindsAreApart' /\ SettlersAreExact'
  <2>1. {live', retiring'} \subseteq Resumers \cup {Nobody} /\ chain' \in Seq(JobT)
    BY <1>2 DEF TypeOK, Cuts
  <2>2. QED
    BY <1>5, <1>6, <1>7, <2>1, StepTypes
<1>9. ColdOrLive'
  BY <1>5, <1>6, <1>7, EffectKeepsCold
<1>10. /\ JobsAreDistinct' /\ AppendingIsFirst' /\ JobsAreOwned'
       /\ LoadsAreQueued' /\ StaleCommitsAreAhead'
       /\ Running("appending")' => Running("appending") /\ 1 # 1
  <2>1. \A m \in DOMAIN chain : Stays(chain[m].by)
    BY DEF Stays
  <2>2. entry' = NoEntry \/ (SameEntry /\ (entry.phase # "none" => ~Reads(1, entry.gen)))
    BY <1>5 DEF SameEntry
  <2>3. QED
    BY <1>2, <1>7, <2>1, <2>2, CutKeepsChain
<1>11. AppendIsAlone' /\ CommittedIsExact'
  BY <1>5, <1>10 DEF AppendIsAlone, CommittedIsExact, Owns, Held
<1>12. ChecksAreFresh'
  BY <1>3, <1>6, <1>7, EffectKeepsFresh DEF Views
<1>13. QED
  BY <1>8, <1>9, <1>10, <1>11, <1>12

\* An append drops the entry, so what was read before it is not reserved.
LEMMA AppendEndKeeps == ASSUME Inv, AppendEnd  PROVE Inv'
<1> USE DEF Inv
<1>1. PICK open \in BOOLEAN : Written(open)
  BY DEF AppendEnd
<1>2. \A r \in Resumers : At(r) # "held"
  BY DEF AppendEnd, Finish, AppendIsAlone, SettlersAreExact, Owns, Settling
<1>3. UNCHANGED <<live, retiring, foreign>> /\ unsaved' \subseteq Resumers /\ Finish("appending")
  BY DEF AppendEnd, sessions, TypeOK
<1>4. QED
  BY <1>1, <1>2, <1>3, WrittenKeeps

\* So does a write of a live session.
LEMMA WriteKeeps == ASSUME Inv, Write  PROVE Inv'
<1> USE DEF Inv
<1>1. PICK open \in BOOLEAN : Written(open)
  BY DEF Write
<1>2. \A r \in Resumers : At(r) # "held"
  <2>1. chain \in Seq(JobT) /\ Finish("write")
    BY DEF Write, TypeOK, JobT
  <2>2. 1 \in DOMAIN chain /\ chain[1].op = "write"
    BY <2>1, FinishDoes
  <2>3. state.owner # Nobody
    BY <2>2, CallersAreDistinct DEF JobsAreOwned, OwnerOf, ColdOrLive, Callers
  <2>4. QED
    BY <2>3 DEF CommittedIsExact, SettlersAreExact, Owns, Settling
<1>3. UNCHANGED <<live, retiring, foreign>> /\ unsaved' \subseteq Resumers /\ Finish("write")
  BY DEF Write, TypeOK
<1>4. QED
  BY <1>1, <1>2, <1>3, WrittenKeeps

\* A write or a retirement ends without touching the log; the retirement may be
\* over with it.
LEMMA RetirementEnds ==
    ASSUME Inv, NEW op \in {"write", "retire"}, Finish(op), UNCHANGED <<stored, entry, call, live, unsaved, foreign>>,
           (retiring' = retiring /\ op = "write") \/ (retiring' = Nobody /\ retiring = Head(chain).by),
           state' = state \/ (op = "retire" /\ state' = NoState)
    PROVE  Inv'
<1> USE DEF Inv
<1>1. chain \in Seq(JobT)
  BY DEF TypeOK, JobT
<1>2. Cuts(1) /\ 1 \in DOMAIN chain /\ chain[1].op = op /\ Head(chain) = chain[1]
  BY <1>1, FinishDoes
<1>3. Nobody \notin Callers /\ Nobody \notin Resumers /\ Nobody \notin Inspectors
  BY CallersAreDistinct DEF Callers
<1>4. OwnerOf(chain[1])
  BY <1>2 DEF JobsAreOwned
<1>5. chain[1].by \in Resumers /\ (op = "retire" => retiring = chain[1].by)
  BY <1>2, <1>4 DEF OwnerOf
<1>6. Leaves(Nobody) /\ ~Advances(Nobody) /\ ~Starts(Nobody) /\ Effect(Nobody)
  BY NobodyLeaves DEF Effect
<1>7. TypeOK' /\ ForeignOK' /\ KindsAreApart' /\ SettlersAreExact'
  <2>1. /\ stored' \in Views /\ stored'.length > 0 /\ state' \in StateT /\ foreign' \in Nat
        /\ {live', retiring'} \subseteq Resumers \cup {Nobody} /\ unsaved' \subseteq Resumers
        /\ chain' \in Seq(JobT) /\ call' \in [Callers -> CallT]
    BY <1>2 DEF TypeOK, Cuts, StateT, ForeignOK, CallT, NoState
  <2>2. QED
    BY <1>6, <2>1, StepTypes
<1>8. ColdOrLive'
  <2>1. CASE state' = state
    BY <1>3, <2>1 DEF ColdOrLive, At, Tracked
  <2>2. CASE op = "retire" /\ state' = NoState
    <3>1. live' = Nobody /\ retiring' = Nobody
      BY <1>2, <1>3, <1>5, <2>2 DEF ColdOrLive
    <3>2. QED
      BY <1>3, <2>2, <3>1 DEF ColdOrLive, NoState
  <2>3. QED
    BY <2>1, <2>2
<1>9. /\ JobsAreDistinct' /\ AppendingIsFirst' /\ JobsAreOwned'
      /\ LoadsAreQueued' /\ StaleCommitsAreAhead'
      /\ Running("appending")' => Running("appending") /\ 1 # 1
  <2>1. \A m \in DOMAIN chain : m # 1 => Stays(chain[m].by)
    <3>1. \A m \in DOMAIN chain : m # 1 => chain[m].by # chain[1].by
      BY <1>2, <1>3, <1>5 DEF JobsAreDistinct
    <3>2. QED
      BY <1>2, <3>1 DEF Stays
  <2>2. SameEntry /\ ~Reads(1, entry.gen)
    BY <1>2 DEF SameEntry, Reads, Job
  <2>3. QED
    BY <1>2, <1>6, <2>1, <2>2, CutKeepsChain
<1>10. AppendIsAlone'
  BY <1>9 DEF AppendIsAlone
<1>11. CommittedIsExact'
  <2>1. CASE state' = state
    BY <2>1 DEF CommittedIsExact, Owns, At, Mine, Held, View, Tracked
  <2>2. CASE op = "retire"
    <3>1. state.owner # Nobody
      BY <1>3, <1>5, <2>2 DEF ColdOrLive
    <3>2. QED
      BY <3>1 DEF CommittedIsExact, Owns, At, Mine, Held
  <2>3. QED
    BY <2>1, <2>2
<1>12. ChecksAreFresh'
  BY DEF ChecksAreFresh, At, View
<1>13. QED
  BY <1>7, <1>8, <1>9, <1>10, <1>11, <1>12

\* A failed write may end a retirement.
LEMMA WriteFailsKeeps == ASSUME Inv, WriteFails  PROVE Inv'
<1>1. /\ Finish("write") /\ UNCHANGED <<stored, entry, call, live, unsaved, foreign, state>>
      /\ (retiring' = retiring \/ (retiring' = Nobody /\ retiring = Head(chain).by))
  BY DEF WriteFails
<1>2. QED
  BY <1>1, RetirementEnds

\* A retirement gives the state back.
LEMMA RetireKeeps == ASSUME Inv, Retire  PROVE Inv'
<1> USE DEF Inv
<1>1. /\ Finish("retire") /\ UNCHANGED <<stored, entry, call, live, unsaved, foreign>>
      /\ retiring' = Nobody /\ (state' = state \/ state' = NoState)
  BY DEF Retire
<1>2. retiring = Head(chain).by
  <2>1. chain \in Seq(JobT)
    BY DEF TypeOK, JobT
  <2>2. 1 \in DOMAIN chain /\ chain[1].op = "retire" /\ Head(chain) = chain[1]
    BY <1>1, <2>1, FinishDoes
  <2>3. QED
    BY <2>2 DEF JobsAreOwned, OwnerOf
<1>3. QED
  BY <1>1, <1>2, RetirementEnds

\* A session is published by whoever holds its reservation; the entry is gone.
LEMMA PublishKeeps == ASSUME Inv, NEW r \in Resumers, Publish(r)  PROVE Inv'
<1> USE DEF Inv
<1>1. /\ At(r) = "held" /\ live = Nobody /\ Held(Mine(r)) /\ Remove(Mine(r), End(r, "live"))
      /\ live' = r /\ UNCHANGED <<stored, retiring, unsaved, foreign>>
  BY DEF Publish
<1>2. r \in Callers /\ r # Nobody /\ chain \in Seq(JobT) /\ Tracked /\ retiring = Nobody
  <2>1. Owns(r)
    BY <1>1 DEF Owns, Settling
  <2>2. Tracked /\ state.owner = Nobody
    BY <1>1, <2>1 DEF CommittedIsExact
  <2>3. retiring = Nobody
    BY <2>2, CallersAreDistinct DEF ColdOrLive, TypeOK, Callers
  <2>4. QED
    BY <2>2, <2>3, CallersAreDistinct DEF Callers, TypeOK, JobT
<1>3. /\ Drops(r) /\ call' \in [Callers -> CallT] /\ call'[r] = NoCall("live")
      /\ Informed(r) /\ ~Advances(r) /\ entry' = NoEntry
  <2>1. "live" \in Quits /\ At(r) \in Settling /\ At(r) \notin Ended /\ r \notin Inspectors
    BY <1>1, CallersAreDistinct DEF Quits, Ended, Settling, Callers
  <2>2. Owns(r) /\ ~Leaves(r)
    BY <1>1, <2>1 DEF Owns, Leaves
  <2>3. entry' = NoEntry
    BY <1>1 DEF Remove
  <2>4. QED
    BY <1>1, <1>2, <2>1, <2>2, <2>3, QuitsOrDrops
<1>4. Effect(r) /\ ~Starts(r)
  BY <1>1, <1>3 DEF Effect, Starts
<1>5. \A i \in DOMAIN chain : chain[i].by # r
  BY <1>1, <1>2, NoJobs
<1>6. PICK j \in JobT : j = Job("write", r, 0)
  BY <1>2 DEF Job, JobT, Ops
<1>7. j.op = "write" /\ j.by = r /\ (chain' = chain \/ Grows(j))
  BY <1>1, <1>6 DEF Job, Grows, Publish
<1>8. /\ chain' \in Seq(JobT) /\ JobsAreDistinct' /\ AppendingIsFirst'
      /\ Running("appending")' => Running("appending")
      /\ \A i \in DOMAIN chain' : (i \in DOMAIN chain /\ chain'[i] = chain[i]) \/ chain'[i] = j
  <2>1. CASE chain' = chain
    BY <1>2, <2>1 DEF JobsAreDistinct, AppendingIsFirst, Running
  <2>2. CASE Grows(j)
    <3>1. /\ chain' \in Seq(JobT)
          /\ DOMAIN chain = 1..Len(chain) /\ DOMAIN chain' = 1..(Len(chain) + 1)
          /\ \A i \in DOMAIN chain : chain'[i] = chain[i]
          /\ chain'[Len(chain) + 1] = j /\ Len(chain) \in Nat
          /\ Running("appending")' => Running("appending")
      BY <1>2, <1>7, <2>2, GrowsDoes DEF Ops
    <3>2. JobsAreDistinct' /\ AppendingIsFirst'
      BY <1>2, <1>5, <1>7, <2>2, GrowsKeepsOrder
    <3>3. QED
      BY <3>1, <3>2
  <2>3. QED
    BY <1>7, <2>1, <2>2
<1>9. TypeOK' /\ ForeignOK' /\ KindsAreApart' /\ SettlersAreExact'
  <2>1. state' \in StateT
    BY <1>1 DEF Publish, TypeOK, StateT
  <2>2. /\ stored' \in Views /\ stored'.length > 0 /\ foreign' \in Nat
        /\ {live', retiring'} \subseteq Resumers \cup {Nobody} /\ unsaved' \subseteq Resumers
    BY <1>1 DEF TypeOK, ForeignOK
  <2>3. QED
    BY <1>2, <1>3, <1>4, <1>8, <2>1, <2>2, StepTypes
<1>10. ColdOrLive'
  <2>1. state'.owner = r /\ Tracked'
    BY <1>2 DEF Publish, TypeOK, Tracked
  <2>2. QED
    BY <1>1, <1>2, <1>3, <2>1, CallersAreDistinct DEF ColdOrLive, NoEntry, NoCall, At, Callers
<1>11. JobsAreOwned'
  <2>1. OwnerOf(j)'
    BY <1>1, <1>7 DEF OwnerOf
  <2>2. \A m \in DOMAIN chain : Stays(chain[m].by)
    BY <1>1, <1>2, CallersAreDistinct DEF Stays, Callers
  <2>3. ASSUME NEW i \in DOMAIN chain'
        PROVE  \/ OwnerOf(chain[i])'
               \/ \E m \in DOMAIN chain : /\ chain'[i] = chain[m] /\ (chain[m].by = r => r = Nobody)
                                          /\ Stays(chain[m].by)
    <3>1. CASE chain'[i] = j
      BY <2>1, <3>1
    <3>2. CASE i \in DOMAIN chain /\ chain'[i] = chain[i]
      BY <1>5, <2>2, <3>2
    <3>3. QED
      BY <1>8, <3>1, <3>2
  <2>4. QED
    BY <1>2, <1>4, <2>3, EffectKeepsOwners
<1>12. LoadsAreQueued' /\ StaleCommitsAreAhead'
  BY <1>3, DroppedHasNoReads
<1>13. AppendIsAlone'
  BY <1>2, <1>4, <1>8, <1>3, EffectKeepsAlone
<1>14. CommittedIsExact'
  BY <1>3 DEF CommittedIsExact, Owns, Held, NoEntry
<1>15. ChecksAreFresh'
  <2>1. stored.length \in Nat
    BY DEF TypeOK, Views
  <2>2. QED
    BY <1>1, <1>2, <1>3, <1>4, <2>1, EffectKeepsFresh DEF Informed
<1>16. QED
  BY <1>8, <1>9, <1>10, <1>11, <1>12, <1>13, <1>14, <1>15

\* A disposed session begins to retire: what it queued stays its own.
LEMMA DisposeKeeps == ASSUME Inv, NEW r \in Resumers, Dispose(r)  PROVE Inv'
<1> USE DEF Inv
<1>1. /\ live = r /\ live' = Nobody /\ retiring' = r
      /\ UNCHANGED <<stored, entry, state, chain, call, unsaved, foreign>>
  BY DEF Dispose
<1>2. r # Nobody /\ retiring = Nobody /\ entry.phase = "none"
  BY <1>1, CallersAreDistinct DEF ColdOrLive, Callers
<1>3. TypeOK' /\ ForeignOK' /\ KindsAreApart' /\ SettlersAreExact'
  BY <1>1 DEF TypeOK, ForeignOK, KindsAreApart, SettlersAreExact, Owns, Held, At, Mine
<1>4. ColdOrLive'
  BY <1>1, <1>2 DEF ColdOrLive, At, Tracked
<1>5. JobsAreOwned'
  <2> SUFFICES ASSUME NEW i \in DOMAIN chain  PROVE OwnerOf(chain[i])'
    BY <1>1 DEF JobsAreOwned
  <2>1. PICK j : j = chain[i]
    OBVIOUS
  <2>2. OwnerOf(j) /\ chain'[i] = j
    BY <1>1, <2>1 DEF JobsAreOwned
  <2>3. OwnerOf(j)'
    BY <1>1, <1>2, <2>2, CallersAreDistinct DEF OwnerOf, At, Callers
  <2>4. QED
    BY <2>2, <2>3
<1>6. /\ JobsAreDistinct' /\ AppendingIsFirst' /\ LoadsAreQueued' /\ StaleCommitsAreAhead'
      /\ AppendIsAlone' /\ CommittedIsExact' /\ ChecksAreFresh'
  <2>1. JobsAreDistinct' /\ AppendingIsFirst'
    BY <1>1 DEF JobsAreDistinct, AppendingIsFirst
  <2>2. LoadsAreQueued' /\ StaleCommitsAreAhead'
    BY <1>1, <1>2 DEF LoadsAreQueued, StaleCommitsAreAhead, Held
  <2>3. AppendIsAlone' /\ CommittedIsExact'
    BY <1>1, <1>2 DEF AppendIsAlone, CommittedIsExact, Owns, Held
  <2>4. ChecksAreFresh'
    BY <1>1 DEF ChecksAreFresh, At, View
  <2>5. QED
    BY <2>1, <2>2, <2>3, <2>4
<1>7. QED
  BY <1>3, <1>4, <1>5, <1>6

-----------------------------------------------------------------------------
(* The theorems.                                                           *)

\* At first nobody has come and nothing is queued.
LEMMA InitInv == Init => Inv
<1> SUFFICES ASSUME Init  PROVE Inv
  OBVIOUS
<1> USE DEF Init, NoEntry, NoView, NoState, NoCall
<1>1. TypeOK /\ ForeignOK
  BY DEF TypeOK, ForeignOK, Views, Places
<1>2. \A c \in Callers : At(c) = "head"
  BY DEF At
<1>3. chain = <<>> /\ DOMAIN chain = {}
  OBVIOUS
<1>4. KindsAreApart /\ ColdOrLive
  BY <1>2, CallersAreDistinct DEF KindsAreApart, ColdOrLive, Settling, Callers, Tracked
<1>5. JobsAreOwned /\ JobsAreDistinct /\ AppendingIsFirst /\ LoadsAreQueued /\ StaleCommitsAreAhead
  BY <1>3 DEF JobsAreOwned, JobsAreDistinct, AppendingIsFirst, LoadsAreQueued, StaleCommitsAreAhead
<1>6. SettlersAreExact /\ AppendIsAlone /\ CommittedIsExact
  BY <1>2, <1>3
  DEF SettlersAreExact, AppendIsAlone, CommittedIsExact, Owns, Settling, Callers, Running
<1>7. ChecksAreFresh
  BY <1>2 DEF ChecksAreFresh, Callers
<1>8. QED
  BY <1>1, <1>4, <1>5, <1>6, <1>7 DEF Inv

\* Every step keeps the invariant, and so does a stutter.
LEMMA NextKeeps == Inv /\ [Next]_vars => Inv'
<1> SUFFICES ASSUME Inv, [Next]_vars  PROVE Inv'
  OBVIOUS
<1>1. ASSUME NEW c \in Callers, WaitForRetirement(c) \/ AnswerFromLive(c) \/ Enter(c) \/ Abort(c)
      PROVE  Inv'
  BY <1>1, WaitForRetirementKeeps, AnswerFromLiveKeeps, EnterKeeps, AbortKeeps
<1>2. ASSUME NEW r \in Resumers, Resume(r) \/ AbortCommitted(r)  PROVE Inv'
  BY <1>2, ReserveKeeps, CommitRejectedKeeps, ReadAgainKeeps, ReservedKeeps, AbortCommittedKeeps
  DEF Resume
<1>3. ASSUME NEW r \in Resumers, Hold(r) \/ Dispose(r)  PROVE Inv'
  BY <1>3, PublishKeeps, ReleaseKeeps, DisposeKeeps DEF Hold
<1>4. ASSUME NEW r \in Resumers, SetupAppends(r) \/ LiveAppends(r)  PROVE Inv'
  BY <1>4, QuietActionsKeep
<1>5. ASSUME NEW r \in Resumers, Drain(r) \/ QueueRetire(r)  PROVE Inv'
  BY <1>5, QueueActionsKeep
<1>6. ASSUME NEW i \in Inspectors, Inspect(i)  PROVE Inv'
  BY <1>6, QueueCheckKeeps, AfterCheckKeeps DEF Inspect
<1>7. CASE RunJob
  BY <1>7, LoadKeeps, LoadFailsKeeps, CommitKeeps, CheckKeeps, AppendRefusedKeeps, AppendBeginKeeps,
     AppendEndKeeps, WriteKeeps, WriteFailsKeeps, RetireKeeps DEF RunJob
<1>8. CASE AppendCall \/ ForeignWrite \/ Evict
  BY <1>8, QueueActionsKeep, QuietActionsKeep, EvictKeeps
<1>9. CASE UNCHANGED vars
  <2>1. UNCHANGED <<entry, call, chain>> /\ Resting
    BY <1>9 DEF vars, sessions, Resting, Inv, TypeOK
  <2>2. QED
    BY <2>1, QuietStep
<1>10. CASE Next
  BY <1>10, <1>1, <1>2, <1>3, <1>4, <1>5, <1>6, <1>7, <1>8 DEF Next
<1>11. QED
  BY <1>9, <1>10

\* The invariant holds for any callers and bounds, whatever they do, in whatever
\* order the chain runs it.
THEOREM InvHolds == Spec => []Inv
BY InitInv, NextKeeps, PTL DEF Spec

\* A reservation is exact: the session is cold, whatever a caller's wait for a
\* retirement has missed, its holder has the only one, and publishes what the
\* durable log is.
THEOREM ReservationsStayExact == Spec => []ReservationsAreExact
<1>1. Inv => ReservationsAreExact
  <2> SUFFICES ASSUME Inv  PROVE ReservationsAreExact
    OBVIOUS
  <2> USE DEF Inv
  <2>1. HeldIsCold
    <3> SUFFICES ASSUME NEW r \in Resumers, At(r) = "held"
                 PROVE  state.owner = Nobody /\ live = Nobody /\ retiring = Nobody
      BY DEF HeldIsCold
    <3>1. Owns(r)
      BY DEF SettlersAreExact, Owns, Settling
    <3>2. state.owner = Nobody
      BY <3>1 DEF CommittedIsExact
    <3>3. QED
      BY <3>2, CallersAreDistinct DEF ColdOrLive, TypeOK, Callers
  <2>2. HeldIsExact
    <3> SUFFICES ASSUME NEW r \in Resumers, At(r) = "held"
                 PROVE  /\ Held(Mine(r)) /\ entry.phase = "reserved"
                        /\ ~View(r).open /\ View(r).length = state.cursor
                        /\ stored.length = state.cursor + foreign
      BY DEF HeldIsExact
    <3>1. Owns(r)
      BY DEF SettlersAreExact, Owns, Settling
    <3>2. QED
      BY <3>1 DEF SettlersAreExact, CommittedIsExact, Owns
  <2>3. QED
    BY <2>1, <2>2 DEF ReservationsAreExact
<1>2. QED
  BY <1>1, InvHolds, PTL

\* No waiter is forgotten: whoever waits for a reservation waits for the current
\* entry, and another resume has it and will settle it.
THEOREM WaitersStayServed == Spec => []WaitersAreServed
<1>1. Inv => WaitersAreServed
  <2> SUFFICES ASSUME Inv, NEW r \in Resumers, At(r) = "settled"
               PROVE  /\ Held(Mine(r))
                      /\ \E q \in Resumers \ {r} : Mine(q) = Mine(r) /\ At(q) \in Settling
    BY DEF WaitersAreServed, Settling
  <2>1. Held(Mine(r)) /\ entry.phase \in {"committing", "reserved"}
    BY DEF Inv, SettlersAreExact
  <2>2. PICK q \in Resumers : Owns(q)
    BY <2>1 DEF Inv, SettlersAreExact
  <2>3. q # r /\ Mine(q) = Mine(r) /\ At(q) \in Settling
    BY <2>1, <2>2 DEF Owns, Settling, Held
  <2>4. QED
    BY <2>1, <2>3
<1>2. QED
  BY <1>1, InvHolds, PTL

\* x does not return an inspection's view in this step.
NoReturn(x) == call'[x].at = "returned" => At(x) = "returned"

\* Dropping an entry, or giving it back, returns nothing.
LEMMA WakingReturnsNothing ==
    ASSUME call \in [Callers -> CallT], NEW calls \in [Callers -> CallT], NEW g, NEW x \in Callers,
           calls[x].at # "returned" \/ At(x) = "returned",
           Remove(g, calls) \/ MakeReady(g, calls)
    PROVE  NoReturn(x)
<1>1. Woken(calls, g)[x].at \in {calls[x].at, "woken"}
  BY WokenDoes
<1>2. QED
  BY <1>1 DEF Remove, MakeReady, NoReturn

\* A call that ends, or goes on, does so for itself.
LEMMA OwnStepOnly ==
    ASSUME call \in [Callers -> CallT], NEW c \in Callers, NEW how \in Places, NEW x \in Callers
    PROVE  /\ End(c, how) \in [Callers -> CallT]
           /\ End(c, how)[x].at = IF x = c THEN how ELSE call[x].at
           /\ Go(c, how)[x].at = IF x = c THEN how ELSE call[x].at
           /\ x # c => (End(c, how)[x] = call[x] /\ Go(c, how)[x] = call[x])
<1>1. End(c, how) \in [Callers -> CallT]
  BY EndDoes
<1>2. End(c, how)[x] = IF x = c THEN NoCall(how) ELSE call[x]
  BY DEF End
<1>3. Go(c, how)[x] = IF x = c THEN [call[x] EXCEPT !.at = how] ELSE call[x]
  BY DEF Go
<1>4. call[x] \in CallT
  OBVIOUS
<1>5. [call[x] EXCEPT !.at = how].at = how
  BY <1>4 DEF CallT
<1>6. QED
  BY <1>1, <1>2, <1>3, <1>5 DEF NoCall

\* A resume that takes a step returns no inspection.
LEMMA ResumesReturnNothing ==
    ASSUME Inv, NEW r \in Resumers, Resume(r) \/ AbortCommitted(r) \/ Hold(r), NEW i \in Inspectors
    PROVE  NoReturn(i)
<1>1. /\ call \in [Callers -> CallT] /\ r \in Callers /\ i \in Callers \ {r}
      /\ {"head", "settled", "refused", "returned", "held", "live"} \subseteq Places
  BY CallersAreDistinct DEF Inv, TypeOK, CallT, Callers, Places, Ended
<1>2. \A how \in Places :
         /\ End(r, how) \in [Callers -> CallT] /\ End(r, how)[i] = call[i]
         /\ Go(r, how)[i] = call[i]
  BY <1>1, OwnStepOnly
<1>3. ASSUME NEW g, NEW how \in Places, Remove(g, End(r, how)) \/ MakeReady(g, End(r, how))
      PROVE  NoReturn(i)
  <2>1. End(r, how)[i].at # "returned" \/ At(i) = "returned"
    BY <1>2 DEF At
  <2>2. QED
    BY <1>1, <1>2, <1>3, <2>1, WakingReturnsNothing
<1>4. CASE Reserve(r)
  <2>1. call'[i] = call[i]
    BY <1>1, <1>2, <1>4 DEF Reserve
  <2>2. QED
    BY <2>1 DEF NoReturn, At
<1>5. CASE CommitRejected(r) \/ ReadAgain(r) \/ AbortCommitted(r) \/ Publish(r) \/ Release(r)
  BY <1>1, <1>3, <1>5 DEF CommitRejected, ReadAgain, AbortCommitted, Publish, Release
<1>6. CASE Reserved(r)
  <2>1. CASE call' = End(r, "head") \/ call' = Go(r, "held")
    BY <1>1, <1>2, <2>1 DEF NoReturn, At
  <2>2. CASE Remove(Mine(r), End(r, "returned"))
    BY <1>1, <1>3, <2>2
  <2>3. QED
    BY <1>6, <2>1, <2>2 DEF Reserved
<1>7. QED
  BY <1>4, <1>5, <1>6 DEF Resume, Hold

\* What the chain runs returns nothing by itself.
LEMMA JobsReturnNothing ==
    ASSUME Inv, RunJob \/ AppendCall \/ ForeignWrite \/ Evict, NEW i \in Inspectors
    PROVE  NoReturn(i)
<1>1. call \in [Callers -> CallT] /\ i \in Callers /\ chain \in Seq(JobT)
      /\ {"denied", "stale", "committed", "current", "outdated"} \subseteq Places
  BY DEF Inv, TypeOK, CallT, JobT, Callers, Places
<1>2. CASE call' = call
  BY <1>2 DEF NoReturn, At
<1>3. CASE Load
  BY <1>1, <1>3 DEF Load, NoReturn, At
<1>4. CASE LoadFails
  <2> DEFINE g == Head(chain).gen
             calls == [c \in Callers |-> IF WaitsFor(c, g) THEN NoCall("refused") ELSE call[c]]
  <2>1. NoCall("refused") \in CallT /\ NoCall("refused").at # "returned"
    BY DEF NoCall, CallT, NoView, Views, Places, Ended
  <2>2. calls \in [Callers -> CallT] /\ (calls[i].at # "returned" \/ At(i) = "returned")
    BY <1>1, <2>1 DEF At
  <2>3. Remove(g, calls)
    BY <1>4 DEF LoadFails
  <2> HIDE DEF g, calls
  <2>4. QED
    BY <1>1, <2>2, <2>3, WakingReturnsNothing
<1>5. CASE CommitPrepared \/ CommitFails \/ Check
  <2>1. /\ Head(chain) = chain[1] /\ 1 \in DOMAIN chain /\ chain[1].op \in {"commit", "check"}
    BY <1>1, <1>5, FinishDoes DEF CommitPrepared, CommitFails, Check
  <2>2. PICK c \in Callers : c = Head(chain).by
    BY <2>1 DEF Inv, JobsAreOwned, OwnerOf, Callers
  <2>3. PICK place \in {"denied", "stale", "committed", "current", "outdated"} : call' = Go(c, place)
    BY <1>5, <2>2 DEF CommitPrepared, CommitFails, Check
  <2>4. Go(c, place)[i].at = IF i = c THEN place ELSE call[i].at
    BY <1>1, OwnStepOnly
  <2>5. QED
    BY <2>3, <2>4 DEF NoReturn, At
<1>6. CASE Remove(entry.gen, call)
  BY <1>1, <1>6, WakingReturnsNothing DEF At
<1>7. CASE AppendRefused \/ AppendBegin \/ AppendEnd \/ Write \/ WriteFails \/ Retire
  BY <1>2, <1>6, <1>7 DEF AppendRefused, AppendBegin, AppendEnd, Write, WriteFails, Retire, Written
<1>8. CASE AppendCall \/ ForeignWrite \/ Evict
  BY <1>2, <1>8 DEF AppendCall, ForeignWrite, Evict
<1>9. QED
  BY <1>3, <1>4, <1>5, <1>7, <1>8 DEF RunJob

\* An inspection returns after a check that found its view current.
LEMMA OnlyCurrentReturns ==
    ASSUME Inv, Next, NEW i \in Inspectors, ~NoReturn(i)
    PROVE  At(i) = "current"
<1>1. /\ call \in [Callers -> CallT] /\ i \in Callers
      /\ {"head", "waited", "check", "refused", "returned", "borrowed", "live-answer"} \subseteq Places
  BY DEF Inv, TypeOK, CallT, Callers, Places, Ended
<1>2. call' = call => NoReturn(i)
  BY DEF NoReturn, At
<1>3. ASSUME NEW c \in Callers, NEW how \in Places, how # "returned",
             call' \in {End(c, how), Go(c, how)} \/ Remove(Mine(c), End(c, how))
      PROVE  NoReturn(i)
  <2>1. /\ End(c, how) \in [Callers -> CallT]
        /\ End(c, how)[i].at = IF i = c THEN how ELSE call[i].at
        /\ Go(c, how)[i].at = IF i = c THEN how ELSE call[i].at
    BY <1>1, OwnStepOnly
  <2>2. CASE call' \in {End(c, how), Go(c, how)}
    BY <1>3, <2>1, <2>2 DEF NoReturn, At
  <2>3. CASE Remove(Mine(c), End(c, how))
    <3>1. End(c, how)[i].at # "returned" \/ At(i) = "returned"
      BY <1>3, <2>1 DEF At
    <3>2. QED
      BY <1>1, <2>1, <2>3, <3>1, WakingReturnsNothing
  <2>4. QED
    BY <1>3, <2>2, <2>3
<1>4. ASSUME NEW c \in Callers, WaitForRetirement(c) \/ AnswerFromLive(c) \/ Abort(c)
      PROVE  NoReturn(i)
  BY <1>1, <1>3, <1>4 DEF WaitForRetirement, AnswerFromLive, Abort
<1>5. ASSUME NEW c \in Callers, Enter(c)  PROVE NoReturn(i)
  <2>1. call'[i].at = IF i = c THEN "result" ELSE call[i].at
    BY <1>1, <1>5 DEF Enter
  <2>2. QED
    BY <2>1 DEF NoReturn, At
<1>6. ASSUME NEW k \in Inspectors, QueueCheck(k)  PROVE NoReturn(i)
  <2>1. k \in Callers
    BY DEF Callers
  <2>2. QED
    BY <1>1, <1>3, <1>6, <2>1 DEF QueueCheck
<1>7. ASSUME NEW k \in Inspectors, AfterCheck(k)  PROVE At(i) = "current"
  <2>1. k \in Callers
    BY DEF Callers
  <2>2. CASE At(k) = "current" /\ call' = End(k, "returned")
    <3>1. i # k => call'[i] = call[i]
      BY <1>1, <2>1, <2>2, OwnStepOnly
    <3>2. i = k
      BY <3>1 DEF NoReturn, At
    <3>3. QED
      BY <3>2, <2>2
  <2>3. CASE call' = End(k, "borrowed") \/ call' = End(k, "head") \/ Remove(Mine(k), End(k, "head"))
    BY <1>1, <1>3, <2>1, <2>3
  <2>4. QED
    BY <1>7, <2>2, <2>3 DEF AfterCheck
<1>8. ASSUME NEW r \in Resumers, SetupAppends(r) \/ LiveAppends(r) \/ Drain(r) \/ Dispose(r) \/ QueueRetire(r)
      PROVE  NoReturn(i)
  BY <1>2, <1>8 DEF SetupAppends, LiveAppends, Drain, Dispose, QueueRetire
<1>9. QED
  BY <1>4, <1>5, <1>6, <1>7, <1>8, ResumesReturnNothing, JobsReturnNothing DEF Next, Inspect

\* What inspect returns was the durable log at some moment after it joined its
\* entry.
THEOREM ViewsStayFresh == Spec => ViewsAreFresh
<1> DEFINE Step == \A i \in Inspectors :
                      call'[i].at = "returned" /\ At(i) # "returned" => View(i).length >= call[i].since
<1>1. Inv /\ Next => Step
  <2> SUFFICES ASSUME Inv, Next, NEW i \in Inspectors, ~NoReturn(i)  PROVE View(i).length >= call[i].since
    BY DEF NoReturn
  <2>1. At(i) = "current"
    BY OnlyCurrentReturns
  <2>2. View(i).length \in Nat /\ call[i].since \in Nat
    BY DEF Inv, TypeOK, View, Callers, Views
  <2>3. QED
    BY <2>1, <2>2 DEF Inv, ChecksAreFresh
<1>2. Inv /\ UNCHANGED vars => Step
  BY DEF vars, At
<1>3. Inv /\ [Next]_vars => [Step]_vars
  BY <1>1, <1>2
<1>4. QED
  BY <1>3, InvHolds, PTL DEF Spec, ViewsAreFresh
=============================================================================
