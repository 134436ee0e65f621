--------------------------- MODULE Workflow_proofs ---------------------------
(***************************************************************************)
(* Proofs about a workflow run, for every number of agent() calls and      *)
(* every slot limit: what the host and the worker know of each other       *)
(* through the two channels, and what follows for the outcome, the events, *)
(* the children and the slots.                                             *)
(***************************************************************************)
EXTENDS Workflow, FiniteSetTheorems, SequenceTheorems, TLAPS

-----------------------------------------------------------------------------
(* The channels.                                                           *)

\* Channel s holds a message of a type about a call.
Has(s, type, a) == \E i \in DOMAIN s : s[i] = Msg(type, a)

\* ... and no second one.
Once(s, type, a) ==
    \A i, j \in DOMAIN s : s[i] = Msg(type, a) /\ s[j] = Msg(type, a) => i = j

Reasons == {"completed", "error", "cancelled"}
CallTypes == {"childStart", "childDispose", "agentStart", "agentEnd",
              "childStarted", "childStartError", "childResult", "childDisposed"}

Message ==
    {m \in [type : CallTypes \cup {"ready", "result", "go", "cancel"},
            about : Agents \cup Reasons \cup {"run"}] :
        /\ m.type \in CallTypes => m.about \in Agents
        /\ m.type = "result" => m.about \in Reasons
        /\ m.type \in {"ready", "go", "cancel"} => m.about = "run"}

ChannelsAreTyped == up \in Seq(Message) /\ down \in Seq(Message)

-----------------------------------------------------------------------------
(* The invariant.                                                          *)

\* Whatever stops a run also closes it, and a death is final.
HostIsConsistent ==
    /\ claimed = "none" <=> outcome = "none"
    /\ graceArmed => cancelled /\ outcome = "none"
    /\ death # "no" => claimed # "none"
    /\ disposal # "no" => cancelled \/ claimed # "none"
    /\ disposal = "done" => death = "exited"
    /\ disposal \in {"closing", "done"} /\ ~overran => \A a \in Agents : child[a] \notin Pending
    /\ aborted => Closed

\* The worker knows of a cancel only from the host.
CancelIsKnown ==
    told \/ Has(down, "cancel", "run") \/ Has(up, "result", "cancelled") => cancelled

\* The answer to a call's childStart is on its way.
Answered(a) == Has(down, "childStarted", a) \/ Has(down, "childStartError", a)

\* A childDispose joined a disposal that is under way.
Joined(a) == a \in ackOwed /\ child[a] = "disposing"

\* What each side of call a knows: a request is on its way, being served or
\* answered, never two of these, and the call is where it waits for the answer.
InStep(a) ==
    /\ call[a] \in {"idle", "queued"} => child[a] = "none"
    /\ call[a] \in {"idle", "queued", "asked"} => starts[a] = 0
    /\ a \in ackOwed => call[a] \in {"closing", "done"} /\ child[a] \in {"disposing", "disposed"}
    /\ child[a] = "starting" /\ death = "no" => call[a] = "asked"
    /\ Has(up, "childStart", a) => call[a] = "asked" /\ child[a] = "none"
    /\ Has(up, "childDispose", a) => call[a] = "closing" /\ a \notin ackOwed
    /\ Has(up, "agentStart", a) => starts[a] = 0 /\ call[a] \in {"running", "closing", "done"}
    /\ Answered(a) =>
          call[a] = "asked" /\ child[a] # "starting" /\ ~Has(up, "childStart", a)
    /\ ~(Has(down, "childStarted", a) /\ Has(down, "childStartError", a))
    /\ Has(down, "childDisposed", a) =>
          call[a] = "closing" /\ ~Has(up, "childDispose", a) /\ ~Joined(a)
    /\ Joined(a) /\ death = "no" => call[a] = "closing"

\* Each message of a call's life is sent once.
SentOnce(a) ==
    /\ \A type \in {"childStart", "childDispose", "agentStart"} : Once(up, type, a)
    /\ \A type \in {"childStarted", "childStartError", "childDisposed"} : Once(down, type, a)

CallsAreInStep == \A a \in Agents : InStep(a) /\ SentOnce(a)

\* A call waits in line once.
LineIsDistinct == \A i, j \in DOMAIN queue : queue[i] = queue[j] => i = j

\* The inductive invariant.
Inv ==
    /\ TypeOK /\ ChannelsAreTyped /\ HostIsConsistent /\ CancelIsKnown /\ CallsAreInStep
    /\ LineIsDistinct /\ OutcomeIsHonest /\ EndsAreExact /\ NoOrphans /\ SlotsAreExact

-----------------------------------------------------------------------------
(* What the operators on the channels do.                                  *)

\* Channel s2 is s with one message more.
Sends(s, s2, xt, xa) ==
    \A type, a :
        /\ Has(s2, type, a) <=> Has(s, type, a) \/ (type = xt /\ a = xa)
        /\ Once(s, type, a) /\ ~(type = xt /\ a = xa /\ Has(s, xt, xa)) => Once(s2, type, a)

\* Channel s2 is s without its first message, m.
Receives(s, s2, m) ==
    \A type, a :
        /\ Has(s2, type, a) => Has(s, type, a)
        /\ Once(s, type, a) => Once(s2, type, a)
        /\ m = Msg(type, a) => Has(s, type, a) /\ (Once(s, type, a) => ~Has(s2, type, a))

\* Appending a message sends it: it is alone unless it was there before.
LEMMA AppendSends ==
  ASSUME NEW s \in Seq(Message), NEW xt, NEW xa
  PROVE  Sends(s, Append(s, Msg(xt, xa)), xt, xa)
  <1> DEFINE s2 == Append(s, Msg(xt, xa))
  <1>1. /\ Len(s) \in Nat /\ Len(s2) = Len(s) + 1
        /\ DOMAIN s = 1..Len(s) /\ DOMAIN s2 = 1..(Len(s) + 1)
        /\ \A i \in 1..Len(s) : s2[i] = s[i]
        /\ s2[Len(s) + 1] = Msg(xt, xa)
    OBVIOUS
  <1>2. ASSUME NEW type, NEW a PROVE Msg(xt, xa) = Msg(type, a) <=> type = xt /\ a = xa
    BY DEF Msg
  <1> HIDE DEF s2
  <1>3. ASSUME NEW type, NEW a
        PROVE  Has(s2, type, a) <=> Has(s, type, a) \/ (type = xt /\ a = xa)
    BY <1>1, <1>2 DEF Has
  <1>4. ASSUME NEW type, NEW a, Once(s, type, a), ~(type = xt /\ a = xa)
        PROVE  Once(s2, type, a)
    BY <1>1, <1>2, <1>4 DEF Once
  <1>5. ~Has(s, xt, xa) => Once(s2, xt, xa)
    BY <1>1 DEF Once, Has
  <1>6. Sends(s, s2, xt, xa)  BY <1>3, <1>4, <1>5 DEF Sends
  <1> QED  BY <1>6 DEF s2

\* Taking the tail receives the head: it was on its way, and is not any more
\* if it was alone; nothing arrives.
LEMMA TailReceives ==
  ASSUME NEW s \in Seq(Message), s # <<>>
  PROVE  /\ Head(s) \in Message /\ Tail(s) \in Seq(Message)
         /\ Receives(s, Tail(s), Head(s))
  <1> DEFINE s2 == Tail(s)
  <1>1. /\ Len(s) \in Nat /\ Len(s) > 0 /\ DOMAIN s = 1..Len(s) /\ DOMAIN s2 = 1..(Len(s) - 1)
        /\ \A i \in 1..(Len(s) - 1) : s2[i] = s[i + 1]
        /\ Head(s) = s[1] /\ Head(s) \in Message /\ s2 \in Seq(Message)
    OBVIOUS
  <1> HIDE DEF s2
  <1>2. ASSUME NEW type, NEW a, NEW i \in DOMAIN s2, s2[i] = Msg(type, a)
        PROVE  i \in Nat /\ i > 0 /\ i + 1 \in DOMAIN s /\ s[i + 1] = Msg(type, a)
    BY <1>1, <1>2
  <1>3. ASSUME NEW type, NEW a PROVE Has(s2, type, a) => Has(s, type, a)
    BY <1>2 DEF Has
  <1>4. ASSUME NEW type, NEW a, Once(s, type, a) PROVE Once(s2, type, a)
    <2> SUFFICES ASSUME NEW i \in DOMAIN s2, NEW j \in DOMAIN s2,
                        s2[i] = Msg(type, a), s2[j] = Msg(type, a)
                 PROVE  i = j
      BY DEF Once
    <2>1. i + 1 = j + 1 /\ i \in Nat /\ j \in Nat  BY <1>2, <1>4 DEF Once
    <2> QED  BY <2>1
  <1>5. ASSUME NEW type, NEW a, Head(s) = Msg(type, a)
        PROVE  Has(s, type, a) /\ (Once(s, type, a) => ~Has(s2, type, a))
    <2>1. 1 \in DOMAIN s /\ s[1] = Msg(type, a)  BY <1>1, <1>5
    <2>2. Has(s, type, a)  BY <2>1 DEF Has
    <2>3. ASSUME Once(s, type, a), NEW i \in DOMAIN s2, s2[i] = Msg(type, a) PROVE FALSE
      <3>1. i + 1 \in DOMAIN s /\ s[i + 1] = Msg(type, a) /\ i \in Nat /\ i > 0
        BY <1>2, <2>3
      <3>2. 1 = i + 1  BY <2>1, <2>3, <3>1 DEF Once
      <3> QED  BY <3>1, <3>2
    <2> QED  BY <2>2, <2>3 DEF Has
  <1>6. Receives(s, s2, Head(s))  BY <1>3, <1>4, <1>5 DEF Receives
  <1> QED  BY <1>1, <1>6 DEF s2

\* Concatenating messages sends them one by one.
LEMMA ConcatIsAppend ==
  ASSUME NEW S, NEW s \in Seq(S), NEW m \in S, NEW n \in S
  PROVE  s \o <<m>> = Append(s, m) /\ s \o <<m, n>> = Append(Append(s, m), n)
  <1>1. ASSUME NEW t \in Seq(S), NEW u \in Seq(S), Len(t) = Len(u),
               \A i \in 1..Len(t) : t[i] = u[i]
        PROVE  t = u
    BY <1>1, SeqEqual
  <1>2. s \o <<m>> = Append(s, m)
    <2> DEFINE t == s \o <<m>>
               u == Append(s, m)
    <2>1. t \in Seq(S) /\ u \in Seq(S) /\ Len(t) = Len(s) + 1 /\ Len(u) = Len(s) + 1
      OBVIOUS
    <2>2. \A i \in 1..Len(t) : t[i] = u[i]
      OBVIOUS
    <2> QED  BY <1>1, <2>1, <2>2
  <1>3. s \o <<m, n>> = Append(Append(s, m), n)
    <2> DEFINE t == s \o <<m, n>>
               u == Append(Append(s, m), n)
    <2>1. t \in Seq(S) /\ u \in Seq(S) /\ Len(t) = Len(s) + 2 /\ Len(u) = Len(s) + 2
      OBVIOUS
    <2>2. \A i \in 1..Len(t) : t[i] = u[i]
      OBVIOUS
    <2> QED  BY <1>1, <2>1, <2>2
  <1> QED  BY <1>2, <1>3

\* A message about a call is one of the channels' messages.
LEMMA CallMessage ==
  ASSUME NEW type \in CallTypes, NEW a \in Agents PROVE Msg(type, a) \in Message
  BY DEF Msg, Message, CallTypes

\* The other messages are the run's signals and the worker's one result.
LEMMA RunMessage ==
  /\ \A type \in {"ready", "go", "cancel"} : Signal(type) \in Message
  /\ \A reason \in Reasons : Msg("result", reason) \in Message
  BY DEF Msg, Signal, Message, CallTypes, Reasons

\* post() sends a message while the worker is alive and is a no-op after.
LEMMA PostSends ==
  ASSUME NEW xt, NEW xa, Msg(xt, xa) \in Message, down \in Seq(Message), Post(<<Msg(xt, xa)>>)
  PROVE  /\ down' \in Seq(Message)
         /\ death = "no" => Sends(down, down', xt, xa)
         /\ death # "no" => down' = down
  <1> DEFINE m == Msg(xt, xa)
             sent == Append(down, m)
  <1>1. m \in Message  OBVIOUS
  <1>2. sent \in Seq(Message) /\ Sends(down, sent, xt, xa)
    BY <1>1, AppendSends
  <1> HIDE DEF m
  <1>3. down \o <<m>> = sent  BY <1>1, ConcatIsAppend
  <1>4. down' = IF death = "no" THEN sent ELSE down
    BY <1>3 DEF Post, m
  <1> HIDE DEF sent
  <1> QED  BY <1>2, <1>4

-----------------------------------------------------------------------------
(* Calls stay in step.                                                     *)

\* Nothing about call a was added to a channel.
Fewer(s, s2, a) ==
    \A type \in CallTypes :
        (Has(s2, type, a) => Has(s, type, a)) /\ (Once(s, type, a) => Once(s2, type, a))

\* What a step that works on other things leaves of call a: at most its child
\* is reaped and a message of its own is taken from a channel.
Undisturbed(a) ==
    /\ call'[a] = call[a] /\ starts'[a] = starts[a] /\ (a \in ackOwed' <=> a \in ackOwed)
    /\ child'[a] = child[a] \/ (child[a] = "live" /\ child'[a] = "disposing")
    /\ death' = "no" => death = "no"
    /\ Fewer(up, up', a) /\ Fewer(down, down', a)

\* A step that works for none of the calls, or for one that it keeps in step,
\* keeps all of them in step.
LEMMA OthersInStep ==
  ASSUME CallsAreInStep,
         \A a \in Agents : Undisturbed(a) \/ (InStep(a)' /\ SentOnce(a)')
  PROVE  CallsAreInStep'
  <1>1. ASSUME NEW a \in Agents, InStep(a), SentOnce(a), Undisturbed(a)
        PROVE  InStep(a)' /\ SentOnce(a)'
    <2>1. InStep(a)'
      BY <1>1 DEF InStep, Undisturbed, Fewer, Joined, Answered, CallTypes
    <2>2. SentOnce(a)'
      BY <1>1 DEF SentOnce, Undisturbed, Fewer, CallTypes
    <2> QED  BY <2>1, <2>2
  <1> QED  BY <1>1 DEF CallsAreInStep

\* A message about one call is nothing to the others, and a message that is
\* received leaves no more than there was.
LEMMA FewerForOthers ==
  /\ \A s, s2, xt, xa, a : Sends(s, s2, xt, xa) /\ a # xa => Fewer(s, s2, a)
  /\ \A s, s2, m, a : Receives(s, s2, m) => Fewer(s, s2, a)
  /\ \A s, a : Fewer(s, s, a)
  BY DEF Sends, Receives, Fewer

\* A call that takes a slot asks for its child: from the script's own task or
\* from the line.
LEMMA AskInStep ==
  ASSUME NEW a \in Agents, InStep(a), SentOnce(a), call[a] \in {"idle", "queued"},
         call'[a] = "asked", Sends(up, up', "childStart", a), Fewer(down, down', a),
         UNCHANGED <<child, starts, ackOwed, death>>
  PROVE  InStep(a)' /\ SentOnce(a)'
  <1>1. /\ child[a] = "none" /\ starts[a] = 0 /\ a \notin ackOwed
        /\ ~Has(up, "childStart", a) /\ ~Has(up, "childDispose", a) /\ ~Has(up, "agentStart", a)
        /\ ~Has(down, "childStarted", a) /\ ~Has(down, "childStartError", a)
        /\ ~Has(down, "childDisposed", a)
    BY DEF InStep, Answered
  <1>2. /\ ~Has(up', "childDispose", a) /\ ~Has(up', "agentStart", a)
        /\ ~Has(down', "childStarted", a) /\ ~Has(down', "childStartError", a)
        /\ ~Has(down', "childDisposed", a)
    BY <1>1 DEF Sends, Fewer, CallTypes
  <1>3. InStep(a)'
    BY <1>1, <1>2 DEF InStep, Answered, Joined
  <1>4. SentOnce(a)'
    BY <1>1 DEF SentOnce, Sends, Fewer, CallTypes
  <1> QED  BY <1>3, <1>4

\* agent() keeps the calls in step, whether it asks or waits in line.
LEMMA ScriptCallsInStep ==
  ASSUME Inv, NEW a \in Agents, ScriptCalls(a) PROVE CallsAreInStep'
  <1>0. /\ TypeOK /\ CallsAreInStep /\ up \in Seq(Message) /\ InStep(a) /\ SentOnce(a)
        /\ call[a] = "idle" /\ call \in [Agents -> Holding \cup {"idle", "queued", "done"}]
        /\ UNCHANGED <<hostVars, down>>
    BY DEF Inv, ChannelsAreTyped, CallsAreInStep, ScriptCalls, TypeOK
  <1>1. CASE active < limit
    <2>1. Sends(up, up', "childStart", a) /\ call' = [call EXCEPT ![a] = "asked"]
      <3>1. up' = Append(up, Msg("childStart", a)) /\ call' = [call EXCEPT ![a] = "asked"]
        BY <1>1 DEF ScriptCalls
      <3>2. Sends(up, Append(up, Msg("childStart", a)), "childStart", a)
        BY <1>0, AppendSends
      <3> QED  BY <3>1, <3>2
    <2>2. \A b \in Agents \ {a} : Undisturbed(b)
      BY <1>0, <2>1, FewerForOthers DEF Undisturbed, hostVars
    <2>3. InStep(a)' /\ SentOnce(a)'
      BY <1>0, <2>1, FewerForOthers, AskInStep DEF hostVars
    <2> QED  BY <1>0, <2>2, <2>3, OthersInStep
  <1>2. CASE ~(active < limit)
    <2>1. up' = up /\ call' = [call EXCEPT ![a] = "queued"]
      BY <1>0, <1>2 DEF ScriptCalls
    <2>2. \A b \in Agents \ {a} : Undisturbed(b)
      BY <1>0, <2>1, FewerForOthers DEF Undisturbed, hostVars
    <2>3. InStep(a)' /\ SentOnce(a)'
      BY <1>0, <2>1 DEF hostVars, InStep, Answered, Joined, SentOnce
    <2> QED  BY <1>0, <2>2, <2>3, OthersInStep
  <1> QED  BY <1>1, <1>2

\* The first message of a channel is the one that is received.
LEMMA Taken ==
  ASSUME NEW s \in Seq(Message), s # <<>>
  PROVE  /\ Tail(s) \in Seq(Message) /\ Receives(s, Tail(s), Head(s))
         /\ \A a : Fewer(s, Tail(s), a)
         /\ Head(s) = Msg(Head(s).type, Head(s).about)
         /\ Head(s).type \in CallTypes => Head(s).about \in Agents
         /\ Head(s).type = "result" => Head(s).about \in Reasons
         /\ Head(s).type \in {"ready", "go", "cancel"} => Head(s).about = "run"
  <1>1. /\ Head(s) \in Message /\ Tail(s) \in Seq(Message)
        /\ Receives(s, Tail(s), Head(s))
    BY TailReceives
  <1>2. \A m \in Message : /\ m = Msg(m.type, m.about)
                           /\ m.type \in CallTypes => m.about \in Agents
                           /\ m.type = "result" => m.about \in Reasons
                           /\ m.type \in {"ready", "go", "cancel"} => m.about = "run"
    BY DEF Message, Msg
  <1> QED  BY <1>1, <1>2, FewerForOthers

\* A released slot leaves its call in step and done, and the call that takes
\* it over is asked for.
LEMMA ReleaseInStep ==
  ASSUME Inv, WorkerReceives, NEW a \in Agents,
         Head(down).type \in {"childStartError", "childDisposed"}, Head(down).about = a,
         Release(a), UNCHANGED hostVars
  PROVE  CallsAreInStep'
  <1>0. /\ TypeOK /\ CallsAreInStep /\ up \in Seq(Message) /\ down \in Seq(Message)
        /\ InStep(a) /\ SentOnce(a) /\ down # <<>> /\ down' = Tail(down)
        /\ call \in [Agents -> Holding \cup {"idle", "queued", "done"}]
    BY DEF Inv, ChannelsAreTyped, CallsAreInStep, WorkerReceives, TypeOK
  <1>1. /\ Receives(down, down', Msg(Head(down).type, a))
        /\ \A b : Fewer(down, down', b)
    BY <1>0, Taken
  <1>2. /\ call[a] \in {"asked", "closing"} /\ (call[a] = "asked" => a \notin ackOwed)
        /\ ~Has(up, "childStart", a) /\ ~Has(up, "childDispose", a)
        /\ ~Has(down', "childStarted", a) /\ ~Has(down', "childStartError", a)
        /\ ~Has(down', "childDisposed", a)
        /\ ~(Joined(a) /\ death = "no") /\ ~(child[a] = "starting" /\ death = "no")
        /\ Has(up, "agentStart", a) => starts[a] = 0
    <2>1. CASE Head(down).type = "childStartError"
      <3>1. Has(down, "childStartError", a) /\ ~Has(down', "childStartError", a)
        BY <1>0, <1>1, <2>1 DEF Receives, SentOnce
      <3>2. /\ call[a] = "asked" /\ child[a] # "starting" /\ ~Has(up, "childStart", a)
            /\ ~Has(down, "childStarted", a) /\ a \notin ackOwed
        BY <1>0, <3>1 DEF InStep, Answered
      <3> QED  BY <1>0, <1>1, <3>1, <3>2 DEF InStep, Fewer, Joined, CallTypes
    <2>2. CASE Head(down).type = "childDisposed"
      <3>1. Has(down, "childDisposed", a) /\ ~Has(down', "childDisposed", a)
        BY <1>0, <1>1, <2>2 DEF Receives, SentOnce
      <3>2. call[a] = "closing" /\ ~Has(up, "childDispose", a) /\ ~Joined(a)
        BY <1>0, <3>1 DEF InStep
      <3> QED  BY <1>0, <1>1, <3>1, <3>2 DEF InStep, Fewer, Answered, CallTypes
    <2> QED  BY <2>1, <2>2
  <1>3. ASSUME call'[a] = "done",
               \A type \in CallTypes : /\ Has(up', type, a) => Has(up, type, a)
                                       /\ Once(up, type, a) => Once(up', type, a)
        PROVE  InStep(a)' /\ SentOnce(a)'
    <2>1. InStep(a)'
      BY <1>0, <1>2, <1>3 DEF InStep, Answered, Joined, hostVars, CallTypes
    <2>2. SentOnce(a)'
      BY <1>0, <1>1, <1>3 DEF SentOnce, Fewer, CallTypes
    <2> QED  BY <2>1, <2>2
  <1>4. CASE queue = <<>>
    <2>1. up' = up /\ call' = [call EXCEPT ![a] = "done"]  BY <1>4 DEF Release
    <2>2. \A b \in Agents \ {a} : Undisturbed(b)
      BY <1>0, <1>1, <2>1, FewerForOthers DEF Undisturbed, hostVars
    <2>3. InStep(a)' /\ SentOnce(a)'  BY <1>0, <1>3, <2>1
    <2> QED  BY <1>0, <2>2, <2>3, OthersInStep
  <1>5. CASE queue # <<>>
    <2>0. PICK h \in Agents : h = Head(queue) /\ call[h] = "queued"
      <3>1. queue \in Seq(Agents) /\ 1 \in DOMAIN queue /\ Head(queue) = queue[1]
        BY <1>0, <1>5 DEF TypeOK
      <3>2. Head(queue) \in {b \in Agents : call[b] = "queued"}
        BY <3>1 DEF Inv, SlotsAreExact
      <3> QED  BY <3>2
    <2>1. h # a  BY <1>2, <2>0
    <2>2. /\ call' = [call EXCEPT ![a] = "done", ![h] = "asked"]
          /\ up' = Append(up, Msg("childStart", h))
      BY <1>5, <2>0 DEF Release
    <2>3. Sends(up, Append(up, Msg("childStart", h)), "childStart", h)
      BY <1>0, AppendSends
    <2>4. Sends(up, up', "childStart", h)  BY <2>2, <2>3
    <2>5. \A b \in Agents \ {a, h} : Undisturbed(b)
      BY <1>0, <1>1, <2>2, <2>4, FewerForOthers DEF Undisturbed, hostVars
    <2>6. InStep(a)' /\ SentOnce(a)'
      <3>1. Fewer(up, up', a)  BY <2>1, <2>4, FewerForOthers
      <3>2. call'[a] = "done"  BY <1>0, <2>1, <2>2
      <3> QED  BY <1>3, <3>1, <3>2 DEF Fewer
    <2>7. InStep(h)' /\ SentOnce(h)'
      <3>1. InStep(h) /\ SentOnce(h)  BY <1>0 DEF CallsAreInStep
      <3>2. call'[h] = "asked"  BY <1>0, <2>1, <2>2
      <3> QED  BY <1>1, <2>0, <2>4, <3>1, <3>2, AskInStep DEF hostVars
    <2> QED  BY <1>0, <2>5, <2>6, <2>7, OthersInStep
  <1> QED  BY <1>4, <1>5

\* startAgent() goes on with its child, or winds it down when the run was
\* cancelled meanwhile: the call stays in step.
LEMMA CallStartsInStep ==
  ASSUME Inv, WorkerReceives, NEW a \in Agents,
         Head(down) = Msg("childStarted", a), CallStarts(a), UNCHANGED hostVars
  PROVE  CallsAreInStep'
  <1>0. /\ TypeOK /\ CallsAreInStep /\ up \in Seq(Message) /\ down \in Seq(Message)
        /\ InStep(a) /\ SentOnce(a) /\ down # <<>> /\ down' = Tail(down)
        /\ call \in [Agents -> Holding \cup {"idle", "queued", "done"}]
    BY DEF Inv, ChannelsAreTyped, CallsAreInStep, WorkerReceives, TypeOK
  <1>1. /\ Receives(down, down', Msg("childStarted", a)) /\ \A b : Fewer(down, down', b)
    BY <1>0, Taken
  <1>2. Has(down, "childStarted", a) /\ ~Has(down', "childStarted", a)
    BY <1>0, <1>1 DEF Receives, SentOnce
  <1>3. /\ call[a] = "asked" /\ child[a] # "starting" /\ starts[a] = 0 /\ a \notin ackOwed
        /\ ~Has(up, "childStart", a) /\ ~Has(up, "childDispose", a) /\ ~Has(up, "agentStart", a)
        /\ ~Has(down', "childStartError", a) /\ ~Has(down', "childDisposed", a)
    <2>1. Answered(a)  BY <1>2 DEF Answered
    <2>2. /\ call[a] = "asked" /\ child[a] # "starting" /\ ~Has(up, "childStart", a)
          /\ ~Has(down, "childStartError", a)
      BY <1>0, <1>2, <2>1 DEF InStep
    <2>3. /\ starts[a] = 0 /\ a \notin ackOwed /\ ~Has(up, "childDispose", a)
          /\ ~Has(up, "agentStart", a) /\ ~Has(down, "childDisposed", a)
      BY <1>0, <2>2 DEF InStep
    <2> QED  BY <1>1, <2>2, <2>3 DEF Fewer, CallTypes
  <1>4. ASSUME NEW at, NEW type,
               \/ at = "closing" /\ type = "childDispose"
               \/ at = "running" /\ type = "agentStart",
               call'[a] = at, \A b \in Agents \ {a} : call'[b] = call[b],
               Sends(up, up', type, a)
        PROVE  CallsAreInStep'
    <2>1. Sends(up, up', type, a)  BY <1>4
    <2>2. \A b \in Agents \ {a} : Undisturbed(b)
      BY <1>0, <1>1, <1>4, <2>1, FewerForOthers DEF Undisturbed, hostVars
    <2>3. ~Has(down', "childStarted", a) /\ call'[a] = at  BY <1>0, <1>2, <1>4
    <2>4. /\ Has(up', "childDispose", a) <=> type = "childDispose"
          /\ Has(up', "agentStart", a) <=> type = "agentStart"
          /\ ~Has(up', "childStart", a)
      BY <1>3, <1>4, <2>1 DEF Sends
    <2>5. InStep(a)'
      BY <1>0, <1>3, <1>4, <2>3, <2>4 DEF InStep, Answered, Joined, hostVars
    <2>6. SentOnce(a)'
      BY <1>0, <1>1, <1>3, <1>4, <2>1 DEF SentOnce, Sends, Fewer, CallTypes
    <2> QED  BY <1>0, <2>2, <2>5, <2>6, OthersInStep
  <1>5. CASE told
    <2>1. /\ call'[a] = "closing" /\ \A b \in Agents \ {a} : call'[b] = call[b]
          /\ up' = Append(up, Msg("childDispose", a))
      BY <1>0, <1>5 DEF CallStarts
    <2>2. Sends(up, Append(up, Msg("childDispose", a)), "childDispose", a)  BY <1>0, AppendSends
    <2>3. Sends(up, up', "childDispose", a)  BY <2>1, <2>2
    <2> QED  BY <1>4, <2>1, <2>3
  <1>6. CASE ~told
    <2>1. /\ call'[a] = "running" /\ \A b \in Agents \ {a} : call'[b] = call[b]
          /\ up' = Append(up, Msg("agentStart", a))
      BY <1>0, <1>6 DEF CallStarts
    <2>2. Sends(up, Append(up, Msg("agentStart", a)), "agentStart", a)  BY <1>0, AppendSends
    <2>3. Sends(up, up', "agentStart", a)  BY <2>1, <2>2
    <2> QED  BY <1>4, <2>1, <2>3
  <1> QED  BY <1>5, <1>6

\* A child's result closes its call, once, and the call stays in step.
LEMMA CallCollectsInStep ==
  ASSUME Inv, WorkerReceives, NEW a \in Agents,
         Head(down) = Msg("childResult", a), CallCollects(a), UNCHANGED hostVars
  PROVE  CallsAreInStep'
  <1>0. /\ TypeOK /\ CallsAreInStep /\ up \in Seq(Message) /\ down \in Seq(Message)
        /\ InStep(a) /\ SentOnce(a) /\ down # <<>> /\ down' = Tail(down)
        /\ call \in [Agents -> Holding \cup {"idle", "queued", "done"}]
    BY DEF Inv, ChannelsAreTyped, CallsAreInStep, WorkerReceives, TypeOK
  <1>1. \A b : Fewer(down, down', b)  BY <1>0, Taken
  <1>2. CASE call[a] # "running"
    <2>1. UNCHANGED <<call, up>>  BY <1>2 DEF CallCollects
    <2>2. \A b \in Agents : Undisturbed(b)
      BY <1>1, <2>1, FewerForOthers DEF Undisturbed, hostVars
    <2> QED  BY <1>0, <2>2, OthersInStep
  <1>3. CASE call[a] = "running"
    <2>1. /\ call' = [call EXCEPT ![a] = "closing"]
          /\ up' = Append(Append(up, Msg("agentEnd", a)), Msg("childDispose", a))
      <3>1. Msg("agentEnd", a) \in Message /\ Msg("childDispose", a) \in Message
        BY CallMessage DEF CallTypes
      <3> QED  BY <1>0, <1>3, <3>1, ConcatIsAppend DEF CallCollects
    <2>2. /\ Sends(up, Append(up, Msg("agentEnd", a)), "agentEnd", a)
          /\ Sends(Append(up, Msg("agentEnd", a)), up', "childDispose", a)
      <3>1. Msg("agentEnd", a) \in Message  BY CallMessage DEF CallTypes
      <3>2. Append(up, Msg("agentEnd", a)) \in Seq(Message)  BY <1>0, <3>1
      <3> QED  BY <1>0, <2>1, <3>2, AppendSends
    <2>3. /\ \A type \in CallTypes \ {"agentEnd", "childDispose"} :
                /\ Has(up', type, a) => Has(up, type, a)
                /\ Once(up, type, a) => Once(up', type, a)
          /\ ~Has(up, "childDispose", a) /\ Once(up, "childDispose", a)
                => Once(up', "childDispose", a)
      BY <2>2 DEF Sends
    <2>4. ASSUME NEW b \in Agents \ {a} PROVE Undisturbed(b)
      <3>1. Fewer(up, up', b)  BY <2>2 DEF Sends, Fewer
      <3> QED  BY <1>0, <1>1, <2>1, <3>1 DEF Undisturbed, hostVars
    <2>5. call'[a] = "closing" /\ a \notin ackOwed /\ ~Has(up, "childDispose", a)
      BY <1>0, <1>3, <2>1 DEF InStep
    <2>6. InStep(a)'
      <3>1. /\ ~Has(up', "childStart", a) /\ ~Has(down', "childStarted", a)
            /\ ~Has(down', "childStartError", a) /\ ~Has(down', "childDisposed", a)
            /\ Has(up', "agentStart", a) => starts[a] = 0
            /\ ~(child[a] = "starting" /\ death = "no")
        BY <1>0, <1>1, <1>3, <2>3 DEF InStep, Answered, Fewer, CallTypes
      <3> QED  BY <1>0, <2>5, <3>1 DEF InStep, Answered, Joined, hostVars
    <2>7. SentOnce(a)'
      BY <1>0, <1>1, <2>3, <2>5 DEF SentOnce, Fewer, CallTypes
    <2> QED  BY <1>0, <2>4, <2>6, <2>7, OthersInStep
  <1> QED  BY <1>2, <1>3

\* A cancel rejects the waiters, whose calls the host knows nothing of.
LEMMA WorkerIsToldInStep ==
  ASSUME Inv, WorkerReceives, WorkerIsTold, UNCHANGED hostVars
  PROVE  CallsAreInStep'
  <1>0. /\ TypeOK /\ CallsAreInStep /\ up \in Seq(Message) /\ down \in Seq(Message)
        /\ down # <<>> /\ down' = Tail(down)
    BY DEF Inv, ChannelsAreTyped, WorkerReceives
  <1>1. \A b : Fewer(down, down', b)  BY <1>0, Taken
  <1>2. \A b : Fewer(up, up', b)
    <2>1. Sends(up, Append(up, Msg("result", "cancelled")), "result", "cancelled")
      BY <1>0, AppendSends
    <2>2. \A b : Fewer(up, Append(up, Msg("result", "cancelled")), b)
      BY <2>1 DEF Sends, Fewer, CallTypes
    <2> QED  BY <2>2, FewerForOthers DEF WorkerIsTold
  <1>3. ASSUME NEW a \in Agents PROVE Undisturbed(a) \/ (InStep(a)' /\ SentOnce(a)')
    <2>0. InStep(a) /\ SentOnce(a)  BY <1>0 DEF CallsAreInStep
    <2>1. CASE call[a] # "queued"
      <3>1. call'[a] = call[a]  BY <2>1 DEF WorkerIsTold
      <3> QED  BY <1>1, <1>2, <3>1 DEF Undisturbed, hostVars
    <2>2. CASE call[a] = "queued"
      <3>1. call'[a] = "done"  BY <2>2 DEF WorkerIsTold
      <3>2. InStep(a)'
        BY <1>1, <1>2, <2>0, <2>2, <3>1
           DEF InStep, Answered, Joined, Fewer, CallTypes, hostVars
      <3>3. SentOnce(a)'
        BY <1>1, <1>2, <2>0 DEF SentOnce, Fewer, CallTypes
      <3> QED  BY <3>2, <3>3
    <2> QED  BY <2>1, <2>2
  <1> QED  BY <1>0, <1>3, OthersInStep

\* Whatever the worker does, the calls stay in step.
LEMMA WorkerInStep == Inv /\ WorkerSteps => CallsAreInStep'
  <1> SUFFICES ASSUME Inv, WorkerSteps PROVE CallsAreInStep'  OBVIOUS
  <1>0. CallsAreInStep /\ up \in Seq(Message) /\ down \in Seq(Message)
    BY DEF Inv, ChannelsAreTyped
  <1>1. CASE WorkerReceives
    <2> DEFINE m == Head(down)
    <2>0. down # <<>> /\ down' = Tail(down) /\ UNCHANGED hostVars
      BY <1>1 DEF WorkerReceives
    <2>1. PICK a : a = m.about  OBVIOUS
    <2>2. /\ Head(down) = Msg(m.type, a) /\ (m.type \in CallTypes => a \in Agents)
          /\ \A b : Fewer(down, down', b)
      BY <1>0, <2>0, <2>1, Taken
    <2>3. CASE UNCHANGED <<call, up>>
      <3>1. \A b \in Agents : Undisturbed(b)
        BY <2>0, <2>2, <2>3, FewerForOthers DEF Undisturbed, hostVars
      <3> QED  BY <1>0, <3>1, OthersInStep
    <2>4. CASE WorkerIsTold  BY <1>1, <2>0, <2>4, WorkerIsToldInStep
    <2>5. CASE m.type = "childStarted" /\ CallStarts(a)
      BY <1>1, <2>0, <2>2, <2>5, CallStartsInStep DEF CallTypes
    <2>6. CASE m.type = "childResult" /\ CallCollects(a)
      BY <1>1, <2>0, <2>2, <2>6, CallCollectsInStep DEF CallTypes
    <2>7. CASE m.type \in {"childStartError", "childDisposed"} /\ Release(a)
      BY <1>1, <2>0, <2>1, <2>2, <2>7, ReleaseInStep DEF CallTypes
    <2> QED
      BY <1>1, <2>1, <2>3, <2>4, <2>5, <2>6, <2>7 DEF WorkerReceives, GateOpens, workerVars
  <1>2. CASE ScriptParks
    <2>1. UNCHANGED <<hostVars, up, down, call>>  BY <1>2 DEF ScriptParks
    <2>2. \A b \in Agents : Undisturbed(b)
      BY <2>1, FewerForOthers DEF Undisturbed, hostVars
    <2> QED  BY <1>0, <2>2, OthersInStep
  <1>3. CASE ScriptSettles
    <2>1. PICK reason : up' = Append(up, Msg("result", reason))
      BY <1>3 DEF ScriptSettles
    <2>2. Sends(up, Append(up, Msg("result", reason)), "result", reason)
      BY <1>0, AppendSends
    <2>3. \A b : Fewer(up, up', b)
      BY <2>1, <2>2 DEF Sends, Fewer, CallTypes
    <2>4. \A b \in Agents : Undisturbed(b)
      BY <1>3, <2>3, FewerForOthers DEF Undisturbed, hostVars, ScriptSettles
    <2> QED  BY <1>0, <2>4, OthersInStep
  <1>4. CASE \E a \in Agents : ScriptCalls(a)
    BY <1>4, ScriptCallsInStep
  <1> QED  BY <1>1, <1>2, <1>3, <1>4 DEF WorkerSteps

\* A start that is admitted has its child on the way, one that is refused its
\* answer.
LEMMA StartRequestedInStep ==
  ASSUME Inv, HostReceives, NEW a \in Agents, Head(up) = Msg("childStart", a),
         StartRequested(a), death = "no", UNCHANGED <<workerVars, death>>
  PROVE  CallsAreInStep'
  <1>0. /\ TypeOK /\ CallsAreInStep /\ up \in Seq(Message) /\ down \in Seq(Message)
        /\ InStep(a) /\ SentOnce(a) /\ up # <<>> /\ up' = Tail(up)
        /\ child \in [Agents -> Pending \cup {"none", "disposed", "refused"}]
        /\ UNCHANGED <<call, starts, ackOwed>>
    BY DEF Inv, ChannelsAreTyped, CallsAreInStep, HostReceives, TypeOK, StartRequested,
           workerVars
  <1>1. /\ Receives(up, up', Msg("childStart", a)) /\ \A b : Fewer(up, up', b)
    BY <1>0, Taken
  <1>2. Has(up, "childStart", a) /\ ~Has(up', "childStart", a)
    BY <1>0, <1>1 DEF Receives, SentOnce
  <1>3. /\ call[a] = "asked" /\ child[a] = "none" /\ starts[a] = 0 /\ a \notin ackOwed
        /\ ~Has(up', "childDispose", a) /\ ~Has(up', "agentStart", a)
        /\ ~Has(down, "childStarted", a) /\ ~Has(down, "childStartError", a)
        /\ ~Has(down, "childDisposed", a)
    BY <1>0, <1>1, <1>2 DEF InStep, Answered, Fewer, CallTypes
  <1>4. CASE Closed
    <2>1. child' = child /\ Post(<<Msg("childStartError", a)>>)
      BY <1>4 DEF StartRequested
    <2>2. Sends(down, down', "childStartError", a)
      <3>1. Msg("childStartError", a) \in Message  BY CallMessage DEF CallTypes
      <3> QED  BY <1>0, <2>1, <3>1, PostSends
    <2>3. \A b \in Agents \ {a} : Undisturbed(b)
      BY <1>0, <1>1, <2>1, <2>2, FewerForOthers DEF Undisturbed
    <2>4. ~Has(down', "childStarted", a) /\ ~Has(down', "childDisposed", a)
      BY <1>3, <2>2 DEF Sends
    <2>5. InStep(a)'
      BY <1>0, <1>2, <1>3, <2>1, <2>4 DEF InStep, Answered, Joined
    <2>6. SentOnce(a)'
      BY <1>0, <1>1, <1>3, <2>2 DEF SentOnce, Sends, Fewer, CallTypes
    <2> QED  BY <1>0, <2>3, <2>5, <2>6, OthersInStep
  <1>5. CASE ~Closed
    <2>1. child' = [child EXCEPT ![a] = "starting"] /\ down' = down
      BY <1>5 DEF StartRequested
    <2>2. \A b \in Agents \ {a} : Undisturbed(b)
      BY <1>0, <1>1, <2>1, FewerForOthers DEF Undisturbed
    <2>3. InStep(a)'
      BY <1>0, <1>2, <1>3, <2>1 DEF InStep, Answered, Joined
    <2>4. SentOnce(a)'
      BY <1>0, <1>1, <2>1 DEF SentOnce, Fewer, CallTypes
    <2> QED  BY <1>0, <2>2, <2>3, <2>4, OthersInStep
  <1> QED  BY <1>4, <1>5

\* A disposal that is asked for is under way or acknowledged.
LEMMA DisposeRequestedInStep ==
  ASSUME Inv, HostReceives, NEW a \in Agents, Head(up) = Msg("childDispose", a),
         DisposeRequested(a), death = "no", UNCHANGED <<workerVars, death>>
  PROVE  CallsAreInStep'
  <1>0. /\ TypeOK /\ CallsAreInStep /\ up \in Seq(Message) /\ down \in Seq(Message)
        /\ InStep(a) /\ SentOnce(a) /\ up # <<>> /\ up' = Tail(up)
        /\ child \in [Agents -> Pending \cup {"none", "disposed", "refused"}]
        /\ UNCHANGED <<call, starts>>
    BY DEF Inv, ChannelsAreTyped, CallsAreInStep, HostReceives, TypeOK, DisposeRequested,
           workerVars
  <1>1. /\ Receives(up, up', Msg("childDispose", a)) /\ \A b : Fewer(up, up', b)
    BY <1>0, Taken
  <1>2. Has(up, "childDispose", a) /\ ~Has(up', "childDispose", a)
    BY <1>0, <1>1 DEF Receives, SentOnce
  <1>3. /\ call[a] = "closing" /\ a \notin ackOwed
        /\ ~Has(up', "childStart", a) /\ (Has(up', "agentStart", a) => starts[a] = 0)
        /\ ~Has(down, "childStarted", a) /\ ~Has(down, "childStartError", a)
        /\ ~Has(down, "childDisposed", a) /\ child[a] # "starting"
    BY <1>0, <1>1, <1>2 DEF InStep, Answered, Fewer, CallTypes
  <1>4. CASE child[a] \in {"live", "disposing"}
    <2>1. /\ child' = [child EXCEPT ![a] = "disposing"] /\ ackOwed' = ackOwed \cup {a}
          /\ down' = down
      BY <1>4 DEF DisposeRequested
    <2>2. \A b \in Agents \ {a} : Undisturbed(b)
      BY <1>0, <1>1, <2>1, FewerForOthers DEF Undisturbed
    <2>3. InStep(a)'
      BY <1>0, <1>2, <1>3, <2>1 DEF InStep, Answered, Joined
    <2>4. SentOnce(a)'
      BY <1>0, <1>1, <2>1 DEF SentOnce, Fewer, CallTypes
    <2> QED  BY <1>0, <2>2, <2>3, <2>4, OthersInStep
  <1>5. CASE child[a] \notin {"live", "disposing"}
    <2>1. UNCHANGED <<child, ackOwed>> /\ Post(<<Msg("childDisposed", a)>>)
      BY <1>5 DEF DisposeRequested
    <2>2. Sends(down, down', "childDisposed", a)
      <3>1. Msg("childDisposed", a) \in Message  BY CallMessage DEF CallTypes
      <3> QED  BY <1>0, <2>1, <3>1, PostSends
    <2>3. \A b \in Agents \ {a} : Undisturbed(b)
      BY <1>0, <1>1, <2>1, <2>2, FewerForOthers DEF Undisturbed
    <2>4. ~Has(down', "childStarted", a) /\ ~Has(down', "childStartError", a)
      BY <1>3, <2>2 DEF Sends
    <2>5. InStep(a)'
      BY <1>0, <1>2, <1>3, <2>1, <2>4 DEF InStep, Answered, Joined
    <2>6. SentOnce(a)'
      BY <1>0, <1>1, <1>3, <2>2 DEF SentOnce, Sends, Fewer, CallTypes
    <2> QED  BY <1>0, <2>3, <2>5, <2>6, OthersInStep
  <1> QED  BY <1>4, <1>5

\* A start is narrated once.
LEMMA StartNarratedInStep ==
  ASSUME Inv, HostReceives, NEW a \in Agents, Head(up) = Msg("agentStart", a),
         StartNarrated(a), death = "no", UNCHANGED <<workerVars, death>>
  PROVE  CallsAreInStep' /\ starts[a] = 0
  <1>0. /\ TypeOK /\ CallsAreInStep /\ up \in Seq(Message)
        /\ InStep(a) /\ SentOnce(a) /\ up # <<>> /\ up' = Tail(up)
        /\ starts \in [Agents -> 0..1]
        /\ UNCHANGED <<call, child, ackOwed, down>>
    BY DEF Inv, ChannelsAreTyped, CallsAreInStep, HostReceives, TypeOK, StartNarrated,
           workerVars
  <1>1. /\ Receives(up, up', Msg("agentStart", a)) /\ \A b : Fewer(up, up', b)
    BY <1>0, Taken
  <1>2. Has(up, "agentStart", a) /\ ~Has(up', "agentStart", a)
    BY <1>0, <1>1 DEF Receives, SentOnce
  <1>3. call[a] \in {"running", "closing", "done"} /\ starts[a] = 0
    BY <1>0, <1>2 DEF InStep
  <1>4. \A b \in Agents \ {a} : Undisturbed(b)
    BY <1>0, <1>1, FewerForOthers DEF Undisturbed, StartNarrated
  <1>5. InStep(a)'
    BY <1>0, <1>1, <1>2, <1>3 DEF InStep, Answered, Joined, Fewer, CallTypes
  <1>6. SentOnce(a)'
    BY <1>0, <1>1 DEF SentOnce, Fewer, CallTypes
  <1> QED  BY <1>0, <1>3, <1>4, <1>5, <1>6, OthersInStep

\* Whatever the host receives, the calls stay in step.
LEMMA HostInStep == Inv /\ HostReceives => CallsAreInStep'
  <1> SUFFICES ASSUME Inv, HostReceives PROVE CallsAreInStep'  OBVIOUS
  <1> DEFINE m == Head(up)
  <1>0. /\ CallsAreInStep /\ up \in Seq(Message) /\ down \in Seq(Message)
        /\ up # <<>> /\ up' = Tail(up) /\ UNCHANGED <<workerVars, call>>
    BY DEF Inv, ChannelsAreTyped, HostReceives, workerVars
  <1>1. PICK a : a = m.about  OBVIOUS
  <1>2. /\ Head(up) = Msg(m.type, a) /\ (m.type \in CallTypes => a \in Agents)
        /\ \A b : Fewer(up, up', b)
    BY <1>0, <1>1, Taken
  <1>3. ASSUME UNCHANGED <<starts, ackOwed, death>>, child' \in {child, Reaped(child)},
               \A b \in Agents : Fewer(down, down', b)
        PROVE  CallsAreInStep'
    <2>1. \A b \in Agents : Undisturbed(b)
      BY <1>0, <1>2, <1>3, FewerForOthers DEF Undisturbed, Reaped
    <2> QED  BY <1>0, <2>1, OthersInStep
  <1>4. CASE death # "no"
    BY <1>3, <1>4, FewerForOthers DEF HostReceives, hostVars
  <1>5. CASE death = "no"
    <2>0. UNCHANGED death  BY <1>5 DEF HostReceives
    <2>1. CASE m.type = "ready" /\ Post(<<Signal("go")>>) /\ UNCHANGED <<starts, ackOwed, child>>
      <3>1. Sends(down, down', "go", "run")
        <4>1. Msg("go", "run") \in Message /\ Signal("go") = Msg("go", "run")
          BY RunMessage DEF Signal, Msg
        <4>2. Post(<<Msg("go", "run")>>)  BY <2>1, <4>1
        <4> QED  BY <1>0, <1>5, <4>1, <4>2, PostSends
      <3>2. \A b \in Agents : Fewer(down, down', b)
        BY <3>1 DEF Sends, Fewer, CallTypes
      <3> QED  BY <1>3, <2>0, <2>1, <3>2
    <2>2. CASE m.type = "childStart" /\ StartRequested(a)
      BY <1>0, <1>2, <1>5, <2>0, <2>2, StartRequestedInStep DEF CallTypes
    <2>3. CASE m.type = "childDispose" /\ DisposeRequested(a)
      BY <1>0, <1>2, <1>5, <2>0, <2>3, DisposeRequestedInStep DEF CallTypes
    <2>4. CASE m.type = "agentStart" /\ StartNarrated(a)
      BY <1>0, <1>2, <1>5, <2>0, <2>4, StartNarratedInStep DEF CallTypes
    <2>5. CASE m.type = "agentEnd" /\ EndNarrated(a)
      BY <1>3, <2>0, <2>5, FewerForOthers DEF EndNarrated
    <2>6. CASE m.type = "result" /\ ResultArrives(a)
      BY <1>3, <2>0, <2>6, FewerForOthers DEF ResultArrives
    <2> QED
      BY <1>1, <1>5, <2>1, <2>2, <2>3, <2>4, <2>5, <2>6 DEF HostReceives
  <1> QED  BY <1>4, <1>5

\* The answer to a start is sent once, when the provider has settled it.
LEMMA AnswerInStep ==
  ASSUME Inv, NEW a \in Agents, child[a] = "starting",
         NEW c \in {"unwinding", "live", "refused"}, child' = [child EXCEPT ![a] = c],
         NEW type \in {"childStarted", "childStartError"}, Post(<<Msg(type, a)>>),
         UNCHANGED <<call, starts, ackOwed, death, up>>
  PROVE  CallsAreInStep'
  <1>0. /\ TypeOK /\ CallsAreInStep /\ down \in Seq(Message) /\ InStep(a) /\ SentOnce(a)
        /\ child \in [Agents -> Pending \cup {"none", "disposed", "refused"}]
    BY DEF Inv, ChannelsAreTyped, CallsAreInStep, TypeOK
  <1>1. /\ ~Has(down, "childStarted", a) /\ ~Has(down, "childStartError", a)
        /\ ~Has(up, "childStart", a) /\ a \notin ackOwed /\ call[a] \notin {"idle", "queued"}
    BY <1>0 DEF InStep, Answered
  <1>2. CASE death = "no"
    <2>1. call[a] = "asked" /\ starts[a] = 0 /\ ~Has(down, "childDisposed", a)
      BY <1>0, <1>2 DEF InStep
    <2>2. Sends(down, down', type, a)
      <3>1. Msg(type, a) \in Message  BY CallMessage DEF CallTypes
      <3> QED  BY <1>0, <1>2, <3>1, PostSends
    <2>3. \A b \in Agents \ {a} : Undisturbed(b)
      BY <1>0, <2>2, FewerForOthers DEF Undisturbed
    <2>4. /\ ~Has(down', "childDisposed", a)
          /\ Has(down', "childStarted", a) <=> type = "childStarted"
          /\ Has(down', "childStartError", a) <=> type = "childStartError"
      BY <1>1, <2>1, <2>2 DEF Sends
    <2>5. InStep(a)'
      BY <1>0, <1>1, <2>1, <2>4 DEF InStep, Answered, Joined
    <2>6. SentOnce(a)'
      BY <1>0, <1>1, <2>2 DEF SentOnce, Sends
    <2> QED  BY <1>0, <2>3, <2>5, <2>6, OthersInStep
  <1>3. CASE death # "no"
    <2>1. down' = down  BY <1>3 DEF Post
    <2>2. \A b \in Agents \ {a} : Undisturbed(b)
      BY <1>0, <2>1, FewerForOthers DEF Undisturbed
    <2>3. InStep(a)' /\ SentOnce(a)'
      BY <1>0, <1>1, <1>3, <2>1 DEF InStep, Answered, Joined, SentOnce
    <2> QED  BY <1>0, <2>2, <2>3, OthersInStep
  <1> QED  BY <1>2, <1>3

\* A disposal that ends is acknowledged once to the call that joined it.
LEMMA DisposalEndsInStep ==
  ASSUME Inv, NEW a \in Agents, DisposalEnds(a) PROVE CallsAreInStep'
  <1>0. /\ TypeOK /\ CallsAreInStep /\ down \in Seq(Message) /\ InStep(a) /\ SentOnce(a)
        /\ child \in [Agents -> Pending \cup {"none", "disposed", "refused"}]
        /\ UNCHANGED <<call, starts, ackOwed, death, up>>
    BY DEF Inv, ChannelsAreTyped, CallsAreInStep, TypeOK, DisposalEnds, workerVars
  <1>1. CASE child[a] = "disposing" /\ a \in ackOwed /\ death = "no"
    <2>1. /\ child' = [child EXCEPT ![a] = "disposed"] /\ Post(<<Msg("childDisposed", a)>>)
      BY <1>1 DEF DisposalEnds
    <2>2. Sends(down, down', "childDisposed", a)
      <3>1. Msg("childDisposed", a) \in Message  BY CallMessage DEF CallTypes
      <3> QED  BY <1>0, <1>1, <2>1, <3>1, PostSends
    <2>3. /\ call[a] = "closing" /\ ~Has(down, "childDisposed", a)
          /\ ~Has(down, "childStarted", a) /\ ~Has(down, "childStartError", a)
          /\ ~Has(up, "childDispose", a) /\ ~Has(up, "childStart", a)
      BY <1>0, <1>1 DEF InStep, Joined, Answered
    <2>4. \A b \in Agents \ {a} : Undisturbed(b)
      BY <1>0, <2>1, <2>2, FewerForOthers DEF Undisturbed
    <2>5. ~Has(down', "childStarted", a) /\ ~Has(down', "childStartError", a)
      BY <2>2, <2>3 DEF Sends
    <2>6. InStep(a)'
      BY <1>0, <1>1, <2>1, <2>3, <2>5 DEF InStep, Answered, Joined
    <2>7. SentOnce(a)'
      BY <1>0, <2>2, <2>3 DEF SentOnce, Sends
    <2> QED  BY <1>0, <2>4, <2>6, <2>7, OthersInStep
  <1>2. CASE ~(child[a] = "disposing" /\ a \in ackOwed /\ death = "no")
    <2>1. /\ down' = down
          /\ \/ child[a] = "disposing" /\ child' = [child EXCEPT ![a] = "disposed"]
             \/ child[a] = "unwinding" /\ child' = [child EXCEPT ![a] = "refused"]
      BY <1>2 DEF DisposalEnds, Post
    <2>2. \A b \in Agents \ {a} : Undisturbed(b)
      BY <1>0, <2>1, FewerForOthers DEF Undisturbed
    <2>3. InStep(a)' /\ SentOnce(a)'
      BY <1>0, <2>1 DEF InStep, Answered, Joined, SentOnce
    <2> QED  BY <1>0, <2>2, <2>3, OthersInStep
  <1> QED  BY <1>1, <1>2

\* Whatever the provider settles, the calls stay in step.
LEMMA ProviderInStep ==
  ASSUME Inv, NEW a \in Agents, ProviderSteps(a) PROVE CallsAreInStep'
  <1>1. CASE StartFulfils(a)
    <2>1. PICK c \in {"unwinding", "live"}, type \in {"childStarted", "childStartError"} :
             child' = [child EXCEPT ![a] = c] /\ Post(<<Msg(type, a)>>)
      <3>1. CASE Closed  BY <1>1, <3>1 DEF StartFulfils
      <3>2. CASE ~Closed  BY <1>1, <3>2 DEF StartFulfils
      <3> QED  BY <3>1, <3>2
    <2> QED  BY <1>1, <2>1, AnswerInStep DEF StartFulfils, workerVars
  <1>2. CASE StartRejects(a)
    BY <1>2, AnswerInStep DEF StartRejects, workerVars
  <1>3. CASE ChildReports(a)
    <2>0. CallsAreInStep /\ down \in Seq(Message)  BY DEF Inv, ChannelsAreTyped
    <2>1. Sends(down, down', "childResult", a)
      <3>1. Msg("childResult", a) \in Message  BY CallMessage DEF CallTypes
      <3> QED  BY <1>3, <2>0, <3>1, PostSends DEF ChildReports
    <2>2. \A b \in Agents \ {a} : Undisturbed(b)
      BY <1>3, <2>1, FewerForOthers DEF Undisturbed, ChildReports, workerVars
    <2>3. /\ \A type \in {"childStarted", "childStartError", "childDisposed"} :
                /\ Has(down', type, a) <=> Has(down, type, a)
                /\ Once(down, type, a) => Once(down', type, a)
          /\ UNCHANGED <<call, child, starts, ackOwed, death, up>>
      BY <1>3, <2>1 DEF Sends, ChildReports, workerVars
    <2>4. InStep(a) /\ SentOnce(a)  BY <2>0 DEF CallsAreInStep
    <2>5. InStep(a)' /\ SentOnce(a)'
      BY <2>3, <2>4 DEF InStep, Answered, Joined, SentOnce
    <2> QED  BY <2>0, <2>2, <2>5, OthersInStep
  <1>4. CASE DisposalEnds(a)  BY <1>4, DisposalEndsInStep
  <1> QED  BY <1>1, <1>2, <1>3, <1>4 DEF ProviderSteps

\* The holder's steps, the timers and the thread's crash.
Boundary == HolderCancels \/ HolderDisposes \/ DisposeWaits \/ DisposeEnds \/ GraceExpires
                \/ WorkerCrashes \/ ErrorSeen

\* What they leave of the calls: nothing but a reaping and a cancel message.
LEMMA BoundaryEffect ==
  ASSUME Inv, Boundary
  PROVE  /\ UNCHANGED <<call, starts, ackOwed, up, reported, workerVars>>
         /\ child' \in {child, Reaped(child)} /\ (death' = death \/ death' = "seen")
         /\ \/ down' = down
            \/ ~cancelled /\ cancelled' /\ down' \in Seq(Message)
               /\ Sends(down, down', "cancel", "run")
  <1>0. down \in Seq(Message)  BY DEF Inv, ChannelsAreTyped
  <1>1. ASSUME Cancel, death' = death
        PROVE  \/ down' = down
               \/ ~cancelled /\ cancelled' /\ down' \in Seq(Message)
                  /\ Sends(down, down', "cancel", "run")
    <2>1. Msg("cancel", "run") \in Message /\ Signal("cancel") = Msg("cancel", "run")
      BY RunMessage DEF Signal, Msg
    <2>2. CASE Cancellable
      <3>1. Post(<<Msg("cancel", "run")>>) /\ ~cancelled /\ cancelled'
        BY <1>1, <2>1, <2>2 DEF Cancel, Cancellable
      <3> QED  BY <1>0, <2>1, <3>1, PostSends
    <2>3. CASE ~Cancellable  BY <1>1, <2>3 DEF Cancel
    <2> QED  BY <2>2, <2>3
  <1>2. CASE HolderCancels  BY <1>1, <1>2 DEF HolderCancels, workerVars
  <1>3. CASE HolderDisposes  BY <1>1, <1>3 DEF HolderDisposes, workerVars
  <1>4. CASE DisposeWaits \/ DisposeEnds  BY <1>4 DEF DisposeWaits, DisposeEnds, workerVars
  <1>5. CASE GraceExpires  BY <1>5 DEF GraceExpires, workerVars
  <1>6. CASE WorkerCrashes  BY <1>6 DEF WorkerCrashes, workerVars, hostVars
  <1>7. CASE ErrorSeen  BY <1>7 DEF ErrorSeen, FirstDeath, workerVars
  <1> QED  BY <1>2, <1>3, <1>4, <1>5, <1>6, <1>7 DEF Boundary

\* None of these steps disturbs a call.
LEMMA BoundaryInStep == Inv /\ Boundary => CallsAreInStep'
  <1> SUFFICES ASSUME Inv, Boundary PROVE CallsAreInStep'  OBVIOUS
  <1>1. \A b : Fewer(down, down', b)
    BY BoundaryEffect, FewerForOthers DEF Sends, Fewer, CallTypes
  <1>2. \A b \in Agents : Undisturbed(b)
    BY <1>1, BoundaryEffect, FewerForOthers DEF Undisturbed, Reaped
  <1> QED  BY <1>2, OthersInStep DEF Inv

\* With the thread its calls and its messages go.
LEMMA ExitInStep == Inv /\ ThreadExits => CallsAreInStep'
  <1> SUFFICES ASSUME Inv, ThreadExits, NEW a \in Agents PROVE (InStep(a) /\ SentOnce(a))'
    BY DEF CallsAreInStep
  <1>0. InStep(a)  BY DEF Inv, CallsAreInStep
  <1>1. /\ up' = <<>> /\ down' = <<>> /\ call'[a] = "done" /\ death' = "exited"
        /\ child' = Reaped(child) /\ UNCHANGED <<starts, ackOwed>>
    BY DEF ThreadExits, FirstDeath
  <1>2. \A type, b : ~Has(<<>>, type, b) /\ Once(<<>>, type, b)  BY DEF Has, Once
  <1>3. InStep(a)'
    BY <1>0, <1>1, <1>2 DEF InStep, Answered, Joined, Reaped
  <1>4. SentOnce(a)'
    BY <1>1, <1>2 DEF SentOnce
  <1> QED  BY <1>3, <1>4

\* The actions, by the party that takes them.
LEMMA StepCases ==
  ASSUME Next
  PROVE  \/ WorkerSteps \/ HostReceives \/ Boundary \/ ThreadExits
         \/ \E a \in Agents : ProviderSteps(a)
  BY DEF Next, Boundary

\* Whatever happens, the two sides of every call stay in step.
LEMMA InStepKept == Inv /\ [Next]_vars => CallsAreInStep'
  <1> SUFFICES ASSUME Inv, [Next]_vars PROVE CallsAreInStep'  OBVIOUS
  <1>1. CASE UNCHANGED vars
    BY <1>1 DEF Inv, CallsAreInStep, InStep, SentOnce, Answered, Joined, vars, hostVars, workerVars
  <1> QED
    BY <1>1, StepCases, WorkerInStep, HostInStep, BoundaryInStep, ExitInStep, ProviderInStep

-----------------------------------------------------------------------------
(* Slots and the line.                                                     *)

Line(q) == {q[i] : i \in DOMAIN q}
Distinct(q) == \A i, j \in DOMAIN q : q[i] = q[j] => i = j

\* Who joins the line stands in it, once if it did not before.
LEMMA JoinLine ==
  ASSUME NEW q \in Seq(Agents), NEW a \in Agents
  PROVE  /\ Append(q, a) \in Seq(Agents) /\ Line(Append(q, a)) = Line(q) \cup {a}
         /\ Distinct(q) /\ a \notin Line(q) => Distinct(Append(q, a))
  <1> DEFINE r == Append(q, a)
  <1>1. /\ Len(q) \in Nat /\ DOMAIN q = 1..Len(q) /\ DOMAIN r = 1..(Len(q) + 1)
        /\ \A i \in 1..Len(q) : r[i] = q[i]
        /\ r[Len(q) + 1] = a /\ r \in Seq(Agents)
    OBVIOUS
  <1> HIDE DEF r
  <1>2. \A x : x \in Line(r) <=> x \in Line(q) \cup {a}
    BY <1>1 DEF Line
  <1>3. Distinct(q) /\ a \notin Line(q) => Distinct(r)
    BY <1>1 DEF Distinct, Line
  <1> QED  BY <1>1, <1>2, <1>3 DEF r

\* Who is first leaves the line.
LEMMA LeaveLine ==
  ASSUME NEW q \in Seq(Agents), q # <<>>
  PROVE  /\ Tail(q) \in Seq(Agents) /\ Head(q) \in Line(q) /\ Head(q) \in Agents
         /\ Distinct(q) => Distinct(Tail(q)) /\ Line(Tail(q)) = Line(q) \ {Head(q)}
  <1> DEFINE r == Tail(q)
             h == Head(q)
  <1>1. /\ Len(q) \in Nat /\ Len(q) > 0 /\ DOMAIN q = 1..Len(q) /\ DOMAIN r = 1..(Len(q) - 1)
        /\ \A i \in 1..(Len(q) - 1) : r[i] = q[i + 1]
        /\ h = q[1] /\ h \in Agents /\ r \in Seq(Agents)
    OBVIOUS
  <1> HIDE DEF r, h
  <1>2. \A i \in DOMAIN r : i \in Nat /\ i > 0 /\ i + 1 \in DOMAIN q /\ r[i] = q[i + 1]
    BY <1>1
  <1>3. ASSUME Distinct(q) PROVE Distinct(r)
    <2> SUFFICES ASSUME NEW i \in DOMAIN r, NEW j \in DOMAIN r, r[i] = r[j] PROVE i = j
      BY DEF Distinct
    <2>1. i + 1 = j + 1 /\ i \in Nat /\ j \in Nat  BY <1>2, <1>3 DEF Distinct
    <2> QED  BY <2>1
  <1>4. ASSUME Distinct(q) PROVE Line(r) = Line(q) \ {h}
    <2>1. ASSUME NEW i \in DOMAIN r PROVE r[i] \in Line(q) /\ r[i] # h
      <3>1. 1 \in DOMAIN q /\ i + 1 # 1  BY <1>1, <1>2
      <3> QED  BY <1>1, <1>2, <1>4, <3>1 DEF Distinct, Line
    <2>2. ASSUME NEW k \in DOMAIN q, q[k] # h PROVE q[k] \in Line(r)
      <3>1. k \in 1..Len(q) /\ k # 1  BY <1>1, <2>2
      <3>2. k - 1 \in DOMAIN r /\ r[k - 1] = q[k]  BY <1>1, <3>1
      <3> QED  BY <3>2 DEF Line
    <2>3. Line(r) \subseteq Line(q) \ {h}  BY <2>1 DEF Line
    <2>4. Line(q) \ {h} \subseteq Line(r)
      <3> SUFFICES ASSUME NEW x \in Line(q), x # h PROVE x \in Line(r)  OBVIOUS
      <3>1. PICK k \in DOMAIN q : x = q[k]  BY DEF Line
      <3> QED  BY <2>2, <3>1
    <2> QED  BY <2>3, <2>4
  <1>5. h \in Line(q)  BY <1>1 DEF Line
  <1> QED  BY <1>1, <1>3, <1>4, <1>5 DEF r, h

Holders(c) == {a \in Agents : c[a] \in Holding}

\* The holders are finitely many; one more takes one slot, one less gives one.
LEMMA HoldersCount ==
  ASSUME NEW c, NEW d
  PROVE  /\ Cardinality(Holders(c)) \in Nat /\ Cardinality(Holders(c)) <= Cardinality(Agents)
         /\ Holders(c) = {} => Cardinality(Holders(c)) = 0
         /\ \A a \in Agents : a \notin Holders(c) /\ Holders(d) = Holders(c) \cup {a}
               => Cardinality(Holders(d)) = Cardinality(Holders(c)) + 1
         /\ \A a \in Agents : a \in Holders(c) /\ Holders(d) = Holders(c) \ {a}
               => Cardinality(Holders(d)) = Cardinality(Holders(c)) - 1
  <1>1. IsFiniteSet(Agents) /\ Holders(c) \in SUBSET Agents
    BY WorkflowAssumption DEF Holders
  <1>2. IsFiniteSet(Holders(c)) /\ Cardinality(Holders(c)) <= Cardinality(Agents)
    BY <1>1, FS_Subset
  <1>3. Cardinality(Holders(c)) \in Nat  BY <1>2, FS_CardinalityType
  <1>4. Cardinality({}) = 0  BY FS_EmptySet
  <1>5. \A a \in Agents : a \notin Holders(c)
           => Cardinality(Holders(c) \cup {a}) = Cardinality(Holders(c)) + 1
    BY <1>2, FS_AddElement
  <1>6. \A a \in Agents : a \in Holders(c)
           => Cardinality(Holders(c) \ {a}) = Cardinality(Holders(c)) - 1
    BY <1>2, FS_RemoveElement
  <1> QED  BY <1>2, <1>3, <1>4, <1>5, <1>6

\* The worker's account of its calls, its line and its slots.
SlotsAreKept ==
    /\ call \in [Agents -> Holding \cup {"idle", "queued", "done"}]
    /\ queue \in Seq(Agents) /\ limit \in Limits /\ active \in 0..Cardinality(Agents)
    /\ SlotsAreExact /\ LineIsDistinct

\* The same, with the line and the holders named.
SlotsNamed ==
    /\ call \in [Agents -> Holding \cup {"idle", "queued", "done"}]
    /\ queue \in Seq(Agents) /\ limit \in Limits
    /\ active = Cardinality(Holders(call)) /\ active <= limit
    /\ Line(queue) = {a \in Agents : call[a] = "queued"}
    /\ (queue # <<>> => active = limit) /\ Distinct(queue)

\* The two forms are one, before and after a step.
LEMMA SlotsDef == (SlotsAreKept <=> SlotsNamed) /\ (SlotsAreKept' <=> SlotsNamed')
  BY HoldersCount
     DEF SlotsAreKept, SlotsNamed, SlotsAreExact, LineIsDistinct, Line, Distinct, Holders

\* An acquire takes a free slot or joins the line.
LEMMA AcquireSlots ==
  ASSUME SlotsAreKept, NEW a \in Agents, ScriptCalls(a) PROVE SlotsAreKept'
  <1>0. /\ call \in [Agents -> Holding \cup {"idle", "queued", "done"}]
        /\ queue \in Seq(Agents) /\ limit \in Limits /\ limit \in Nat
        /\ active = Cardinality(Holders(call)) /\ active <= limit /\ active \in Nat
        /\ Line(queue) = {b \in Agents : call[b] = "queued"}
        /\ (queue # <<>> => active = limit) /\ Distinct(queue)
        /\ call[a] = "idle" /\ limit' = limit
    BY SlotsDef, WorkflowAssumption, HoldersCount DEF ScriptCalls, SlotsNamed
  <1>1. CASE active < limit
    <2>1. active' = active + 1 /\ call' = [call EXCEPT ![a] = "asked"] /\ queue' = queue
      BY <1>1 DEF ScriptCalls
    <2>2. a \notin Holders(call) /\ Holders(call') = Holders(call) \cup {a}
      BY <1>0, <2>1 DEF Holders, Holding
    <2>3. active' = Cardinality(Holders(call'))
      BY <1>0, <2>1, <2>2, HoldersCount
    <2>4. Line(queue') = {b \in Agents : call'[b] = "queued"}
      BY <1>0, <2>1
    <2>5. call' \in [Agents -> Holding \cup {"idle", "queued", "done"}]
      BY <1>0, <2>1 DEF Holding
    <2>6. active' <= limit /\ queue = <<>>  BY <1>0, <1>1, <2>1
    <2> QED  BY <1>0, <2>1, <2>3, <2>4, <2>5, <2>6, SlotsDef DEF SlotsNamed
  <1>2. CASE ~(active < limit)
    <2>1. active' = active /\ call' = [call EXCEPT ![a] = "queued"] /\ queue' = Append(queue, a)
      BY <1>2 DEF ScriptCalls
    <2>2. Holders(call') = Holders(call)
      BY <1>0, <2>1 DEF Holders, Holding
    <2>3. a \notin Line(queue)  BY <1>0
    <2>4. queue' \in Seq(Agents) /\ Distinct(queue') /\ Line(queue') = Line(queue) \cup {a}
      BY <1>0, <2>1, <2>3, JoinLine
    <2>5. Line(queue') = {b \in Agents : call'[b] = "queued"}
      BY <1>0, <2>1, <2>4
    <2>6. call' \in [Agents -> Holding \cup {"idle", "queued", "done"}]
      BY <1>0, <2>1
    <2>7. active = limit  BY <1>0, <1>2
    <2> QED  BY <1>0, <2>1, <2>2, <2>4, <2>5, <2>6, <2>7, SlotsDef DEF SlotsNamed
  <1> QED  BY <1>1, <1>2

\* A release gives the slot up or hands it to the first in line.
LEMMA ReleaseSlots ==
  ASSUME SlotsAreKept, NEW a \in Agents, call[a] \in Holding, Release(a), limit' = limit
  PROVE  SlotsAreKept'
  <1>0. /\ call \in [Agents -> Holding \cup {"idle", "queued", "done"}]
        /\ queue \in Seq(Agents) /\ limit \in Limits /\ limit \in Nat
        /\ active = Cardinality(Holders(call)) /\ active <= limit /\ active \in Nat
        /\ Line(queue) = {b \in Agents : call[b] = "queued"}
        /\ (queue # <<>> => active = limit) /\ Distinct(queue)
    BY SlotsDef, WorkflowAssumption, HoldersCount DEF SlotsNamed
  <1>1. CASE queue = <<>>
    <2>1. active' = active - 1 /\ call' = [call EXCEPT ![a] = "done"] /\ queue' = queue
      BY <1>1 DEF Release
    <2>2. a \in Holders(call) /\ Holders(call') = Holders(call) \ {a}
      BY <1>0, <2>1 DEF Holders, Holding
    <2>3. active' = Cardinality(Holders(call'))
      BY <1>0, <2>1, <2>2, HoldersCount
    <2>4. Line(queue') = {b \in Agents : call'[b] = "queued"}
      BY <1>0, <2>1 DEF Holding
    <2>5. call' \in [Agents -> Holding \cup {"idle", "queued", "done"}] /\ active' <= limit
      BY <1>0, <2>1
    <2> QED  BY <1>0, <1>1, <2>1, <2>3, <2>4, <2>5, SlotsDef DEF SlotsNamed
  <1>2. CASE queue # <<>>
    <2>0. PICK h \in Agents : h = Head(queue) /\ call[h] = "queued" /\ h # a
      BY <1>0, <1>2, LeaveLine DEF Holding
    <2>1. /\ queue' = Tail(queue) /\ active' = active
          /\ call' = [call EXCEPT ![a] = "done", ![h] = "asked"]
      BY <1>2, <2>0 DEF Release
    <2>2. /\ a \in Holders(call) /\ h \notin Holders(call)
          /\ Holders(call') = (Holders(call) \ {a}) \cup {h}
      BY <1>0, <2>0, <2>1 DEF Holders, Holding
    <2>3. active' = Cardinality(Holders(call'))
      <3> DEFINE mid == [call EXCEPT ![a] = "done"]
      <3>1. /\ Holders(mid) = Holders(call) \ {a}
            /\ h \notin Holders(mid) /\ Holders(call') = Holders(mid) \cup {h}
        BY <1>0, <2>0, <2>2 DEF Holders, Holding
      <3> HIDE DEF mid
      <3>2. Cardinality(Holders(mid)) = active - 1
        BY <1>0, <2>2, <3>1, HoldersCount
      <3>3. Cardinality(Holders(call')) = Cardinality(Holders(mid)) + 1
        BY <3>1, HoldersCount
      <3> QED  BY <1>0, <2>1, <3>2, <3>3
    <2>4. /\ queue' \in Seq(Agents) /\ Distinct(queue') /\ Line(queue') = Line(queue) \ {h}
      BY <1>0, <1>2, <2>0, <2>1, LeaveLine
    <2>5. Line(queue') = {b \in Agents : call'[b] = "queued"}
      BY <1>0, <2>0, <2>1, <2>4 DEF Holding
    <2>6. call' \in [Agents -> Holding \cup {"idle", "queued", "done"}]
      BY <1>0, <2>0, <2>1 DEF Holding
    <2>7. active = limit  BY <1>0, <1>2
    <2> QED  BY <1>0, <2>1, <2>3, <2>4, <2>5, <2>6, <2>7, SlotsDef DEF SlotsNamed
  <1> QED  BY <1>1, <1>2

\* A call that goes on with the slot it has.
LEMMA HoldSlots ==
  ASSUME SlotsAreKept, NEW a \in Agents, call[a] \in Holding, NEW at \in Holding,
         call' = [call EXCEPT ![a] = at], UNCHANGED <<queue, active, limit>>
  PROVE  SlotsAreKept'
  <1>0. call \in [Agents -> Holding \cup {"idle", "queued", "done"}]
    BY DEF SlotsAreKept
  <1>1. Holders(call') = Holders(call)  BY <1>0 DEF Holders
  <1>2. {b \in Agents : call'[b] = "queued"} = {b \in Agents : call[b] = "queued"}
    BY <1>0 DEF Holding
  <1>3. call' \in [Agents -> Holding \cup {"idle", "queued", "done"}]
    BY <1>0
  <1> QED  BY <1>1, <1>2, <1>3, SlotsDef DEF SlotsNamed

\* No step of either side loses or leaks a slot.
LEMMA SlotsStep == Inv /\ [Next]_vars => SlotsAreKept'
  <1> SUFFICES ASSUME Inv, [Next]_vars PROVE SlotsAreKept'  OBVIOUS
  <1>0. /\ SlotsAreKept /\ CallsAreInStep /\ down \in Seq(Message)
    BY DEF Inv, SlotsAreKept, TypeOK, ChannelsAreTyped
  <1>1. ASSUME UNCHANGED <<call, queue, active, limit>> PROVE SlotsAreKept'
    BY <1>0, <1>1 DEF SlotsAreKept, SlotsAreExact, LineIsDistinct
  <1>2. CASE WorkerReceives
    <2> DEFINE m == Head(down)
    <2>0. down # <<>>  BY <1>2 DEF WorkerReceives
    <2>1. PICK a : a = m.about  OBVIOUS
    <2>2. /\ Head(down) = Msg(m.type, a) /\ (m.type \in CallTypes => a \in Agents)
          /\ Receives(down, Tail(down), Msg(m.type, a))
      BY <1>0, <2>0, <2>1, Taken
    <2>3. a \in Agents => InStep(a)  BY <1>0 DEF CallsAreInStep
    <2>4. Has(down, m.type, a)  BY <2>2 DEF Receives
    <2>5. CASE WorkerIsTold
      <3>1. /\ call' = [b \in Agents |-> IF call[b] = "queued" THEN "done" ELSE call[b]]
            /\ queue' = <<>> /\ UNCHANGED <<active, limit>>
        BY <2>5 DEF WorkerIsTold
      <3>2. Holders(call') = Holders(call)  BY <3>1 DEF Holders, Holding
      <3>3. {b \in Agents : call'[b] = "queued"} = {}  BY <3>1
      <3>4. call' \in [Agents -> Holding \cup {"idle", "queued", "done"}]
        BY <1>0, <3>1 DEF SlotsAreKept
      <3>5. Line(<<>>) = {} /\ Distinct(<<>>) /\ <<>> \in Seq(Agents)
        BY DEF Line, Distinct
      <3> QED  BY <1>0, <3>1, <3>2, <3>3, <3>4, <3>5, SlotsDef DEF SlotsNamed
    <2>6. CASE m.type = "childStarted" /\ CallStarts(a)
      <3>1. a \in Agents /\ call[a] = "asked"
        BY <2>2, <2>3, <2>4, <2>6 DEF CallTypes, InStep, Answered
      <3>2. PICK at \in Holding : call' = [call EXCEPT ![a] = at]
        BY <2>6 DEF CallStarts, Holding
      <3> QED  BY <1>0, <2>6, <3>1, <3>2, HoldSlots DEF CallStarts, Holding
    <2>7. CASE m.type = "childResult" /\ CallCollects(a)
      <3>1. CASE call[a] = "running"
        <4>1. a \in Agents  BY <2>2, <2>7 DEF CallTypes
        <4>2. call' = [call EXCEPT ![a] = "closing"] /\ UNCHANGED <<queue, active, limit>>
          BY <2>7, <3>1 DEF CallCollects
        <4> QED  BY <1>0, <3>1, <4>1, <4>2, HoldSlots DEF Holding
      <3>2. CASE call[a] # "running"
        BY <1>1, <2>7, <3>2 DEF CallCollects
      <3> QED  BY <3>1, <3>2
    <2>8. CASE m.type \in {"childStartError", "childDisposed"} /\ Release(a) /\ limit' = limit
      <3>1. a \in Agents /\ call[a] \in Holding
        BY <2>2, <2>3, <2>4, <2>8 DEF CallTypes, InStep, Answered, Holding
      <3> QED  BY <1>0, <2>8, <3>1, ReleaseSlots
    <2>9. CASE UNCHANGED <<call, queue, active, limit>>  BY <1>1, <2>9
    <2> QED
      BY <1>2, <2>1, <2>5, <2>6, <2>7, <2>8, <2>9 DEF WorkerReceives, GateOpens, workerVars
  <1>3. CASE \E a \in Agents : ScriptCalls(a)  BY <1>0, <1>3, AcquireSlots
  <1>4. CASE ScriptParks \/ ScriptSettles  BY <1>1, <1>4 DEF ScriptParks, ScriptSettles
  <1>5. CASE ThreadExits
    <2>1. /\ call' = [b \in Agents |-> "done"] /\ queue' = <<>> /\ active' = 0
          /\ limit' = limit
      BY <1>5 DEF ThreadExits
    <2>2. Holders(call') = {} /\ {b \in Agents : call'[b] = "queued"} = {}
      BY <2>1 DEF Holders, Holding
    <2>3. Line(<<>>) = {} /\ Distinct(<<>>) /\ <<>> \in Seq(Agents)
      BY DEF Line, Distinct
    <2>4. 0 <= limit /\ limit \in Limits
      BY <1>0, WorkflowAssumption DEF SlotsAreKept
    <2>5. call' \in [Agents -> Holding \cup {"idle", "queued", "done"}]
      BY <2>1
    <2> QED  BY <2>1, <2>2, <2>3, <2>4, <2>5, HoldersCount, SlotsDef DEF SlotsNamed
  <1>6. CASE Boundary \/ HostReceives \/ (\E a \in Agents : ProviderSteps(a))
    <2>1. UNCHANGED workerVars
      BY <1>6, BoundaryEffect
         DEF HostReceives, ProviderSteps, StartFulfils, StartRejects, ChildReports, DisposalEnds
    <2> QED  BY <1>1, <2>1 DEF workerVars
  <1>7. CASE UNCHANGED vars  BY <1>1, <1>7 DEF vars, workerVars
  <1> QED  BY <1>2, <1>3, <1>4, <1>5, <1>6, <1>7, StepCases DEF WorkerSteps

-----------------------------------------------------------------------------
(* The messages, and the cancel that travels in them.                      *)

\* The worker sends messages of its own kinds, and "cancelled" only when told.
LEMMA WorkerSends ==
  ASSUME Inv, WorkerSteps
  PROVE  /\ ChannelsAreTyped' /\ CancelIsKnown' /\ UNCHANGED hostVars
  <1>0. /\ up \in Seq(Message) /\ down \in Seq(Message) /\ CancelIsKnown /\ told \in BOOLEAN
        /\ call \in [Agents -> Holding \cup {"idle", "queued", "done"}] /\ queue \in Seq(Agents)
    BY DEF Inv, ChannelsAreTyped, TypeOK
  <1>a. ASSUME NEW m \in Message, up' = Append(up, m), UNCHANGED <<down, told, cancelled>>,
               m = Msg("result", "cancelled") => cancelled
        PROVE  ChannelsAreTyped' /\ CancelIsKnown'
    <2>1. PICK xt, xa : m = Msg(xt, xa)  BY DEF Message, Msg
    <2>2. Sends(up, Append(up, m), xt, xa)  BY <1>0, <2>1, AppendSends
    <2>3. Has(up', "result", "cancelled") => Has(up, "result", "cancelled") \/ cancelled
      BY <1>a, <2>1, <2>2 DEF Sends
    <2> QED  BY <1>0, <1>a, <2>3 DEF ChannelsAreTyped, CancelIsKnown
  <1>1. CASE WorkerReceives
    <2> DEFINE m == Head(down)
    <2>0. down # <<>> /\ down' = Tail(down) /\ UNCHANGED hostVars
      BY <1>1 DEF WorkerReceives
    <2>1. PICK a : a = m.about  OBVIOUS
    <2>2. /\ Head(down) = Msg(m.type, a) /\ (m.type \in CallTypes => a \in Agents)
          /\ (m.type \in {"ready", "go", "cancel"} => a = "run")
          /\ down' \in Seq(Message) /\ Receives(down, down', Msg(m.type, a))
      BY <1>0, <2>0, <2>1, Taken
    <2>3. Has(down, m.type, a) /\ (Has(down', "cancel", "run") => cancelled)
      BY <1>0, <2>2 DEF Receives, CancelIsKnown
    <2>4. ASSUME told' => cancelled, up' \in Seq(Message),
                 Has(up', "result", "cancelled") => cancelled
          PROVE  ChannelsAreTyped' /\ CancelIsKnown'
      BY <2>0, <2>2, <2>3, <2>4 DEF ChannelsAreTyped, CancelIsKnown, hostVars
    <2>5. ASSUME NEW xt \in CallTypes \cup {"result"}, NEW xa, Msg(xt, xa) \in Message,
                 xt = "result" => cancelled
          PROVE  /\ Append(up, Msg(xt, xa)) \in Seq(Message)
                 /\ Has(Append(up, Msg(xt, xa)), "result", "cancelled") => cancelled
      <3>1. Sends(up, Append(up, Msg(xt, xa)), xt, xa)  BY <1>0, AppendSends
      <3> QED  BY <1>0, <2>5, <3>1 DEF Sends, CancelIsKnown, CallTypes
    <2>6. CASE UNCHANGED <<up, told>>
      BY <1>0, <2>0, <2>4, <2>6 DEF CancelIsKnown
    <2>7. CASE m.type = "cancel" /\ WorkerIsTold
      <3>1. cancelled  BY <1>0, <2>2, <2>3, <2>7 DEF CancelIsKnown
      <3>2. Msg("result", "cancelled") \in Message  BY RunMessage DEF Reasons
      <3>3. up' \in Seq(Message)  BY <1>0, <2>7, <3>2 DEF WorkerIsTold
      <3> QED  BY <2>0, <2>4, <3>1, <3>3
    <2>8. CASE m.type = "childStarted" /\ CallStarts(a)
      <3>1. PICK xt \in {"childDispose", "agentStart"} :
               up' = Append(up, Msg(xt, a)) /\ told' = told
        BY <2>8 DEF CallStarts
      <3>2. Msg(xt, a) \in Message /\ xt \in CallTypes
        BY <2>2, <2>8, CallMessage DEF CallTypes
      <3>3. Append(up, Msg(xt, a)) \in Seq(Message)
            /\ (Has(Append(up, Msg(xt, a)), "result", "cancelled") => cancelled)
        BY <2>5, <3>2 DEF CallTypes
      <3> QED  BY <1>0, <2>0, <2>4, <3>1, <3>3 DEF CancelIsKnown
    <2>9. CASE m.type = "childResult" /\ CallCollects(a) /\ call[a] = "running"
      <3> DEFINE mid == Append(up, Msg("agentEnd", a))
                 end == Append(mid, Msg("childDispose", a))
      <3>1. Msg("agentEnd", a) \in Message /\ Msg("childDispose", a) \in Message
        BY <2>2, <2>9, CallMessage DEF CallTypes
      <3>2. mid \in Seq(Message) /\ end \in Seq(Message)  BY <1>0, <3>1
      <3>3. Sends(up, mid, "agentEnd", a) /\ Sends(mid, end, "childDispose", a)
        BY <1>0, <3>2, AppendSends
      <3>4. up \o <<Msg("agentEnd", a), Msg("childDispose", a)>> = end
        BY <1>0, <3>1, ConcatIsAppend
      <3> HIDE DEF mid, end
      <3>5. up' = end /\ told' = told  BY <2>9, <3>4 DEF CallCollects
      <3>6. Has(end, "result", "cancelled") => cancelled
        BY <1>0, <3>3 DEF Sends, CancelIsKnown
      <3> QED  BY <1>0, <2>0, <2>4, <3>2, <3>5, <3>6 DEF CancelIsKnown
    <2>10. CASE m.type \in {"childStartError", "childDisposed"} /\ Release(a) /\ told' = told
                /\ queue # <<>>
      <3>1. PICK h \in Agents : h = Head(queue)  BY <1>0, <2>10, LeaveLine
      <3>2. up' = Append(up, Msg("childStart", h))  BY <2>10, <3>1 DEF Release
      <3>3. Msg("childStart", h) \in Message  BY CallMessage DEF CallTypes
      <3>4. Append(up, Msg("childStart", h)) \in Seq(Message)
            /\ (Has(Append(up, Msg("childStart", h)), "result", "cancelled") => cancelled)
        BY <2>5, <3>3 DEF CallTypes
      <3> QED  BY <1>0, <2>0, <2>4, <2>10, <3>2, <3>4 DEF CancelIsKnown
    <2> QED
      <3>1. CASE m.type \in {"childStartError", "childDisposed"} /\ Release(a) /\ told' = told
        BY <2>0, <2>6, <2>10, <3>1 DEF Release
      <3>2. CASE m.type = "childResult" /\ CallCollects(a)
        BY <2>0, <2>6, <2>9, <3>2 DEF CallCollects
      <3> QED
        BY <1>1, <2>0, <2>1, <2>6, <2>7, <2>8, <3>1, <3>2
           DEF WorkerReceives, GateOpens, workerVars
  <1>2. CASE ScriptParks
    BY <1>0, <1>2 DEF ScriptParks, ChannelsAreTyped, CancelIsKnown, hostVars
  <1>3. CASE ScriptSettles
    <2>1. PICK reason \in Reasons :
             up' = Append(up, Msg("result", reason)) /\ (reason = "cancelled" => told)
      BY <1>0, <1>3 DEF ScriptSettles, Reasons
    <2>2. Msg("result", reason) \in Message  BY RunMessage
    <2>3. Msg("result", reason) = Msg("result", "cancelled") => cancelled
      BY <1>0, <2>1 DEF Msg, CancelIsKnown
    <2> QED  BY <1>a, <1>3, <2>1, <2>2, <2>3 DEF ScriptSettles, hostVars
  <1>4. CASE \E a \in Agents : ScriptCalls(a)
    <2>1. PICK a \in Agents : ScriptCalls(a)  BY <1>4
    <2>2. Msg("childStart", a) \in Message /\ Msg("childStart", a) # Msg("result", "cancelled")
      BY CallMessage DEF CallTypes, Msg
    <2>3. CASE active < limit
      BY <1>a, <2>1, <2>2, <2>3 DEF ScriptCalls, hostVars
    <2>4. CASE ~(active < limit)
      BY <1>0, <2>1, <2>4 DEF ScriptCalls, hostVars, ChannelsAreTyped, CancelIsKnown
    <2> QED  BY <2>3, <2>4
  <1> QED  BY <1>1, <1>2, <1>3, <1>4 DEF WorkerSteps

\* The host posts messages of its own kinds, and "cancel" only as it cancels.
LEMMA HostSends ==
  ASSUME Inv, HostReceives \/ Boundary \/ ThreadExits \/ \E a \in Agents : ProviderSteps(a)
  PROVE  ChannelsAreTyped' /\ CancelIsKnown'
  <1>0. /\ up \in Seq(Message) /\ down \in Seq(Message) /\ CancelIsKnown
    BY DEF Inv, ChannelsAreTyped
  <1>1. ASSUME NEW xt \in CallTypes \cup {"go"}, NEW xa, Msg(xt, xa) \in Message,
               Post(<<Msg(xt, xa)>>)
        PROVE  down' \in Seq(Message) /\ (Has(down', "cancel", "run") => Has(down, "cancel", "run"))
    BY <1>0, <1>1, PostSends DEF Sends, CallTypes
  <1>2. ASSUME down' \in Seq(Message), Has(down', "cancel", "run") => Has(down, "cancel", "run"),
               up' \in Seq(Message), \A t, b : Has(up', t, b) => Has(up, t, b),
               UNCHANGED <<told, cancelled>>
        PROVE  ChannelsAreTyped' /\ CancelIsKnown'
    BY <1>0, <1>2 DEF ChannelsAreTyped, CancelIsKnown
  <1>3. CASE HostReceives
    <2> DEFINE m == Head(up)
    <2>0. up # <<>> /\ up' = Tail(up) /\ UNCHANGED <<workerVars, told>>
      BY <1>3 DEF HostReceives, workerVars
    <2>1. PICK a : a = m.about  OBVIOUS
    <2>2. /\ (m.type \in CallTypes => a \in Agents) /\ up' \in Seq(Message)
          /\ \A t, b : Has(up', t, b) => Has(up, t, b)
      BY <1>0, <2>0, <2>1, Taken DEF Receives
    <2>3. /\ cancelled' = cancelled
          /\ \/ down' = down
             \/ \E xt \in CallTypes \cup {"go"} : \E xa :
                   Msg(xt, xa) \in Message /\ Post(<<Msg(xt, xa)>>)
      <3>1. CASE death # "no"  BY <1>3, <3>1 DEF HostReceives, hostVars
      <3>2. CASE m.type = "ready" /\ Post(<<Signal("go")>>) /\ cancelled' = cancelled
        <4>1. Signal("go") = Msg("go", "run") /\ Msg("go", "run") \in Message
          BY RunMessage DEF Signal, Msg
        <4> QED  BY <3>2, <4>1
      <3>3. CASE m.type = "childStart" /\ StartRequested(a)
        <4>1. Msg("childStartError", a) \in Message /\ "childStartError" \in CallTypes
          BY <2>2, <3>3, CallMessage DEF CallTypes
        <4> QED  BY <3>3, <4>1 DEF StartRequested
      <3>4. CASE m.type = "childDispose" /\ DisposeRequested(a)
        <4>1. Msg("childDisposed", a) \in Message /\ "childDisposed" \in CallTypes
          BY <2>2, <3>4, CallMessage DEF CallTypes
        <4> QED  BY <3>4, <4>1 DEF DisposeRequested
      <3>5. CASE StartNarrated(a) \/ EndNarrated(a) \/ ResultArrives(a)
        BY <3>5 DEF StartNarrated, EndNarrated, ResultArrives
      <3> QED  BY <1>3, <2>1, <3>1, <3>2, <3>3, <3>4, <3>5 DEF HostReceives
    <2>4. down' \in Seq(Message) /\ (Has(down', "cancel", "run") => Has(down, "cancel", "run"))
      BY <1>0, <1>1, <2>3
    <2> QED  BY <1>2, <2>0, <2>2, <2>3, <2>4
  <1>4. CASE Boundary
    <2>1. UNCHANGED <<up, told>>  BY <1>4, BoundaryEffect DEF workerVars
    <2>2. cancelled => cancelled'
      BY <1>4 DEF Boundary, HolderCancels, HolderDisposes, DisposeWaits, DisposeEnds,
                  GraceExpires, WorkerCrashes, ErrorSeen, Cancel, hostVars
    <2>3. CASE down' = down
      BY <1>0, <2>1, <2>2, <2>3 DEF ChannelsAreTyped, CancelIsKnown
    <2>4. CASE cancelled' /\ down' \in Seq(Message)
      BY <1>0, <2>1, <2>4 DEF ChannelsAreTyped, CancelIsKnown
    <2> QED  BY <1>4, <2>3, <2>4, BoundaryEffect
  <1>5. CASE ThreadExits
    <2>1. up' = <<>> /\ down' = <<>> /\ told' = FALSE  BY <1>5 DEF ThreadExits
    <2>2. <<>> \in Seq(Message) /\ \A t, b : ~Has(<<>>, t, b)  BY DEF Has
    <2> QED  BY <2>1, <2>2 DEF ChannelsAreTyped, CancelIsKnown
  <1>6. CASE \E a \in Agents : ProviderSteps(a)
    <2>1. PICK a \in Agents : ProviderSteps(a)  BY <1>6
    <2>2. /\ UNCHANGED <<up, told, cancelled>>
          /\ \/ down' = down
             \/ \E xt \in CallTypes : Post(<<Msg(xt, a)>>)
      <3>1. CASE StartFulfils(a)
        <4>1. CASE Closed  BY <3>1, <4>1 DEF StartFulfils, workerVars, CallTypes
        <4>2. CASE ~Closed  BY <3>1, <4>2 DEF StartFulfils, workerVars, CallTypes
        <4> QED  BY <4>1, <4>2
      <3>2. CASE StartRejects(a)  BY <3>2 DEF StartRejects, workerVars, CallTypes
      <3>3. CASE ChildReports(a)  BY <3>3 DEF ChildReports, workerVars, CallTypes
      <3>4. CASE DisposalEnds(a)  BY <3>4 DEF DisposalEnds, workerVars, CallTypes
      <3> QED  BY <2>1, <3>1, <3>2, <3>3, <3>4 DEF ProviderSteps
    <2>3. down' \in Seq(Message) /\ (Has(down', "cancel", "run") => Has(down, "cancel", "run"))
      BY <1>0, <1>1, <2>2, CallMessage
    <2> QED  BY <1>0, <1>2, <2>2, <2>3
  <1> QED  BY <1>3, <1>4, <1>5, <1>6

\* The channels stay typed, and the worker knows of no cancel that was not.
LEMMA ChannelsStep == Inv /\ [Next]_vars => ChannelsAreTyped' /\ CancelIsKnown'
  <1>1. Inv /\ UNCHANGED vars => ChannelsAreTyped' /\ CancelIsKnown'
    BY DEF Inv, ChannelsAreTyped, CancelIsKnown, vars, hostVars, workerVars
  <1> QED  BY <1>1, StepCases, WorkerSends, HostSends

-----------------------------------------------------------------------------
(* The outcome, the events and the children.                               *)

\* The host's steps without the worker's: the settlements, and the rest.
LEMMA HostCases ==
  ASSUME Inv, [Next]_vars
  PROVE  \/ UNCHANGED hostVars
         \/ \E a \in Agents : StartRequested(a) /\ death = "no"
                               /\ UNCHANGED <<death, reported, disposal, overran>>
         \/ \E a \in Agents : DisposeRequested(a) /\ UNCHANGED <<death, reported, disposal, overran>>
         \/ \E a \in Agents : StartNarrated(a) /\ starts[a] = 0 /\ death = "no"
                               /\ UNCHANGED <<death, reported, disposal, overran>>
         \/ \E a \in Agents : EndNarrated(a) /\ UNCHANGED <<death, reported, disposal, overran>>
         \/ \E reason \in Reasons : /\ reason = "cancelled" => cancelled
                                    /\ ResultArrives(reason) /\ death = "no"
                                    /\ UNCHANGED <<death, reported, disposal, overran>>
         \/ \E a \in Agents : ProviderSteps(a)
         \/ HolderCancels \/ HolderDisposes \/ DisposeWaits \/ DisposeEnds \/ GraceExpires
         \/ ErrorSeen \/ ThreadExits
  <1>1. CASE WorkerSteps  BY <1>1, WorkerSends
  <1>2. CASE HostReceives
    <2> DEFINE m == Head(up)
    <2>0. /\ up # <<>> /\ up \in Seq(Message) /\ up' = Tail(up) /\ CancelIsKnown
          /\ UNCHANGED workerVars
      BY <1>2 DEF HostReceives, Inv, ChannelsAreTyped
    <2>1. PICK a : a = m.about  OBVIOUS
    <2>2. /\ Head(up) = Msg(m.type, a) /\ (m.type \in CallTypes => a \in Agents)
          /\ (m.type = "result" => a \in Reasons) /\ Has(up, m.type, a)
      BY <2>0, <2>1, Taken DEF Receives
    <2>3. CASE death # "no"  BY <1>2, <2>3 DEF HostReceives
    <2>4. CASE death = "no"
      <3>0. UNCHANGED <<death, reported, disposal, overran>>  BY <1>2, <2>4 DEF HostReceives
      <3>1. CASE m.type = "ready" /\ UNCHANGED hostVars  BY <3>1
      <3>2. CASE m.type = "childStart" /\ StartRequested(a)
        BY <2>2, <2>4, <3>0, <3>2 DEF CallTypes
      <3>3. CASE m.type = "childDispose" /\ DisposeRequested(a)
        BY <2>2, <3>0, <3>3 DEF CallTypes
      <3>4. CASE m.type = "agentStart" /\ StartNarrated(a)
        <4>1. a \in Agents  BY <2>2, <3>4 DEF CallTypes
        <4>2. starts[a] = 0
          BY <1>2, <2>0, <2>2, <2>4, <3>0, <3>4, <4>1, StartNarratedInStep
        <4> QED  BY <2>4, <3>0, <3>4, <4>1, <4>2
      <3>5. CASE m.type = "agentEnd" /\ EndNarrated(a)
        BY <2>2, <3>0, <3>5 DEF CallTypes
      <3>6. CASE m.type = "result" /\ ResultArrives(a)
        BY <2>0, <2>2, <2>4, <3>0, <3>6 DEF CancelIsKnown
      <3> QED
        BY <1>2, <2>1, <2>4, <3>0, <3>1, <3>2, <3>3, <3>4, <3>5, <3>6 DEF HostReceives, hostVars
    <2> QED  BY <2>3, <2>4
  <1>3. CASE WorkerCrashes \/ UNCHANGED vars  BY <1>3 DEF WorkerCrashes, vars
  <1> QED  BY <1>1, <1>2, <1>3 DEF Next

\* An end is forwarded for a start that is unpaired, and only for one.
LEMMA EndsStep ==
  Inv /\ [Next]_vars =>
     /\ EndsAreExact' /\ starts' \in [Agents -> 0..1] /\ ends' \in [Agents -> 0..1]
     /\ ledger' \subseteq Agents
  <1> DEFINE Kept == /\ EndsAreExact' /\ starts' \in [Agents -> 0..1]
                     /\ ends' \in [Agents -> 0..1] /\ ledger' \subseteq Agents
  <1> SUFFICES ASSUME Inv, [Next]_vars PROVE Kept  OBVIOUS
  <1>0. /\ \A a \in Agents : ends[a] = IF a \in ledger THEN starts[a] - 1 ELSE starts[a]
        /\ death # "no" => ledger = {}
        /\ starts \in [Agents -> 0..1] /\ ends \in [Agents -> 0..1] /\ ledger \subseteq Agents
    BY DEF Inv, TypeOK, EndsAreExact
  <1>1. \A a \in Agents : starts[a] \in {0, 1} /\ ends[a] \in {0, 1}
                          /\ (starts[a] = 0 => a \notin ledger)
    <2>1. \A n \in 0..1 : n \in {0, 1}  OBVIOUS
    <2>2. ASSUME NEW a \in Agents PROVE starts[a] \in 0..1 /\ ends[a] \in 0..1  BY <1>0
    <2>3. ASSUME NEW a \in Agents, starts[a] = 0, a \in ledger PROVE FALSE
      <3>1. ends[a] = starts[a] - 1 /\ ends[a] \in 0..1  BY <1>0, <2>2, <2>3
      <3> QED  BY <2>3, <3>1
    <2> QED  BY <2>1, <2>2, <2>3
  <1>2. ASSUME UNCHANGED <<starts, ends, ledger>>, death' # "no" => death # "no" \/ ledger = {}
        PROVE  Kept
    BY <1>0, <1>2 DEF EndsAreExact
  <1>3. ASSUME EndStranded, UNCHANGED starts PROVE Kept
    <2>1. \A a \in Agents : ends'[a] = starts[a]
      BY <1>0, <1>1, <1>3 DEF EndStranded
    <2>2. ends' \in [Agents -> 0..1]  BY <1>0, <1>3, <2>1 DEF EndStranded
    <2> QED  BY <1>0, <1>3, <2>1, <2>2 DEF EndStranded, EndsAreExact
  <1>4. ASSUME NEW a \in Agents, StartNarrated(a), starts[a] = 0, UNCHANGED death,
               death = "no"
        PROVE  Kept
    <2>1. ledger' = ledger \cup {a} /\ starts' = [starts EXCEPT ![a] = 1] /\ ends' = ends
      BY <1>0, <1>4 DEF StartNarrated
    <2>2. ends[a] = 0  BY <1>0, <1>1, <1>4
    <2> QED  BY <1>0, <1>1, <1>4, <2>1, <2>2 DEF EndsAreExact
  <1>5. ASSUME NEW a \in Agents, EndNarrated(a), UNCHANGED death PROVE Kept
    <2>1. CASE a \in ledger
      <3>1. starts[a] = 1 /\ ends[a] = 0  BY <1>0, <1>1, <2>1
      <3>2. ends' = [ends EXCEPT ![a] = 1] /\ ledger' = ledger \ {a} /\ starts' = starts
        BY <1>0, <1>5, <2>1, <3>1 DEF EndNarrated
      <3> QED  BY <1>0, <1>1, <1>5, <3>1, <3>2 DEF EndsAreExact
    <2>2. CASE a \notin ledger
      BY <1>0, <1>5, <2>2 DEF EndNarrated, EndsAreExact
    <2> QED  BY <2>1, <2>2
  <1>6. CASE UNCHANGED hostVars  BY <1>2, <1>6 DEF hostVars
  <1>7. CASE ErrorSeen \/ ThreadExits
    <2>1. EndStranded /\ UNCHANGED starts
      BY <1>7 DEF ErrorSeen, ThreadExits, FirstDeath
    <2> QED  BY <1>3, <2>1
  <1>8. CASE GraceExpires
    <2>1. EndStranded /\ UNCHANGED starts  BY <1>8 DEF GraceExpires
    <2> QED  BY <1>3, <2>1
  <1>9. CASE HolderCancels \/ HolderDisposes \/ DisposeWaits \/ DisposeEnds
    BY <1>2, <1>9 DEF HolderCancels, HolderDisposes, DisposeWaits, DisposeEnds
  <1>10. CASE \E a \in Agents : ProviderSteps(a)
    BY <1>2, <1>10 DEF ProviderSteps, StartFulfils, StartRejects, ChildReports, DisposalEnds
  <1>11. ASSUME NEW a \in Agents, StartRequested(a) \/ DisposeRequested(a), UNCHANGED death
         PROVE  Kept
    BY <1>2, <1>11 DEF StartRequested, DisposeRequested
  <1>12. ASSUME NEW reason, ResultArrives(reason), UNCHANGED death PROVE Kept
    BY <1>2, <1>12 DEF ResultArrives
  <1> HIDE DEF Kept
  <1> QED
    BY <1>4, <1>5, <1>6, <1>7, <1>8, <1>9, <1>10, <1>11, <1>12, HostCases

\* What stops a run closes it, settles it honestly and winds its children down.
LEMMA SettleStep ==
  Inv /\ [Next]_vars => HostIsConsistent' /\ OutcomeIsHonest' /\ NoOrphans'
  <1> DEFINE Kept == HostIsConsistent' /\ OutcomeIsHonest' /\ NoOrphans'
  <1> SUFFICES ASSUME Inv, [Next]_vars PROVE Kept  OBVIOUS
  <1>0. /\ HostIsConsistent /\ OutcomeIsHonest /\ NoOrphans /\ TypeOK
        /\ cancelled \in BOOLEAN /\ child \in [Agents -> Pending \cup {"none", "disposed", "refused"}]
    BY DEF Inv, TypeOK
  <1> USE DEF HostIsConsistent, OutcomeIsHonest, NoOrphans, Closed
  <1>1. CASE UNCHANGED hostVars  BY <1>0, <1>1 DEF hostVars
  <1>2. ASSUME NEW a \in Agents, StartRequested(a), death = "no",
               UNCHANGED <<death, reported, disposal, overran>>
        PROVE  Kept
    <2>1. CASE Closed
      <3>1. UNCHANGED child  BY <1>2, <2>1 DEF StartRequested
      <3> QED  BY <1>0, <1>2, <3>1 DEF StartRequested
    <2>2. CASE ~Closed
      <3>1. child' = [child EXCEPT ![a] = "starting"]  BY <1>2, <2>2 DEF StartRequested
      <3>2. /\ ~cancelled /\ death = "no" /\ claimed = "none" /\ disposal = "no"
            /\ UNCHANGED <<cancelled, claimed, outcome, graceArmed, aborted, death, disposal>>
        BY <1>0, <1>2, <2>2 DEF StartRequested
      <3> QED  BY <1>0, <3>1, <3>2
    <2> QED  BY <2>1, <2>2
  <1>3. ASSUME NEW a \in Agents, DisposeRequested(a),
               UNCHANGED <<death, reported, disposal, overran>>
        PROVE  Kept
    <2>1. \A b \in Agents : \/ child'[b] = child[b]
                            \/ child[b] \in {"live", "disposing"} /\ child'[b] = "disposing"
      BY <1>0, <1>3 DEF DisposeRequested
    <2>2. UNCHANGED <<cancelled, claimed, outcome, graceArmed, aborted, death, disposal, overran>>
      BY <1>3 DEF DisposeRequested
    <2> QED  BY <1>0, <2>1, <2>2 DEF Pending
  <1>4. ASSUME NEW a \in Agents, StartNarrated(a) \/ EndNarrated(a),
               UNCHANGED <<death, reported, disposal, overran>>
        PROVE  Kept
    BY <1>0, <1>4 DEF StartNarrated, EndNarrated
  <1>5. ASSUME NEW reason \in Reasons, reason = "cancelled" => cancelled,
               ResultArrives(reason), death = "no",
               UNCHANGED <<death, reported, disposal, overran>>
        PROVE  Kept
    <2>1. CASE claimed = "none"
      <3>1. /\ claimed' = "result" /\ child' = Reaped(child) /\ graceArmed' = FALSE
            /\ outcome' = IF cancelled THEN "cancelled" ELSE reason
            /\ UNCHANGED <<cancelled, death, disposal, overran>>
        BY <1>5, <2>1 DEF ResultArrives, Settle
      <3>2. outcome' # "none" /\ (outcome' = "cancelled" <=> cancelled)
        BY <1>5, <3>1 DEF Reasons
      <3> QED  BY <1>0, <3>1, <3>2 DEF Reaped, Pending
    <2>2. CASE claimed # "none"
      <3>1. UNCHANGED <<cancelled, claimed, outcome, graceArmed, aborted, death, child,
                        disposal, overran>>
        BY <1>5, <2>2 DEF ResultArrives
      <3> QED  BY <1>0, <3>1
    <2> QED  BY <2>1, <2>2
  <1>6. ASSUME NEW a \in Agents, ProviderSteps(a) PROVE Kept
    <2>1. UNCHANGED <<cancelled, claimed, outcome, graceArmed, aborted, death, disposal, overran>>
      BY <1>6 DEF ProviderSteps, StartFulfils, StartRejects, ChildReports, DisposalEnds
    <2>2. CASE child' = child  BY <1>0, <2>1, <2>2
    <2>3. CASE \E c \in {"refused", "disposed", "unwinding", "live"} :
                  /\ child' = [child EXCEPT ![a] = c] /\ child[a] \in Pending
                  /\ c = "live" => ~Closed
      <3>1. PICK c \in {"refused", "disposed", "unwinding", "live"} :
                  /\ child' = [child EXCEPT ![a] = c] /\ child[a] \in Pending
                  /\ c = "live" => ~Closed
        BY <2>3
      <3>2. CASE c = "live"
        <4>1. ~cancelled /\ death = "no" /\ claimed = "none" /\ disposal = "no"
          BY <1>0, <3>1, <3>2
        <4> QED  BY <1>0, <2>1, <3>1, <4>1
      <3>3. CASE c # "live"
        BY <1>0, <2>1, <3>1, <3>3 DEF Pending
      <3> QED  BY <3>2, <3>3
    <2> QED
      <3>1. CASE StartFulfils(a)
        <4>1. CASE Closed  BY <2>3, <3>1, <4>1 DEF StartFulfils, Pending
        <4>2. CASE ~Closed  BY <2>3, <3>1, <4>2 DEF StartFulfils, Pending
        <4> QED  BY <4>1, <4>2
      <3>2. CASE StartRejects(a)  BY <2>3, <3>2 DEF StartRejects, Pending
      <3>3. CASE ChildReports(a)  BY <2>2, <3>3 DEF ChildReports
      <3>4. CASE DisposalEnds(a)  BY <2>3, <3>4 DEF DisposalEnds, Pending
      <3> QED  BY <1>6, <3>1, <3>2, <3>3, <3>4 DEF ProviderSteps
  <1>7. CASE HolderCancels
    BY <1>0, <1>7 DEF HolderCancels, Cancel, Cancellable
  <1>8. CASE HolderDisposes
    <2>1. /\ disposal = "no" /\ disposal' = "waiting" /\ child' = Reaped(child)
          /\ UNCHANGED <<claimed, outcome, death, overran>>
      BY <1>8 DEF HolderDisposes
    <2>2. /\ outcome = "none" => cancelled'
          /\ cancelled' # cancelled => outcome = "none" /\ ~cancelled /\ cancelled'
          /\ graceArmed' => cancelled' /\ outcome = "none"
      BY <1>0, <1>8 DEF HolderDisposes, Cancel, Cancellable
    <2> QED  BY <1>0, <2>1, <2>2 DEF Reaped, Pending
  <1>9. CASE DisposeWaits
    BY <1>0, <1>9 DEF DisposeWaits
  <1>10. CASE DisposeEnds
    BY <1>0, <1>10 DEF DisposeEnds, Reaped, Pending
  <1>11. CASE GraceExpires
    BY <1>0, <1>11 DEF GraceExpires, Settle
  <1>12. ASSUME FirstDeath, death = "no", death' # "no",
                UNCHANGED <<cancelled, disposal, overran>>
         PROVE  Kept
    <2>1. /\ child' = Reaped(child)
          /\ IF claimed = "none"
             THEN /\ claimed' = "death" /\ graceArmed' = FALSE
                  /\ outcome' = IF cancelled THEN "cancelled" ELSE "error"
             ELSE UNCHANGED <<claimed, outcome, graceArmed>>
      BY <1>12 DEF FirstDeath, Settle
    <2>2. claimed' # "none" /\ disposal # "done"  BY <1>0, <1>12, <2>1
    <2> QED  BY <1>0, <1>12, <2>1, <2>2 DEF Reaped, Pending
  <1>13. CASE ErrorSeen  BY <1>12, <1>13 DEF ErrorSeen
  <1>14. CASE ThreadExits
    <2>1. CASE death = "no"  BY <1>12, <1>14, <2>1 DEF ThreadExits
    <2>2. CASE death # "no"
      BY <1>0, <1>14, <2>2 DEF ThreadExits, Reaped, Pending
    <2> QED  BY <2>1, <2>2
  <1> HIDE DEF Kept
  <1> QED
    BY <1>1, <1>2, <1>3, <1>4, <1>5, <1>6, <1>7, <1>8, <1>9, <1>10, <1>11, <1>13, <1>14, HostCases

\* Types are kept.
LEMMA TypeStep == Inv /\ [Next]_vars => TypeOK'
  <1> SUFFICES ASSUME Inv, [Next]_vars PROVE TypeOK'  OBVIOUS
  <1>0. TypeOK /\ up \in Seq(Message)  BY DEF Inv, ChannelsAreTyped
  <1>1. /\ call' \in [Agents -> Holding \cup {"idle", "queued", "done"}]
        /\ queue' \in Seq(Agents) /\ limit' \in Limits /\ active' \in 0..Cardinality(Agents)
        /\ starts' \in [Agents -> 0..1] /\ ends' \in [Agents -> 0..1] /\ ledger' \subseteq Agents
    BY SlotsStep, EndsStep DEF SlotsAreKept
  <1>2. /\ {awake', told'} \subseteq BOOLEAN /\ script' \in {"gated", "running", "ended"}
        /\ thread' \in {"up", "stopping", "crashed"}
    <2>0. /\ {awake, told} \subseteq BOOLEAN /\ script \in {"gated", "running", "ended"}
          /\ thread \in {"up", "stopping", "crashed"}
      BY <1>0 DEF TypeOK
    <2>1. CASE WorkerReceives
      BY <2>0, <2>1 DEF WorkerReceives, GateOpens, WorkerIsTold, CallStarts, CallCollects,
                        Release, workerVars
    <2>2. CASE ScriptParks \/ ScriptSettles \/ \E a \in Agents : ScriptCalls(a)
      BY <2>0, <2>2 DEF ScriptParks, ScriptSettles, ScriptCalls
    <2>3. CASE ThreadExits  BY <2>0, <2>3 DEF ThreadExits
    <2>4. CASE HostReceives \/ \E a \in Agents : ProviderSteps(a)
      BY <2>0, <2>4 DEF HostReceives, ProviderSteps, StartFulfils, StartRejects, ChildReports,
                        DisposalEnds, workerVars
    <2>5. CASE Boundary
      <3>1. UNCHANGED workerVars  BY <2>5, BoundaryEffect
      <3>2. thread' \in {"up", "stopping", "crashed"}
        BY <2>0, <2>5 DEF Boundary, HolderCancels, HolderDisposes, DisposeWaits, DisposeEnds,
                          GraceExpires, WorkerCrashes, ErrorSeen, Terminated
      <3> QED  BY <2>0, <3>1, <3>2 DEF workerVars
    <2>6. CASE UNCHANGED vars  BY <2>0, <2>6 DEF vars, workerVars
    <2> QED  BY <2>1, <2>2, <2>3, <2>4, <2>5, <2>6, StepCases DEF WorkerSteps
  <1>3. /\ {cancelled', graceArmed', aborted', overran'} \subseteq BOOLEAN
        /\ claimed' \in {"none", "result", "death", "grace"}
        /\ outcome' \in {"none", "completed", "error", "cancelled"}
        /\ death' \in {"no", "seen", "exited"}
        /\ child' \in [Agents -> Pending \cup {"none", "disposed", "refused"}]
        /\ ackOwed' \subseteq Agents /\ reported' \subseteq Agents
        /\ disposal' \in {"no", "waiting", "closing", "done"}
    <2> DEFINE Typed == /\ {cancelled', graceArmed', aborted', overran'} \subseteq BOOLEAN
                        /\ claimed' \in {"none", "result", "death", "grace"}
                        /\ outcome' \in {"none", "completed", "error", "cancelled"}
                        /\ death' \in {"no", "seen", "exited"}
                        /\ child' \in [Agents -> Pending \cup {"none", "disposed", "refused"}]
                        /\ ackOwed' \subseteq Agents /\ reported' \subseteq Agents
                        /\ disposal' \in {"no", "waiting", "closing", "done"}
    <2> SUFFICES Typed  OBVIOUS
    <2>0. /\ {cancelled, graceArmed, aborted, overran} \subseteq BOOLEAN
          /\ claimed \in {"none", "result", "death", "grace"}
          /\ outcome \in {"none", "completed", "error", "cancelled"}
          /\ death \in {"no", "seen", "exited"}
          /\ child \in [Agents -> Pending \cup {"none", "disposed", "refused"}]
          /\ ackOwed \subseteq Agents /\ reported \subseteq Agents
          /\ disposal \in {"no", "waiting", "closing", "done"}
      BY <1>0 DEF TypeOK
    <2>a. Reaped(child) \in [Agents -> Pending \cup {"none", "disposed", "refused"}]
      BY <2>0 DEF Reaped, Pending
    <2>1. CASE UNCHANGED hostVars  BY <2>0, <2>1 DEF hostVars
    <2>2. ASSUME NEW a \in Agents,
                 StartRequested(a) \/ DisposeRequested(a) \/ StartNarrated(a) \/ EndNarrated(a),
                 UNCHANGED <<death, reported, disposal, overran>>
          PROVE  Typed
      BY <2>0, <2>2 DEF StartRequested, DisposeRequested, StartNarrated, EndNarrated, Pending
    <2>3. ASSUME NEW reason \in Reasons, ResultArrives(reason),
                 UNCHANGED <<death, reported, disposal, overran>>
          PROVE  Typed
      BY <2>0, <2>a, <2>3 DEF ResultArrives, Settle, Reasons
    <2>4. ASSUME NEW a \in Agents, ProviderSteps(a) PROVE Typed
      BY <2>0, <2>4 DEF ProviderSteps, StartFulfils, StartRejects, ChildReports, DisposalEnds,
                        Pending
    <2>5. CASE HolderCancels \/ HolderDisposes
      BY <2>0, <2>a, <2>5 DEF HolderCancels, HolderDisposes, Cancel
    <2>6. CASE DisposeWaits \/ DisposeEnds
      BY <2>0, <2>a, <2>6 DEF DisposeWaits, DisposeEnds
    <2>7. CASE GraceExpires
      BY <2>0, <2>7 DEF GraceExpires, Settle
    <2>8. CASE ErrorSeen \/ ThreadExits
      BY <2>0, <2>a, <2>8 DEF ErrorSeen, ThreadExits, FirstDeath, Settle
    <2> HIDE DEF Typed
    <2> QED  BY <2>1, <2>2, <2>3, <2>4, <2>5, <2>6, <2>7, <2>8, HostCases
  <1> QED  BY <1>1, <1>2, <1>3 DEF TypeOK

\* A run begins with nothing asked for and nothing on its way but "ready".
LEMMA InvInit == Init => Inv
  <1> SUFFICES ASSUME Init PROVE Inv  OBVIOUS
  <1> USE DEF Init
  <1>1. /\ ChannelsAreTyped /\ ~Has(down, "cancel", "run") /\ ~Has(up, "result", "cancelled")
        /\ \A a \in Agents, type \in CallTypes :
              /\ ~Has(up, type, a) /\ Once(up, type, a) /\ ~Has(down, type, a) /\ Once(down, type, a)
    <2>1. Signal("ready") \in Message  BY RunMessage
    <2>2. /\ \A type, a : ~Has(<<>>, type, a) /\ Once(<<>>, type, a)
          /\ \A type, a : Has(<<Signal("ready")>>, type, a) => type = "ready"
          /\ \A type, a : Once(<<Signal("ready")>>, type, a)
      BY DEF Has, Once, Signal, Msg
    <2> QED  BY <2>1, <2>2 DEF ChannelsAreTyped, CallTypes
  <1>2. CallsAreInStep
    BY <1>1 DEF CallsAreInStep, InStep, SentOnce, Answered, Joined, CallTypes
  <1>3. SlotsAreKept
    <2>1. /\ Holders(call) = {} /\ {a \in Agents : call[a] = "queued"} = {}
          /\ Line(<<>>) = {} /\ Distinct(<<>>) /\ <<>> \in Seq(Agents)
          /\ 0 <= limit /\ limit \in Limits
          /\ call \in [Agents -> Holding \cup {"idle", "queued", "done"}]
      BY WorkflowAssumption DEF Holders, Holding, Line, Distinct
    <2> QED  BY <2>1, HoldersCount, SlotsDef DEF SlotsNamed
  <1>4. HostIsConsistent /\ CancelIsKnown /\ OutcomeIsHonest /\ EndsAreExact /\ NoOrphans
    BY <1>1 DEF HostIsConsistent, CancelIsKnown, OutcomeIsHonest, EndsAreExact, NoOrphans, Closed
  <1>5. TypeOK
    <2>1. starts \in [Agents -> 0..1] /\ ends \in [Agents -> 0..1]  OBVIOUS
    <2>2. child \in [Agents -> Pending \cup {"none", "disposed", "refused"}]  OBVIOUS
    <2>3. {cancelled, graceArmed, aborted, overran, awake, told} \subseteq BOOLEAN  OBVIOUS
    <2>4. {ackOwed, reported, ledger} \subseteq SUBSET Agents  OBVIOUS
    <2> QED  BY <1>3, <2>1, <2>2, <2>3, <2>4 DEF TypeOK, SlotsAreKept
  <1> QED  BY <1>1, <1>2, <1>3, <1>4, <1>5 DEF Inv, SlotsAreKept

\* The invariant is inductive.
LEMMA InvStep == Inv /\ [Next]_vars => Inv'
  BY TypeStep, ChannelsStep, SettleStep, InStepKept, SlotsStep, EndsStep DEF Inv, SlotsAreKept

-----------------------------------------------------------------------------
(* Theorems.                                                               *)

\* Every run keeps the invariant.
THEOREM InvHolds == Spec => []Inv
  BY InvInit, InvStep, PTL DEF Spec

\* A run that was cancelled before it settled says so and no other run does,
\* and every agent-start it forwarded has its agent-end, whichever of the two
\* threads, or the death of one, settles it (host.ts onResult, onWorkerDeath,
\* endAgent and endStrandedAgents).
THEOREM ReportsAreHonest == Spec => []ReportIsHonest
  <1>1. Inv => ReportIsHonest  BY DEF Inv, ReportIsHonest
  <1> QED  BY <1>1, InvHolds, PTL

\* No child stays live behind what ended its run, a dispose() that returned in
\* time left none pending, and no slot is lost or leaked (host.ts reapChildren
\* and childQuiescence, runtime.ts acquireSlot and releaseSlot).
THEOREM NothingIsLost == Spec => []ChildrenAreKept
  <1>1. Inv => ChildrenAreKept  BY DEF Inv, ChildrenAreKept
  <1> QED  BY <1>1, InvHolds, PTL

\* No child is started, or handed to the worker, once the signal that the
\* children share has aborted (host.ts onChildStart and startChild).
THEOREM ChildrenComeInTime == Spec => NoLateChild
  <1> DEFINE Late(a) == child'[a] # child[a] /\ child'[a] \in {"starting", "live"} => ~aborted
  <1>1. Inv /\ [Next]_vars => \A a \in Agents : Late(a)
    <2> SUFFICES ASSUME Inv, [Next]_vars, aborted
                 PROVE  \A b \in Agents : child'[b] = child[b] \/ child'[b] \notin {"starting", "live"}
      OBVIOUS
    <2>0. Closed /\ child \in [Agents -> Pending \cup {"none", "disposed", "refused"}]
      BY DEF Inv, HostIsConsistent, TypeOK
    <2>1. CASE UNCHANGED hostVars  BY <2>1 DEF hostVars
    <2>2. ASSUME child' \in {child, Reaped(child)}
          PROVE  \A b \in Agents : child'[b] = child[b] \/ child'[b] \notin {"starting", "live"}
      BY <2>2 DEF Reaped
    <2>3. ASSUME NEW a \in Agents, StartRequested(a) \/ DisposeRequested(a)
          PROVE  \A b \in Agents : child'[b] = child[b] \/ child'[b] \notin {"starting", "live"}
      BY <2>0, <2>3 DEF StartRequested, DisposeRequested
    <2>4. ASSUME NEW a \in Agents, ProviderSteps(a)
          PROVE  \A b \in Agents : child'[b] = child[b] \/ child'[b] \notin {"starting", "live"}
      BY <2>0, <2>4 DEF ProviderSteps, StartFulfils, StartRejects, ChildReports, DisposalEnds
    <2>5. ASSUME NEW a \in Agents, StartNarrated(a) \/ EndNarrated(a)
          PROVE  child' = child
      BY <2>5 DEF StartNarrated, EndNarrated
    <2>6. ASSUME NEW reason, ResultArrives(reason)
          PROVE  child' \in {child, Reaped(child)}
      BY <2>6 DEF ResultArrives
    <2>7. CASE Boundary  BY <2>2, <2>7, BoundaryEffect
    <2>8. CASE ThreadExits  BY <2>2, <2>8 DEF ThreadExits, FirstDeath
    <2> QED
      BY <2>1, <2>2, <2>3, <2>4, <2>5, <2>6, <2>7, <2>8, HostCases DEF Boundary
  <1>2. UNCHANGED vars => \A a \in Agents : Late(a)  BY DEF vars, hostVars
  <1> QED  BY <1>1, InvHolds, PTL DEF Spec, NoLateChild
=============================================================================
