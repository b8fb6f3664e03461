------------------------ MODULE FixSessionFlowProofs ------------------------
(***************************************************************************)
(* Theorems about the course of a session in FixSession, for any requests, *)
(* frames and bounds.  Whoever uses the handle, and whatever await fails:  *)
(* the actor implements SessionLife (PhasesInOrder), it is Established     *)
(* only with an empty gap buffer (NoGapWhenEstablished), and what it       *)
(* buffers is ahead of it (BufferIsAhead).  Under the assumption Gated of  *)
(* FixSessionProofs: numbers on the wire are consecutive (NumbersUnbroken),*)
(* and no gap fill covers an order (FillsSkipNoOrder).                     *)
(*                                                                         *)
(* They rest on what the worklist of the actor may look like: which entry  *)
(* is followed by which, and which phase a send may still lead to (Flow).  *)
(*                                                                         *)
(* The lemmas behind the theorems are about one actor beside another over  *)
(* the same journal; SessionOverlapProofs puts two of them together.       *)
(***************************************************************************)
EXTENDS FixSessionProofs, FiniteSetTheorems

\* A send of a session message or of an order, until it is marked.
Carries(job) == job.do \in {"commit", "write", "mark"}

Logon == Send("A", HeartBtInt, "LogonSent")

\* What todo may be, by its head and its tail.
Worklist(h, t) ==
  \/ h.do = "reset" /\ t = <<Logon>>
  \/ Carries(h) /\ t = <<>>
  \/ /\ Carries(h) /\ h.then = "None"
     /\ t # <<>> /\ t = <<Head(t)>> /\ Head(t).do = "commit"
     /\ Head(t).then \in {"TestRequest", "Blocked"}
  \/ h.do = "expected" /\ t = <<Drain>>
  \/ Carries(h) /\ h.then \in {"None", "Disconnected"} /\ t = <<Drain>>
  \/ h.do \in {"replay", "write replay", "mark replay"} /\ t = <<Drain>>
  \/ /\ h.do \in {"write replay", "mark replay"}
     /\ t # <<>> /\ t = <<Head(t), Drain>> /\ Head(t).do = "replay"
  \/ h.do = "drain" /\ t = <<>>

Shaped == todo = <<>> \/ Worklist(Head(todo), Tail(todo))

Sending == todo # <<>> /\ Carries(Head(todo))

\* The Logon of this connection is still to be sent.
Opening ==
  /\ todo # <<>>
  /\ Head(todo).do = "reset" \/ (Sending /\ Head(todo).then = "LogonSent")

\* The phase a send leads to follows the one the session is in.
Lively ==
  running =>
    /\ phase \in DOMAIN Life!Follows
    /\ phase = "Connecting" <=> Opening
    /\ Sending => \/ Head(todo).then \in {"None", "TestRequest", "Blocked"}
                  \/ Head(todo).then \in Life!Follows[phase] \ {"Established"}

\* In these phases nothing is buffered, but for the ResendRequest on its way.
NoGap ==
  running /\ phase \in {"Connecting", "LogonSent", "Established"} =>
    \/ gap_buffer = Journal!NoRows
    \/ Sending /\ Head(todo).then = "Recovering"

\* The actor will go through the gap buffer before it selects again.
Draining ==
  /\ todo # <<>>
  /\ \/ Head(todo).do = "drain"
     \/ Tail(todo) = <<Drain>>
     \/ Tail(todo) # <<>> /\ Tail(Tail(todo)) = <<Drain>>

Ahead == running => Draining \/ \A n \in DOMAIN gap_buffer : n > next_in

Keyed == \A n \in DOMAIN gap_buffer : gap_buffer[n].seq = n

\* The inductive invariant of the session's course.
Flow == Shaped /\ Lively /\ NoGap /\ Ahead /\ Keyed

-----------------------------------------------------------------------------
\* What is put in front of a sequence is its head.
LEMMA Front ==
  ASSUME NEW job, NEW S, NEW s \in Seq(S)
  PROVE  /\ <<job>> \o s # <<>>
         /\ Head(<<job>> \o s) = job
         /\ Tail(<<job>> \o s) = s
<1>1. s \in Seq(S \cup {job}) /\ <<job>> \in Seq(S \cup {job})
  OBVIOUS
<1>2. /\ <<job>> \o s \in Seq(S \cup {job})
      /\ Len(<<job>> \o s) = Len(s) + 1 /\ Len(s) \in Nat
      /\ (<<job>> \o s)[1] = job
      /\ \A i \in 1..Len(s) : (<<job>> \o s)[i + 1] = s[i]
  BY <1>1
<1>3. <<job>> \o s # <<>> /\ Head(<<job>> \o s) = job
  BY <1>2
<1>4. /\ Tail(<<job>> \o s) \in Seq(S \cup {job})
      /\ Len(Tail(<<job>> \o s)) = Len(s)
      /\ \A i \in 1..Len(s) : Tail(<<job>> \o s)[i] = s[i]
  BY <1>2, <1>3
<1>5. Tail(<<job>> \o s) = s
  BY <1>1, <1>4
<1> QED
  BY <1>3, <1>5

\* A sequence of one entry.
LEMMA Single ==
  ASSUME NEW a
  PROVE  <<a>> # <<>> /\ Head(<<a>>) = a /\ Tail(<<a>>) = <<>> /\ <<a>> \o <<>> = <<a>>
  OBVIOUS

\* Sequences of two, however they are made.
LEMMA Double ==
  ASSUME NEW a, NEW b
  PROVE  /\ <<a, b>> # <<>> /\ Head(<<a, b>>) = a /\ Tail(<<a, b>>) = <<b>>
         /\ Append(<<a>>, b) = <<a, b>> /\ <<a>> \o <<b>> = <<a, b>>
<1>1. <<a, b>> # <<>> /\ Head(<<a, b>>) = a /\ Tail(<<a, b>>) = <<b>>
  OBVIOUS
<1> DEFINE S == {a, b}
<1>2. <<a>> \in Seq(S) /\ <<b>> \in Seq(S) /\ a \in S /\ b \in S /\ <<a, b>> \in Seq(S)
  OBVIOUS
<1>3. Len(<<a>>) = 1 /\ Len(<<b>>) = 1 /\ <<a>>[1] = a /\ <<b>>[1] = b
  OBVIOUS
<1>4. Len(<<a, b>>) = 2 /\ <<a, b>>[1] = a /\ <<a, b>>[2] = b
  OBVIOUS
<1> HIDE DEF S
<1>5. /\ Append(<<a>>, b) \in Seq(S) /\ Len(Append(<<a>>, b)) = 2
      /\ Append(<<a>>, b)[1] = a /\ Append(<<a>>, b)[2] = b
  BY <1>2, <1>3
<1>6. /\ <<a>> \o <<b>> \in Seq(S) /\ Len(<<a>> \o <<b>>) = 2
      /\ (<<a>> \o <<b>>)[1] = a /\ (<<a>> \o <<b>>)[2] = b
  BY <1>2, <1>3
<1>7. \A s \in Seq(S) : Len(s) = 2 /\ s[1] = a /\ s[2] = b => s = <<a, b>>
  BY <1>2, <1>4
<1> QED
  BY <1>1, <1>5, <1>6, <1>7

\* The tail of a worklist is a sequence, and a worklist of its own.
LEMMA TailTyped ==
  ASSUME NEW h, NEW t, Worklist(h, t)
  PROVE  \E S : t \in Seq(S)
<1>1. CASE t = <<>>
  <2> DEFINE S == {}
  <2>1. t \in Seq(S)
    BY <1>1
  <2> HIDE DEF S
  <2> QED
    BY <2>1
<1>2. ASSUME NEW a, t = <<a>> PROVE \E S : t \in Seq(S)
  <2> DEFINE S == {a}
  <2>1. t \in Seq(S)
    BY <1>2
  <2> HIDE DEF S
  <2> QED
    BY <2>1
<1>3. ASSUME NEW a, NEW b, t = <<a, b>> PROVE \E S : t \in Seq(S)
  <2> DEFINE S == {a, b}
  <2>1. t \in Seq(S)
    BY <1>3
  <2> HIDE DEF S
  <2> QED
    BY <2>1
<1> QED
  BY <1>1, <1>2, <1>3, Zenon DEF Worklist

\* The next step puts an entry in front of a tail: what todo is then.
LEMMA PutFront ==
  ASSUME NEW job, NEW t, Worklist(job, t), todo' = <<job>> \o t
  PROVE  todo' # <<>> /\ Head(todo') = job /\ Tail(todo') = t /\ Shaped'
<1>1. PICK S : t \in Seq(S)
  BY TailTyped
<1>2. todo' # <<>> /\ Head(todo') = job /\ Tail(todo') = t
  BY <1>1, Front
<1> QED
  BY <1>2 DEF Shaped

\* What follows in a worklist is one.
LEMMA PopFront ==
  ASSUME NEW h, NEW t, Worklist(h, t), t # <<>>
  PROVE  Worklist(Head(t), Tail(t))
<1>1. CASE t = <<Logon>>
  <2>1. Head(t) = Logon /\ Tail(t) = <<>> /\ Carries(Logon)
    BY <1>1, Single DEF Logon, Send, Carries
  <2> QED
    BY <2>1 DEF Worklist
<1>2. CASE t = <<Head(t)>> /\ Head(t).do = "commit"
  BY <1>2, Single DEF Worklist, Carries
<1>3. CASE t = <<Drain>>
  <2>1. Head(t).do = "drain" /\ Tail(t) = <<>>
    BY <1>3, Single DEF Drain
  <2> QED
    BY <2>1 DEF Worklist
<1>4. CASE t = <<Head(t), Drain>> /\ Head(t).do = "replay"
  BY <1>4, Double DEF Worklist
<1> QED
  BY <1>1, <1>2, <1>3, <1>4 DEF Worklist

-----------------------------------------------------------------------------
LifeStep == [Life!Next]_(Life!lifeVars)

\* The order of the phases, as values.
LEMMA Phasing ==
  /\ DOMAIN Life!Follows = {"Connecting", "LogonSent", "Established", "Recovering",
                            "LogoutSent", "Disconnected"}
  /\ Life!Follows["Connecting"] = {"LogonSent"}
  /\ Life!Follows["LogonSent"] = {"Established", "Recovering", "LogoutSent", "Disconnected"}
  /\ Life!Follows["Established"] = {"Recovering", "LogoutSent", "Disconnected"}
  /\ Life!Follows["Recovering"] = {"Established", "LogoutSent", "Disconnected"}
  /\ Life!Follows["LogoutSent"] = {"Recovering", "Disconnected"}
  /\ Life!Follows["Disconnected"] = {"Recovering"}
  BY DEF Life!Follows

\* No phase leads back to Connecting.
LEMMA LifeAfter ==
  Flow /\ LifeStep /\ running /\ running' /\ phase # "Connecting" => phase' # "Connecting"
<1> SUFFICES ASSUME Flow, LifeStep, running, running', phase # "Connecting"
             PROVE  phase' # "Connecting"
  OBVIOUS
<1>1. phase \in DOMAIN Life!Follows \ {"Connecting"}
  BY DEF Flow, Lively
<1>2. "Connecting" \notin Life!Follows[phase]
  BY <1>1, Phasing
<1> QED
  BY <1>2 DEF LifeStep, Life!Next, Life!Start, Life!Move, Life!End, Life!lifeVars

\* The task ends.
LEMMA Ends ==
  ASSUME running, NEW p \in {"Disconnected", "Blocked"}, Stop(p)
  PROVE  Flow' /\ LifeStep
<1>1. /\ ~running' /\ phase' = p /\ todo' = <<>> /\ gap_buffer' = Journal!NoRows
      /\ DOMAIN gap_buffer' = {}
  BY DEF Stop, Journal!NoRows
<1>2. LifeStep
  BY <1>1 DEF LifeStep, Life!Next, Life!End, Life!Ended
<1>3. Flow'
  BY <1>1 DEF Flow, Shaped, Lively, NoGap, Ahead, Keyed
<1> QED
  BY <1>2, <1>3

\* An error ends the task.
LEMMA FatalEnds ==
  ASSUME running, Fatal
  PROVE  Flow' /\ LifeStep
  BY Ends DEF Fatal

\* A step that changes nothing.
LEMMA StutterFlows ==
  ASSUME Flow, UNCHANGED vars
  PROVE  Flow' /\ LifeStep
<1>1. UNCHANGED <<running, phase, todo, gap_buffer, next_in>>
  BY DEF vars, counters
<1>2. LifeStep
  BY <1>1 DEF LifeStep, Life!lifeVars
<1>3. Flow'
  BY <1>1 DEF Flow, Shaped, Lively, Sending, Opening, NoGap, Ahead, Draining, Keyed
<1> QED
  BY <1>2, <1>3

\* A send goes on: the entry for it is replaced by the next one.
LEMMA SendGoesOn ==
  ASSUME Flow, running, todo # <<>>, Carries(Head(todo)),
         NEW job, Carries(job), job.then = Head(todo).then,
         todo' = <<job>> \o Tail(todo),
         UNCHANGED <<running, phase, next_in, gap_buffer>>
  PROVE  Flow' /\ LifeStep
<1>1. Worklist(Head(todo), Tail(todo))
  BY DEF Flow, Shaped
<1>2. Worklist(job, Tail(todo))
  BY <1>1 DEF Worklist, Carries
<1>3. todo' # <<>> /\ Head(todo') = job /\ Tail(todo') = Tail(todo) /\ Shaped'
  BY <1>2, PutFront
<1>4. /\ Sending /\ Sending' /\ (Opening' <=> Opening)
  BY <1>3 DEF Sending, Opening, Carries
<1>5. Lively' /\ NoGap'
  BY <1>3, <1>4 DEF Flow, Lively, NoGap
<1>6. Draining' <=> Draining
  BY <1>3 DEF Draining, Carries
<1>7. Ahead' /\ Keyed'
  BY <1>6 DEF Flow, Ahead, Keyed
<1>8. LifeStep
  BY DEF LifeStep, Life!lifeVars
<1> QED
  BY <1>3, <1>5, <1>7, <1>8 DEF Flow

\* The actor goes on with something that is no send.
LEMMA WorkGoesOn ==
  ASSUME Flow, running, ~Sending, ~Opening, Shaped', ~Sending', ~Opening',
         Draining => Draining',
         UNCHANGED <<running, phase, next_in, gap_buffer>>
  PROVE  Flow' /\ LifeStep
<1>1. LifeStep
  BY DEF LifeStep, Life!lifeVars
<1>2. Lively' /\ NoGap' /\ Ahead' /\ Keyed'
  BY DEF Flow, Lively, NoGap, Ahead, Keyed
<1> QED
  BY <1>1, <1>2 DEF Flow

\* At the select the actor begins to send.
LEMMA SendBegins ==
  ASSUME Flow, AtSelect, NEW job, NEW t, Worklist(job, t), Carries(job),
         \/ job.then \in {"None", "TestRequest", "Blocked"}
         \/ job.then \in Life!Follows[phase] \ {"Established"},
         todo' = <<job>> \o t,
         UNCHANGED <<running, phase, next_in>>,
         gap_buffer' = gap_buffer \/ job.then = "Recovering",
         Keyed', \A n \in DOMAIN gap_buffer' : n > next_in
  PROVE  Flow' /\ LifeStep
<1>1. todo' # <<>> /\ Head(todo') = job /\ Tail(todo') = t /\ Shaped'
  BY PutFront
<1>2. running /\ todo = <<>> /\ ~Sending /\ ~Opening
  BY DEF AtSelect, Sending, Opening
<1>3. phase # "Connecting" /\ phase \in DOMAIN Life!Follows
  BY <1>2 DEF Flow, Lively
<1>4. job.then # "LogonSent"
  BY <1>3, Phasing
<1>5. Sending' /\ ~Opening'
  BY <1>1, <1>4 DEF Sending, Opening, Carries
<1>6. Lively'
  BY <1>1, <1>3, <1>5 DEF Lively
<1>7. NoGap'
  BY <1>1, <1>2, <1>5 DEF Flow, NoGap
<1>8. Ahead'
  BY DEF Ahead
<1>9. LifeStep
  BY DEF LifeStep, Life!lifeVars
<1> QED
  BY <1>1, <1>6, <1>7, <1>8, <1>9 DEF Flow

-----------------------------------------------------------------------------
\* CommitAdmin and WriteWire: a send on its way to its mark.
LEMMA CommitAdminFlows ==
  ASSUME Flow, CommitAdmin
  PROVE  Flow' /\ LifeStep
<1>1. CASE Fatal
  BY <1>1, FatalEnds DEF CommitAdmin, Doing
<1>2. CASE ~Fatal
  <2>1. PICK seq : WriteCommitted(AdminCommit(Head(todo)), seq, Head(todo).then)
    BY <1>2, Zenon DEF CommitAdmin
  <2> DEFINE c == AdminCommit(Head(todo))
             job == Write(c.wire, c.request_id, seq, Head(todo).then)
  <2>2. running /\ todo # <<>> /\ Carries(Head(todo))
    BY DEF CommitAdmin, Doing, Carries
  <2>3. Carries(job) /\ job.then = Head(todo).then
    BY DEF Carries, Write
  <2>4. /\ todo' = <<job>> \o Tail(todo)
        /\ UNCHANGED <<running, phase, next_in, gap_buffer>>
    BY <2>1, <2>2 DEF WriteCommitted, counters
  <2> HIDE DEF job
  <2> QED
    BY <2>2, <2>3, <2>4, SendGoesOn
<1> QED
  BY <1>1, <1>2

\* The frame is on the wire, its mark is next.
LEMMA WriteFlows ==
  ASSUME Flow, WriteWire
  PROVE  Flow' /\ LifeStep
<1> DEFINE job == Mark(Head(todo).key, Head(todo).seq, Head(todo).then)
<1>1. running /\ todo # <<>> /\ Carries(Head(todo))
  BY DEF WriteWire, Doing, Carries
<1>2. Carries(job) /\ job.then = Head(todo).then
  BY DEF Carries, Mark
<1>3. /\ todo' = <<job>> \o Tail(todo)
      /\ UNCHANGED <<running, phase, next_in, gap_buffer>>
  BY DEF WriteWire, counters
<1> HIDE DEF job
<1> QED
  BY <1>1, <1>2, <1>3, SendGoesOn

\* What may follow a send in a worklist.
LEMMA BehindSend ==
  ASSUME NEW h, NEW t, Worklist(h, t), Carries(h)
  PROVE  \/ t = <<>>
         \/ /\ h.then = "None" /\ t # <<>> /\ Tail(t) = <<>> /\ Head(t).do = "commit"
            /\ Head(t).then \in {"TestRequest", "Blocked"}
         \/ h.then \in {"None", "Disconnected"} /\ t = <<Drain>>
<1>1. CASE t # <<>> /\ t = <<Head(t)>> /\ Head(t).do = "commit"
  BY <1>1, Single DEF Worklist, Carries
<1> QED
  BY <1>1 DEF Worklist, Carries

\* The last thing to do may be to go through the buffer.
LEMMA DrainOnly ==
  <<Drain>> # <<>> /\ Head(<<Drain>>).do = "drain" /\ Tail(<<Drain>>) = <<>>
<1>1. Drain.do = "drain"
  BY DEF Drain
<1> QED
  BY <1>1, Single

\* MarkWritten: the send is over, its phase is taken.
LEMMA MarkFlows ==
  ASSUME Flow, MarkWritten
  PROVE  Flow' /\ LifeStep
<1> DEFINE job == Head(todo)
           t == Tail(todo)
<1>1. /\ running /\ todo # <<>> /\ Carries(job) /\ Sending /\ job.do = "mark"
      /\ Worklist(job, t)
  BY DEF MarkWritten, Doing, Carries, Sending, Flow, Shaped
<1>2. CASE Fatal
  BY <1>1, <1>2, FatalEnds
<1>3. CASE ~Fatal /\ job.then = "Blocked"
  <2>1. \/ Stop("Blocked")
        \/ /\ ~running' /\ phase' = "Blocked" /\ todo' = <<>>
           /\ gap_buffer' = Journal!NoRows
    BY <1>3 DEF MarkWritten
  <2>2. /\ ~running' /\ phase' = "Blocked" /\ todo' = <<>> /\ DOMAIN gap_buffer' = {}
    BY <2>1 DEF Stop, Journal!NoRows
  <2>3. LifeStep
    BY <1>1, <2>2 DEF LifeStep, Life!Next, Life!End, Life!Ended
  <2> QED
    BY <2>2, <2>3 DEF Flow, Shaped, Lively, NoGap, Ahead, Keyed
<1>4. CASE ~Fatal /\ job.then # "Blocked"
  <2>1. /\ phase' = IF job.then \in Phases THEN job.then ELSE phase
        /\ todo' = t /\ UNCHANGED <<running, gap_buffer, next_in>>
    BY <1>4 DEF MarkWritten
  <2>2. \/ t = <<>>
        \/ /\ job.then = "None" /\ t # <<>> /\ Tail(t) = <<>> /\ Head(t).do = "commit"
           /\ Head(t).then \in {"TestRequest", "Blocked"}
        \/ job.then \in {"None", "Disconnected"} /\ t = <<Drain>>
    BY <1>1, BehindSend
  <2>3. \/ job.then \in {"None", "TestRequest"}
        \/ job.then \in Life!Follows[phase] \ {"Established"}
    BY <1>1, <1>4 DEF Flow, Lively
  <2>4. phase \in DOMAIN Life!Follows /\ (phase = "Connecting" <=> job.then = "LogonSent")
    BY <1>1 DEF Flow, Lively, Opening
  <2>5. Shaped'
    BY <1>1, <2>1, PopFront DEF Shaped
  <2>6. t = <<Drain>> => t # <<>> /\ Head(t).do = "drain"
    BY DrainOnly
  <2>7. ~Opening' /\ (Sending' => Head(todo').then \in {"TestRequest", "Blocked"})
    BY <2>1, <2>2, <2>6 DEF Opening, Sending, Carries
  <2>8. CASE job.then \in {"None", "TestRequest"}
    <3>1. phase' = phase /\ phase # "Connecting"
      BY <2>1, <2>4, <2>8 DEF Phases
    <3>2. LifeStep
      BY <2>1, <3>1 DEF LifeStep, Life!lifeVars
    <3>3. Lively'
      BY <2>1, <2>4, <2>7, <3>1 DEF Lively
    <3>4. NoGap'
      BY <1>1, <2>1, <2>8, <3>1 DEF Flow, NoGap
    <3>5. Ahead' /\ Keyed'
      <4>1. Draining => Draining'
        BY <1>1, <2>1, <2>2, <2>6 DEF Draining
      <4> QED
        BY <2>1, <4>1 DEF Flow, Ahead, Keyed
    <3> QED
      BY <2>5, <3>2, <3>3, <3>4, <3>5 DEF Flow
  <2>9. CASE job.then \in Life!Follows[phase] \ {"Established"}
    <3>1. /\ phase' = job.then /\ phase' # "Connecting" /\ phase' \in DOMAIN Life!Follows
          /\ phase' \in Life!Follows[phase]
          /\ phase' \in {"Connecting", "LogonSent", "Established"} =>
               phase = "Connecting" /\ job.then = "LogonSent"
      BY <2>1, <2>4, <2>9, Phasing DEF Phases
    <3>2. LifeStep
      BY <1>1, <2>1, <3>1 DEF LifeStep, Life!Next, Life!Move
    <3>3. Lively'
      BY <2>7, <3>1 DEF Lively
    <3>4. NoGap'
      BY <1>1, <2>1, <3>1 DEF Flow, NoGap
    <3>5. Ahead' /\ Keyed'
      <4>1. Draining => Draining'
        BY <1>1, <2>1, <2>2, <2>6 DEF Draining
      <4> QED
        BY <2>1, <4>1 DEF Flow, Ahead, Keyed
    <3> QED
      BY <2>5, <3>2, <3>3, <3>4, <3>5 DEF Flow
  <2> QED
    BY <2>3, <2>8, <2>9
<1> QED
  BY <1>2, <1>3, <1>4

\* Where the actor selects it does not wait for a Logon of its own.
LEMMA Selecting ==
  ASSUME Flow, AtSelect
  PROVE  /\ running /\ todo = <<>> /\ ~Sending /\ ~Opening /\ ~Draining
         /\ phase \in DOMAIN Life!Follows \ {"Connecting"}
         /\ \A n \in DOMAIN gap_buffer : n > next_in
         /\ phase \in {"LogonSent", "Established"} => gap_buffer = Journal!NoRows
  BY DEF Flow, AtSelect, Sending, Opening, Lively, Draining, Ahead, NoGap

\* Submit, RequestLogout and Tick: what the actor begins to send by itself.
LEMMA SubmitFlows ==
  ASSUME Flow, NEW r, NEW f, Submit(r, f)
  PROVE  Flow' /\ LifeStep
<1>1. AtSelect
  BY DEF Submit
<1>2. CASE Fatal
  BY <1>1, <1>2, FatalEnds DEF AtSelect
<1>3. CASE UNCHANGED vars
  BY <1>3, StutterFlows
<1>4. CASE ~Fatal /\ ~UNCHANGED vars
  <2>1. PICK seq : WriteCommitted(OrderCommit(r, f), seq, "None")
    BY <1>4, Zenon DEF Submit
  <2> DEFINE c == OrderCommit(r, f)
             job == Write(c.wire, c.request_id, seq, "None")
  <2>2. Carries(job) /\ job.then = "None" /\ Worklist(job, <<>>)
    BY DEF Carries, Write, Worklist
  <2>3. /\ todo' = <<job>> \o <<>> /\ UNCHANGED <<running, phase, next_in, gap_buffer>>
    BY <1>1, <2>1 DEF WriteCommitted, counters, AtSelect
  <2> HIDE DEF job
  <2>4. Keyed' /\ \A n \in DOMAIN gap_buffer' : n > next_in
    BY <1>1, <2>3, Selecting DEF Flow, Keyed
  <2> QED
    BY <1>1, <2>2, <2>3, <2>4, SendBegins
<1> QED
  BY <1>2, <1>3, <1>4

\* A Logout command begins the send that leads to LogoutSent.
LEMMA LogoutFlows ==
  ASSUME Flow, RequestLogout
  PROVE  Flow' /\ LifeStep
<1> DEFINE job == Send("5", 0, "LogoutSent")
<1>1. AtSelect /\ phase \in {"LogonSent", "Established", "Recovering"}
  BY DEF RequestLogout, CanLogout
<1>2. /\ Carries(job) /\ job.then = "LogoutSent" /\ Worklist(job, <<>>)
  BY DEF Carries, Send, Worklist
<1>3. todo' = <<job>> \o <<>> /\ UNCHANGED <<running, phase, next_in, gap_buffer>>
  BY Single DEF RequestLogout, counters
<1> HIDE DEF job
<1>4. Keyed' /\ \A n \in DOMAIN gap_buffer' : n > next_in
  BY <1>1, <1>3, Selecting DEF Flow, Keyed
<1>5. job.then \in Life!Follows[phase] \ {"Established"}
  BY <1>1, <1>2, Phasing
<1> QED
  BY <1>1, <1>2, <1>3, <1>4, <1>5, SendBegins

\* The timer begins a Heartbeat, and behind it a TestRequest or the last Logout.
LEMMA TickFlows ==
  ASSUME Flow, NEW expired \in BOOLEAN, NEW silent \in BOOLEAN, Tick(expired, silent)
  PROVE  Flow' /\ LifeStep
<1>1. AtSelect
  BY DEF Tick
<1>2. CASE Fatal
  BY <1>1, <1>2, FatalEnds DEF AtSelect
<1>3. CASE ~Fatal
  <2> DEFINE beat == Send("0", 0, "None")
             logout == Send("5", 0, "Blocked")
             test == Send("1", next_out + 1, "TestRequest")
  <2>1. UNCHANGED <<running, phase, next_in, gap_buffer>>
    BY <1>3 DEF Tick, counters
  <2>2. Keyed' /\ \A n \in DOMAIN gap_buffer' : n > next_in
    BY <1>1, <2>1, Selecting DEF Flow, Keyed
  <2>3. /\ Carries(beat) /\ beat.then = "None"
        /\ logout.do = "commit" /\ logout.then = "Blocked" /\ Carries(logout)
        /\ test.do = "commit" /\ test.then = "TestRequest" /\ Carries(test)
    BY DEF Send, Carries
  <2>4. \/ todo' = <<>>
        \/ todo' = <<beat>>
        \/ todo' = Append(<<>>, logout)
        \/ todo' = Append(<<beat>>, logout)
        \/ todo' = Append(<<beat>>, test)
    BY <1>3, Zenon DEF Tick
  <2> HIDE DEF beat, logout, test
  <2>5. ASSUME NEW job, Carries(job), job.then \in {"None", "Blocked"}, todo' = <<job>>
        PROVE Flow' /\ LifeStep
    <3>1. Worklist(job, <<>>) /\ todo' = <<job>> \o <<>>
      BY <2>5, Single DEF Worklist
    <3> QED
      BY <1>1, <2>1, <2>2, <2>5, <3>1, SendBegins
  <2>6. ASSUME NEW job, job.do = "commit", job.then \in {"TestRequest", "Blocked"},
               todo' = Append(<<beat>>, job)
        PROVE Flow' /\ LifeStep
    <3>1. Worklist(beat, <<job>>)
      BY <2>3, <2>6, Single DEF Worklist
    <3>2. todo' = <<beat>> \o <<job>>
      BY <2>6, Double
    <3> QED
      BY <1>1, <2>1, <2>2, <2>3, <3>1, <3>2, SendBegins
  <2>7. CASE todo' = <<>>
    <3>1. todo = <<>>
      BY <1>1 DEF AtSelect
    <3> QED
      BY <1>1, <2>1, <2>7, <3>1, Selecting, WorkGoesOn DEF Shaped, Sending, Opening
  <2>8. Append(<<>>, logout) = <<logout>>
    OBVIOUS
  <2> QED
    BY <2>3, <2>4, <2>5, <2>6, <2>7, <2>8
<1> QED
  BY <1>2, <1>3

-----------------------------------------------------------------------------
\* A committed frame, and what it makes the actor do before it goes through
\* the buffer.
LEMMA CommitExpectedFlows ==
  ASSUME Flow, running, ~Sending, ~Opening, NEW m, NEW buffer,
         \A n \in DOMAIN buffer : buffer[n].seq = n,
         gap_buffer = Journal!NoRows => buffer = Journal!NoRows,
         CommitExpected(m, buffer, <<Drain>>)
  PROVE  Flow' /\ LifeStep
<1>1. CASE Fatal
  BY <1>1, FatalEnds
<1>2. CASE ~Fatal /\ ~running'
  <2>1. phase' = "Blocked" /\ todo' = <<>> /\ gap_buffer' = Journal!NoRows
    BY <1>2 DEF CommitExpected
  <2>2. DOMAIN gap_buffer' = {}
    BY <2>1 DEF Journal!NoRows
  <2>3. LifeStep
    BY <1>2, <2>1 DEF LifeStep, Life!Next, Life!End, Life!Ended
  <2> QED
    BY <1>2, <2>1, <2>2, <2>3 DEF Flow, Shaped, Lively, NoGap, Ahead, Keyed
<1>3. CASE ~Fatal /\ running'
  <2>1. /\ todo' = Response(m) \o <<Drain>> /\ phase' = PhaseAfter(m)
        /\ gap_buffer' = buffer /\ running'
    BY <1>3 DEF CommitExpected
  <2>2. phase \in DOMAIN Life!Follows /\ phase # "Connecting"
    BY DEF Flow, Lively
  <2>3. phase \in {"LogonSent", "Established"} => gap_buffer' = Journal!NoRows
    BY <2>1 DEF Flow, NoGap
  <2>4. /\ phase' = phase \/ (phase = "LogonSent" /\ phase' = "Established")
                         \/ (phase = "LogoutSent" /\ phase' = "Disconnected")
        /\ m.type = "5" /\ CanLogout => phase' = phase
    BY <2>1 DEF PhaseAfter, CanLogout
  <2>5. phase' \in DOMAIN Life!Follows /\ phase' # "Connecting"
    BY <2>2, <2>4, Phasing
  <2>6. LifeStep
    <3>1. phase' = phase \/ phase' \in Life!Follows[phase]
      BY <2>4, Phasing
    <3> QED
      BY <2>1, <3>1 DEF LifeStep, Life!Next, Life!Move, Life!lifeVars
  <2>7. NoGap' /\ Keyed'
    BY <2>1, <2>2, <2>3, <2>4 DEF NoGap, Keyed
  <2>8. CASE Response(m) = <<>>
    <3>1. todo' = <<Drain>>
      BY <2>1, <2>8, Single
    <3>2. todo' # <<>> /\ Head(todo').do = "drain" /\ Tail(todo') = <<>>
      BY <3>1, DrainOnly
    <3>3. Shaped' /\ ~Sending' /\ ~Opening' /\ Draining'
      BY <3>2 DEF Shaped, Worklist, Sending, Opening, Draining, Carries
    <3> QED
      BY <2>5, <2>6, <2>7, <3>3 DEF Flow, Lively, Ahead
  <2>9. ASSUME NEW job, Response(m) = <<job>>, Worklist(job, <<Drain>>),
               Carries(job) => \/ job.then = "None"
                               \/ job.then = "Disconnected" /\ CanLogout /\ phase' = phase,
               job.do # "reset"
        PROVE Flow' /\ LifeStep
    <3>1. todo' # <<>> /\ Head(todo') = job /\ Tail(todo') = <<Drain>> /\ Shaped'
      BY <2>1, <2>9, PutFront
    <3>2. Draining' /\ ~Opening'
      BY <2>9, <3>1 DEF Draining, Opening, Sending
    <3>3. CanLogout => "Disconnected" \in Life!Follows[phase] \ {"Established"}
      BY Phasing DEF CanLogout
    <3>4. Sending' => \/ Head(todo').then \in {"None", "TestRequest", "Blocked"}
                      \/ Head(todo').then \in Life!Follows[phase'] \ {"Established"}
      BY <2>9, <3>1, <3>3 DEF Sending
    <3> QED
      BY <2>5, <2>6, <2>7, <3>1, <3>2, <3>4 DEF Flow, Lively, Ahead
  <2>10. CASE m.type = "5" /\ CanLogout
    <3> DEFINE job == Send("5", 0, "Disconnected")
    <3>1. Response(m) = <<job>>
      BY <2>10 DEF Response
    <3>2. Worklist(job, <<Drain>>) /\ job.then = "Disconnected" /\ job.do # "reset"
      BY DEF Worklist, Send, Carries
    <3> HIDE DEF job
    <3> QED
      BY <2>4, <2>9, <2>10, <3>1, <3>2
  <2>11. CASE ~(m.type = "5" /\ CanLogout) /\ m.type = "2"
    <3> DEFINE job == Replay(m.arg, RangeEnd(m))
    <3>1. Response(m) = <<job>>
      BY <2>11 DEF Response
    <3>2. Worklist(job, <<Drain>>) /\ ~Carries(job) /\ job.do # "reset"
      BY DEF Worklist, Replay, Carries
    <3> HIDE DEF job
    <3> QED
      BY <2>9, <3>1, <3>2
  <2>12. CASE ~(m.type = "5" /\ CanLogout) /\ m.type = "1"
    <3> DEFINE job == Send("0", m.arg, "None")
    <3>1. Response(m) = <<job>>
      BY <2>12 DEF Response
    <3>2. Worklist(job, <<Drain>>) /\ job.then = "None" /\ job.do # "reset"
      BY DEF Worklist, Send, Carries
    <3> HIDE DEF job
    <3> QED
      BY <2>9, <3>1, <3>2
  <2>13. CASE ~(m.type = "5" /\ CanLogout) /\ m.type \notin {"1", "2"}
    BY <2>8, <2>13 DEF Response
  <2> QED
    BY <2>10, <2>11, <2>12, <2>13
<1> QED
  BY <1>1, <1>2, <1>3

\* handle_inbound: the frame is ahead, known, behind or due.
LEMMA ReceiveFlows ==
  ASSUME Flow, NEW m, ReceiveFrame(m)
  PROVE  Flow' /\ LifeStep
<1>1. AtSelect /\ running
  BY DEF ReceiveFrame, AtSelect
<1>2. CASE Fatal
  BY <1>1, <1>2, FatalEnds
<1>3. CASE UNCHANGED vars
  BY <1>3, StutterFlows
<1>4. CASE ReceiveAhead(m) /\ ~Fatal
  <2>1. /\ m.seq > next_in
        /\ gap_buffer' = IF m.seq \in DOMAIN gap_buffer THEN gap_buffer
                         ELSE Journal!Inserted(gap_buffer, m.seq, m)
        /\ todo' = IF phase = "Recovering" THEN <<>>
                   ELSE <<Send("2", next_in, "Recovering")>>
        /\ UNCHANGED <<running, phase, next_in>>
    BY <1>4 DEF ReceiveAhead, counters
  <2>2. Keyed' /\ \A n \in DOMAIN gap_buffer' : n > next_in
    <3>1. CASE m.seq \in DOMAIN gap_buffer
      BY <1>1, <2>1, <3>1, Selecting DEF Flow, Keyed
    <3>2. CASE m.seq \notin DOMAIN gap_buffer
      <4>1. /\ DOMAIN gap_buffer' = DOMAIN gap_buffer \cup {m.seq}
            /\ gap_buffer'[m.seq] = m
            /\ \A n \in DOMAIN gap_buffer : gap_buffer'[n] = gap_buffer[n]
        BY <2>1, <3>2 DEF Journal!Inserted
      <4> QED
        BY <1>1, <2>1, <4>1, Selecting DEF Flow, Keyed
    <3> QED
      BY <3>1, <3>2
  <2>3. CASE phase = "Recovering"
    <3>1. todo' = <<>> /\ ~Sending' /\ ~Opening' /\ Shaped'
      BY <2>1, <2>3 DEF Sending, Opening, Shaped
    <3>2. Lively' /\ NoGap' /\ Ahead'
      BY <1>1, <2>1, <2>2, <2>3, <3>1, Selecting DEF Lively, NoGap, Ahead
    <3>3. LifeStep
      BY <2>1 DEF LifeStep, Life!lifeVars
    <3> QED
      BY <2>2, <3>1, <3>2, <3>3 DEF Flow
  <2>4. CASE phase # "Recovering"
    <3> DEFINE job == Send("2", next_in, "Recovering")
    <3>1. todo' = <<job>> \o <<>>
      BY <2>1, <2>4, Single
    <3>2. Carries(job) /\ job.then = "Recovering" /\ Worklist(job, <<>>)
      BY DEF Carries, Send, Worklist
    <3> HIDE DEF job
    <3>3. job.then \in Life!Follows[phase] \ {"Established"}
      BY <1>1, <2>4, <3>2, Selecting, Phasing
    <3> QED
      BY <1>1, <2>1, <2>2, <3>1, <3>2, <3>3, SendBegins
  <2> QED
    BY <2>3, <2>4
<1>5. CASE ReceiveBehind(m) /\ ~Fatal
  <2>1. /\ todo' = <<Expected(m), Drain>> /\ phase = "LogonSent"
        /\ UNCHANGED <<running, phase, gap_buffer>>
    BY <1>5 DEF ReceiveBehind
  <2>2. todo' # <<>> /\ Head(todo').do = "expected" /\ Tail(todo') = <<Drain>>
    BY <2>1, Double DEF Expected
  <2>3. Shaped' /\ ~Sending' /\ ~Opening' /\ Draining'
    BY <2>2 DEF Shaped, Worklist, Sending, Opening, Draining, Carries
  <2>4. Lively' /\ NoGap' /\ Ahead' /\ Keyed'
    BY <1>1, <2>1, <2>3, Selecting DEF Lively, NoGap, Ahead, Keyed, Flow
  <2>5. LifeStep
    BY <2>1 DEF LifeStep, Life!lifeVars
  <2> QED
    BY <2>3, <2>4, <2>5 DEF Flow
<1>6. CASE ReceiveExpected(m)
  <2>1. CommitExpected(m, gap_buffer, <<Drain>>)
    BY <1>6 DEF ReceiveExpected
  <2> QED
    BY <1>1, <2>1, Selecting, CommitExpectedFlows DEF Flow, Keyed
<1> QED
  BY <1>2, <1>3, <1>4, <1>5, <1>6 DEF ReceiveFrame, ReceiveDuplicate

\* A realigned frame is committed; a due one comes out of the buffer.
LEMMA ResyncedFlows ==
  ASSUME Flow, CommitResynced
  PROVE  Flow' /\ LifeStep
<1>1. running /\ todo # <<>> /\ Head(todo).do = "expected" /\ ~Sending /\ ~Opening
  BY DEF CommitResynced, Doing, Sending, Opening, Carries
<1>2. Tail(todo) = <<Drain>>
  BY <1>1 DEF Flow, Shaped, Worklist, Carries
<1>3. CommitExpected(Head(todo).frame, gap_buffer, <<Drain>>)
  BY <1>2 DEF CommitResynced
<1> QED
  BY <1>1, <1>3, CommitExpectedFlows DEF Flow, Keyed

\* The next buffered frame that is due, or the end of the gap.
LEMMA DrainFlows ==
  ASSUME Flow, DrainBuffer
  PROVE  Flow' /\ LifeStep
<1> DEFINE ahead == {n \in DOMAIN gap_buffer : n > next_in}
           rest == [n \in ahead |-> gap_buffer[n]]
<1>1. running /\ todo # <<>> /\ Head(todo).do = "drain" /\ ~Sending /\ ~Opening
  BY DEF DrainBuffer, Doing, Sending, Opening, Carries
<1>2. Tail(todo) = <<>>
  BY <1>1 DEF Flow, Shaped, Worklist, Carries
<1>3. /\ \A n \in DOMAIN rest : rest[n].seq = n /\ n > next_in
      /\ gap_buffer = Journal!NoRows => rest = Journal!NoRows
      /\ ahead = {} => rest = Journal!NoRows
  BY DEF Flow, Keyed, Journal!NoRows
<1>4. phase \in DOMAIN Life!Follows \ {"Connecting"}
  BY <1>1 DEF Flow, Lively
<1>5. CASE next_in \in DOMAIN gap_buffer
  <2>1. CommitExpected(gap_buffer[next_in], rest, <<Drain>>)
    BY <1>5 DEF DrainBuffer
  <2> HIDE DEF rest
  <2> QED
    BY <1>1, <1>3, <2>1, CommitExpectedFlows
<1>6. CASE next_in \notin DOMAIN gap_buffer
  <2>1. /\ gap_buffer' = rest /\ todo' = <<>> /\ UNCHANGED <<running, next_in>>
        /\ phase' = IF phase = "Recovering" /\ ahead = {} THEN "Established" ELSE phase
    BY <1>2, <1>6 DEF DrainBuffer, counters
  <2> HIDE DEF rest, ahead
  <2>2. Shaped' /\ ~Sending' /\ ~Opening'
    BY <2>1 DEF Shaped, Sending, Opening
  <2>3. Lively' /\ LifeStep
    BY <1>1, <1>4, <2>1, <2>2, Phasing
       DEF Lively, LifeStep, Life!Next, Life!Move, Life!lifeVars
  <2>4. NoGap'
    BY <1>1, <1>3, <1>4, <2>1 DEF Flow, NoGap
  <2>5. Ahead' /\ Keyed'
    BY <1>3, <2>1 DEF Ahead, Keyed
  <2> QED
    BY <2>2, <2>3, <2>4, <2>5 DEF Flow
<1> QED
  BY <1>5, <1>6

-----------------------------------------------------------------------------
\* What is left of a worklist whose head is done.
LEMMA Popped ==
  ASSUME Flow, todo # <<>>, todo' = Tail(todo)
  PROVE  /\ Shaped'
         /\ todo' # <<>> => Worklist(Head(todo'), Tail(todo'))
  BY PopFront DEF Flow, Shaped

\* JournalReplay, WriteReplayWire and MarkReplayWritten: one message of a
\* range after the other.
LEMMA JournalReplayFlows ==
  ASSUME Flow, JournalReplay
  PROVE  Flow' /\ LifeStep
<1> DEFINE frame == ReplayFrame(Head(todo).at, Head(todo).end)
           next == ReplayEnd(Head(todo).at, Head(todo).end)
           job == WriteReplay(frame, meta.next_transmission)
           more == Replay(next, Head(todo).end)
<1>1. running /\ todo # <<>> /\ Head(todo).do = "replay" /\ ~Sending /\ ~Opening
  BY DEF JournalReplay, Doing, Sending, Opening, Carries
<1>2. Tail(todo) = <<Drain>>
  BY <1>1 DEF Flow, Shaped, Worklist, Carries
<1>3. /\ UNCHANGED <<running, phase, next_in, gap_buffer>>
      /\ \/ todo' = <<job>> \o <<>> \o <<Drain>>
         \/ todo' = <<job>> \o <<more>> \o <<Drain>>
  BY <1>2 DEF JournalReplay, counters
<1>4. job.do = "write replay" /\ more.do = "replay"
  BY DEF WriteReplay, Replay
<1> HIDE DEF job, more
<1>5. Worklist(job, <<Drain>>) /\ Worklist(job, <<more, Drain>>)
  BY <1>4, Double DEF Worklist
<1>6. \/ todo' = <<job>> \o <<Drain>>
      \/ todo' = <<job>> \o <<more, Drain>>
  <2>1. <<job>> \o <<>> \o <<Drain>> = <<job>> \o <<Drain>>
    BY Single
  <2>2. <<job>> \o <<more>> \o <<Drain>> = <<job>> \o <<more, Drain>>
    <3> DEFINE S == {job, more, Drain}
    <3>1. <<job>> \in Seq(S) /\ <<more>> \in Seq(S) /\ <<Drain>> \in Seq(S)
      OBVIOUS
    <3> HIDE DEF S
    <3>2. <<job>> \o <<more>> \o <<Drain>> = <<job>> \o (<<more>> \o <<Drain>>)
      BY <3>1
    <3> QED
      BY <3>2, Double
  <2> QED
    BY <1>3, <2>1, <2>2
<1>7. /\ todo' # <<>> /\ Head(todo') = job /\ Shaped'
      /\ Tail(todo') \in {<<Drain>>, <<more, Drain>>}
  <2>1. CASE todo' = <<job>> \o <<Drain>>
    BY <1>5, <2>1, PutFront
  <2>2. CASE todo' = <<job>> \o <<more, Drain>>
    BY <1>5, <2>2, PutFront
  <2> QED
    BY <1>6, <2>1, <2>2
<1>8. ~Sending' /\ ~Opening' /\ Draining'
  BY <1>4, <1>7, Double DEF Sending, Opening, Draining, Carries
<1> QED
  BY <1>1, <1>3, <1>7, <1>8, WorkGoesOn

\* A repetition is on the wire, its mark is next.
LEMMA WriteReplayFlows ==
  ASSUME Flow, WriteReplayWire
  PROVE  Flow' /\ LifeStep
<1> DEFINE job == MarkReplay(Head(todo).id)
<1>1. running /\ todo # <<>> /\ Head(todo).do = "write replay" /\ ~Sending /\ ~Opening
  BY DEF WriteReplayWire, Doing, Sending, Opening, Carries
<1>2. Worklist(Head(todo), Tail(todo))
  BY <1>1 DEF Flow, Shaped
<1>3. job.do = "mark replay"
  BY DEF MarkReplay
<1>4. /\ UNCHANGED <<running, phase, next_in, gap_buffer>>
      /\ todo' = <<job>> \o Tail(todo)
  BY DEF WriteReplayWire, counters
<1> HIDE DEF job
<1>5. Worklist(job, Tail(todo))
  BY <1>1, <1>2, <1>3 DEF Worklist, Carries
<1>6. todo' # <<>> /\ Head(todo') = job /\ Tail(todo') = Tail(todo) /\ Shaped'
  BY <1>4, <1>5, PutFront
<1>7. ~Sending' /\ ~Opening' /\ (Draining => Draining')
  BY <1>1, <1>3, <1>6 DEF Sending, Opening, Draining, Carries
<1> QED
  BY <1>1, <1>4, <1>6, <1>7, WorkGoesOn

\* The rest of the range, or the buffer, is next.
LEMMA ReplayMarkFlows ==
  ASSUME Flow, MarkReplayWritten
  PROVE  Flow' /\ LifeStep
<1>1. running /\ todo # <<>> /\ Head(todo).do = "mark replay" /\ ~Sending /\ ~Opening
  BY DEF MarkReplayWritten, Doing, Sending, Opening, Carries
<1>2. /\ UNCHANGED <<running, phase, next_in, gap_buffer>>
      /\ todo' = Tail(todo)
  BY DEF MarkReplayWritten, counters
<1>3. \/ todo' = <<Drain>>
      \/ todo' # <<>> /\ todo' = <<Head(todo'), Drain>> /\ Head(todo').do = "replay"
  BY <1>1, <1>2 DEF Flow, Shaped, Worklist, Carries
<1>4. Shaped'
  BY <1>1, <1>2, Popped
<1>5. /\ todo' # <<>> /\ Head(todo').do \in {"drain", "replay"}
      /\ Head(todo').do = "drain" \/ Tail(todo') = <<Drain>>
  <2>1. CASE todo' = <<Drain>>
    BY <2>1, DrainOnly
  <2>2. CASE todo' = <<Head(todo'), Drain>> /\ Head(todo').do = "replay"
    BY <2>2, Double
  <2> QED
    BY <1>3, <2>1, <2>2
<1>6. ~Sending' /\ ~Opening' /\ Draining'
  BY <1>5 DEF Sending, Opening, Draining, Carries
<1> QED
  BY <1>1, <1>2, <1>4, <1>6, WorkGoesOn

\* Connect and ResetJournal: a connection opens.
LEMMA LogonCarries == Carries(Logon) /\ Logon.then = "LogonSent"
  BY DEF Carries, Logon, Send

\* A new actor opens a connection, with a reset or without.
LEMMA ConnectFlows ==
  ASSUME Flow, Connect
  PROVE  Flow' /\ LifeStep
<1>1. /\ ~running /\ running' /\ phase' = "Connecting" /\ gap_buffer' = Journal!NoRows
      /\ DOMAIN gap_buffer' = {}
      /\ todo' = <<Reset>> \o <<Logon>> \/ todo' = <<>> \o <<Logon>>
  BY DEF Connect, Logon, Journal!NoRows
<1>2. Shaped' /\ Opening' /\ (Sending' => Head(todo').then = "LogonSent")
  <2>1. CASE todo' = <<Reset>> \o <<Logon>>
    <3>1. Reset.do = "reset"
      BY DEF Reset
    <3>2. Worklist(Reset, <<Logon>>)
      BY <3>1 DEF Worklist
    <3>3. todo' # <<>> /\ Head(todo') = Reset /\ Shaped'
      BY <2>1, <3>2, PutFront
    <3> QED
      BY <3>1, <3>3 DEF Opening, Sending, Carries
  <2>2. CASE todo' = <<>> \o <<Logon>>
    <3>1. todo' = <<Logon>> \o <<>>
      BY <2>2, Single
    <3>2. Worklist(Logon, <<>>)
      BY LogonCarries DEF Worklist
    <3>3. todo' # <<>> /\ Head(todo') = Logon /\ Shaped'
      BY <3>1, <3>2, PutFront
    <3> QED
      BY <3>3, LogonCarries DEF Opening, Sending
  <2> QED
    BY <1>1, <2>1, <2>2
<1>3. Lively'
  BY <1>1, <1>2, Phasing DEF Lively
<1>4. NoGap' /\ Ahead' /\ Keyed'
  BY <1>1 DEF NoGap, Ahead, Keyed
<1>5. LifeStep
  BY <1>1 DEF LifeStep, Life!Next, Life!Start
<1> QED
  BY <1>2, <1>3, <1>4, <1>5 DEF Flow

\* The reset is over, the Logon is next.
LEMMA ResetFlows ==
  ASSUME Flow, ResetJournal
  PROVE  Flow' /\ LifeStep
<1>1. /\ running /\ todo # <<>> /\ Head(todo).do = "reset" /\ Opening /\ ~Sending
  BY DEF ResetJournal, Doing, Opening, Sending, Carries
<1>2. Tail(todo) = <<Logon>>
  BY <1>1 DEF Flow, Shaped, Worklist, Carries
<1>3. todo' = <<Logon>> /\ UNCHANGED <<running, phase, gap_buffer>>
  BY <1>2 DEF ResetJournal
<1>4. phase = "Connecting" /\ DOMAIN gap_buffer = {} /\ gap_buffer = Journal!NoRows
  BY <1>1 DEF Flow, Lively, NoGap, Journal!NoRows
<1>5. todo' # <<>> /\ Head(todo') = Logon /\ Tail(todo') = <<>>
  BY <1>3, Single
<1>6. Shaped' /\ Opening' /\ Head(todo').then = "LogonSent"
  BY <1>5, LogonCarries DEF Shaped, Worklist, Opening, Sending
<1>7. Lively' /\ NoGap' /\ Ahead' /\ Keyed'
  BY <1>3, <1>4, <1>6, Phasing DEF Lively, NoGap, Ahead, Keyed
<1>8. LifeStep
  BY <1>3 DEF LifeStep, Life!lifeVars
<1> QED
  BY <1>6, <1>7, <1>8 DEF Flow

\* Nobody works before the first connection.
LEMMA FlowInitial == Init => Flow
<1>1. DOMAIN Journal!NoRows = {}
  BY DEF Journal!NoRows
<1> QED
  BY <1>1 DEF Init, Flow, Shaped, Lively, NoGap, Ahead, Keyed

\* Every step of the actor keeps the course, and is one of SessionLife.
LEMMA FlowInductive == Flow /\ [Next]_vars => Flow' /\ LifeStep
<1> SUFFICES ASSUME Flow, [Next]_vars PROVE Flow' /\ LifeStep
  OBVIOUS
<1>1. CASE UNCHANGED vars
  BY <1>1, StutterFlows
<1>2. CASE Proceed
  BY <1>2, CommitAdminFlows, WriteFlows, MarkFlows, JournalReplayFlows, WriteReplayFlows,
     ReplayMarkFlows, ResyncedFlows, DrainFlows, ResetFlows DEF Proceed
<1>3. ASSUME NEW r \in Requests, NEW f \in Fingerprints, Submit(r, f) PROVE Flow' /\ LifeStep
  BY <1>3, SubmitFlows
<1>4. CASE RequestLogout
  BY <1>4, LogoutFlows
<1>5. ASSUME NEW expired \in BOOLEAN, NEW silent \in BOOLEAN, Tick(expired, silent)
      PROVE Flow' /\ LifeStep
  BY <1>5, TickFlows
<1>6. CASE Connect
  BY <1>6, ConnectFlows
<1>7. CASE Disconnect
  BY <1>7, Ends DEF Disconnect, AtSelect
<1>8. CASE AwaitFails
  BY <1>8, Ends DEF AwaitFails
<1>9. ASSUME NEW m \in InFrames, ReceiveFrame(m) PROVE Flow' /\ LifeStep
  BY <1>9, ReceiveFlows
<1>10. CASE RejectFrame
  BY <1>10, FatalEnds DEF RejectFrame, AtSelect
<1>11. CASE Horizon
  BY <1>1, <1>11 DEF Horizon
<1> QED
  BY <1>1, <1>2, <1>3, <1>4, <1>5, <1>6, <1>7, <1>8, <1>9, <1>10, <1>11 DEF Next, Local

-----------------------------------------------------------------------------
\* The new messages on the wire of this connection.
News == {k \in 1..Len(sent) : ~sent[k].possdup}

\* The first message of a connection is a new one, and the next new one will
\* carry the number behind those that were sent.
Numbered ==
  /\ sent # <<>> => ~sent[1].possdup
  /\ running /\ sent = <<>> => phase = "Connecting" /\ ~Doing("mark")
  /\ running /\ sent # <<>> =>
       sent[1].seq + Cardinality(News) = IF Doing("write") THEN next_out ELSE meta.next_out
  /\ running => next_out \in Nat
  /\ Doing("write") => Head(todo).frame.seq = next_out

-----------------------------------------------------------------------------
\* One more message on the wire: what stays, and what counts as new.
LEMMA WireAppends ==
  ASSUME SentOK, NEW frame, sent' = Append(sent, frame)
  PROVE  /\ Len(sent) \in Nat /\ Len(sent') = Len(sent) + 1
         /\ DOMAIN sent = 1..Len(sent) /\ DOMAIN sent' = 1..(Len(sent) + 1)
         /\ sent'[Len(sent) + 1] = frame
         /\ \A i \in 1..Len(sent) : sent'[i] = sent[i]
         /\ sent = <<>> <=> Len(sent) = 0
         /\ sent' # <<>>
         /\ sent # <<>> => sent'[1] = sent[1]
         /\ sent = <<>> => sent'[1] = frame
<1>1. PICK S : sent \in Seq(S)
  BY DEF SentOK
<1> DEFINE R == S \cup {frame}
<1>2. S \subseteq R /\ frame \in R
  OBVIOUS
<1> HIDE DEF R
<1>3. sent \in Seq(R)
  BY <1>1, <1>2, WiderLine
<1>4. /\ Len(sent) \in Nat /\ Len(sent') = Len(sent) + 1
      /\ DOMAIN sent = 1..Len(sent) /\ DOMAIN sent' = 1..(Len(sent) + 1)
      /\ sent'[Len(sent) + 1] = frame
      /\ \A i \in 1..Len(sent) : sent'[i] = sent[i]
      /\ sent = <<>> <=> Len(sent) = 0
      /\ sent' # <<>>
  BY <1>2, <1>3
<1>5. sent # <<>> => 1 \in 1..Len(sent)
  BY <1>4
<1> QED
  BY <1>4, <1>5

\* A new message adds one to the count of the new ones, a repetition none.
LEMMA NewsCounted ==
  ASSUME SentOK, NEW frame, sent' = Append(sent, frame)
  PROVE  /\ Cardinality(News) \in Nat
         /\ sent = <<>> => Cardinality(News) = 0
         /\ frame.possdup => Cardinality(News') = Cardinality(News)
         /\ ~frame.possdup => Cardinality(News') = Cardinality(News) + 1
<1>1. /\ Len(sent) \in Nat /\ Len(sent') = Len(sent) + 1
      /\ sent'[Len(sent) + 1] = frame
      /\ \A i \in 1..Len(sent) : sent'[i] = sent[i]
      /\ sent = <<>> => Len(sent) = 0
  BY WireAppends
<1>2. IsFiniteSet(1..Len(sent))
  BY <1>1, FS_Interval
<1>3. IsFiniteSet(News) /\ Cardinality(News) \in Nat
  <2>1. News \subseteq 1..Len(sent)
    BY DEF News
  <2> QED
    BY <1>2, <2>1, FS_Subset, FS_CardinalityType
<1>4. sent = <<>> => Cardinality(News) = 0
  <2>1. sent = <<>> => News = {}
    BY <1>1 DEF News
  <2> QED
    BY <2>1, FS_EmptySet
<1>5. CASE frame.possdup
  <2>1. News' = News
    BY <1>1, <1>5 DEF News
  <2> QED
    BY <1>3, <1>4, <1>5, <2>1
<1>6. CASE ~frame.possdup
  <2>1. News' = News \cup {Len(sent) + 1}
    BY <1>1, <1>6 DEF News
  <2>2. Len(sent) + 1 \notin News
    BY <1>1 DEF News
  <2>3. Cardinality(News \cup {Len(sent) + 1}) = Cardinality(News) + 1
    BY <1>3, <2>2, FS_AddElement
  <2> QED
    BY <1>3, <1>4, <1>6, <2>1, <2>3
<1> QED
  BY <1>5, <1>6

\* What is new before a message is not changed by the messages behind it.
LEMMA UnbrokenGrows ==
  ASSUME SentOK, SequenceUnbroken, NEW frame, sent' = Append(sent, frame),
         ~frame.possdup /\ sent # <<>> => frame.seq = sent[1].seq + Cardinality(News),
         ~frame.possdup /\ sent = <<>> => frame.seq \in Nat
  PROVE  SequenceUnbroken'
<1> DEFINE Before(i) == {k \in 1..(i - 1) : ~sent[k].possdup}
           BeforeNext(i) == {k \in 1..(i - 1) : ~sent'[k].possdup}
<1> SUFFICES ASSUME NEW i \in DOMAIN sent', ~sent'[i].possdup
             PROVE  sent'[i].seq = sent'[1].seq + Cardinality(BeforeNext(i))
  BY Zenon DEF SequenceUnbroken
<1>1. /\ Len(sent) \in Nat /\ DOMAIN sent = 1..Len(sent) /\ DOMAIN sent' = 1..(Len(sent) + 1)
      /\ sent'[Len(sent) + 1] = frame
      /\ \A j \in 1..Len(sent) : sent'[j] = sent[j]
      /\ sent = <<>> <=> Len(sent) = 0
  BY WireAppends
<1>2. CASE i \in 1..Len(sent)
  <2>1. BeforeNext(i) = Before(i)
    BY <1>1, <1>2
  <2>2. sent'[i] = sent[i] /\ sent'[1] = sent[1] /\ i \in DOMAIN sent
    BY <1>1, <1>2
  <2>3. sent[i].seq = sent[1].seq + Cardinality(Before(i))
    BY <2>2 DEF SequenceUnbroken
  <2> QED
    BY <2>1, <2>2, <2>3
<1>3. CASE i = Len(sent) + 1 /\ sent # <<>>
  <2>1. BeforeNext(i) = News
    BY <1>1, <1>3 DEF News
  <2>2. sent'[i] = frame /\ sent'[1] = sent[1]
    BY <1>1, <1>3
  <2> QED
    BY <1>3, <2>1, <2>2
<1>4. CASE i = Len(sent) + 1 /\ sent = <<>>
  <2>1. BeforeNext(i) = {}
    BY <1>1, <1>4
  <2>2. Cardinality(BeforeNext(i)) = 0
    BY <2>1, FS_EmptySet
  <2>3. sent'[i] = frame /\ sent'[1] = frame
    BY <1>1, <1>4
  <2> HIDE DEF BeforeNext
  <2> QED
    BY <1>4, <2>2, <2>3
<1>5. i \in 1..Len(sent) \/ i = Len(sent) + 1
  BY <1>1
<1> HIDE DEF BeforeNext, Before
<1> QED
  BY <1>2, <1>3, <1>4, <1>5
-----------------------------------------------------------------------------
\* A stopped actor sends nothing more.
LEMMA NumbersStopped ==
  ASSUME Numbered, ~running', UNCHANGED sent
  PROVE  Numbered'
  BY DEF Numbered, Doing

\* A step that sends nothing and takes no number.
LEMMA NumbersQuiet ==
  ASSUME IInv, IInv', Flow, Numbered, running, ~InFlight, ~Opening,
         UNCHANGED <<sent, next_out>>, meta'.next_out = meta.next_out
  PROVE  Numbered'
<1>1. CASE ~running'
  BY <1>1, NumbersStopped
<1>2. CASE running'
  <2>1. sent # <<>> /\ phase # "Connecting"
    BY DEF Flow, Lively, Numbered
  <2>2. meta.next_out = next_out /\ next_out \in Nat
    BY DEF IInv, Counted, MetaOK
  <2>3. ~InFlight'
    BY <1>2, <2>2 DEF IInv, Counted
  <2>4. ~Doing("write") /\ ~Doing("write")'
    BY <2>3 DEF InFlight
  <2>5. News' = News
    BY DEF News
  <2> QED
    BY <2>1, <2>4, <2>5 DEF Numbered, Doing
<1> QED
  BY <1>1, <1>2

\* The frame of the next number is what is written next.
LEMMA NumbersCommitted ==
  ASSUME IInv, Flow, Numbered, running, ~InFlight, NEW job,
         todo' # <<>>, Head(todo') = job, job.do = "write", job.frame.seq = next_out,
         UNCHANGED <<sent, running, phase, next_out>>
  PROVE  Numbered'
<1>1. meta.next_out = next_out
  BY DEF IInv, Counted
<1>2. Doing("write")' /\ ~Doing("mark")' /\ ~Doing("write")
  BY DEF Doing, InFlight
<1>3. News' = News
  BY DEF News
<1> QED
  BY <1>1, <1>2, <1>3 DEF Numbered

\* CommitAdmin: the frame that is written next has the next number.
LEMMA CommitNumbered ==
  ASSUME IInv, Flow, Numbered, CommitAdmin
  PROVE  Numbered'
<1>1. running /\ todo # <<>> /\ Head(todo).do = "commit" /\ ~InFlight
  BY DEF CommitAdmin, Doing, InFlight
<1>2. CASE Fatal
  BY <1>2, NumbersStopped DEF Fatal, Stop
<1>3. CASE ~Fatal
  <2> DEFINE c == AdminCommit(Head(todo))
             Job(seq) == Write(c.wire, c.request_id, seq, Head(todo).then)
  <2>1. PICK seq : WriteCommitted(c, seq, Head(todo).then)
    BY <1>3, Zenon DEF CommitAdmin
  <2>2. /\ todo' = <<Job(seq)>> \o Tail(todo)
        /\ UNCHANGED <<sent, running, phase, next_out>>
    BY <1>1, <2>1 DEF WriteCommitted, counters
  <2>3. c.wire.seq = next_out
    BY DEF AdminCommit, Frame
  <2>4. Job(seq).do = "write" /\ Job(seq).frame.seq = next_out
    BY <2>3 DEF Write
  <2>5. \E S : Tail(todo) \in Seq(S)
    BY <1>1, TailTyped DEF Flow, Shaped
  <2> HIDE DEF Job, c
  <2>6. todo' # <<>> /\ Head(todo') = Job(seq)
    BY <2>2, <2>5, Front
  <2> QED
    BY <1>1, <2>2, <2>4, <2>6, NumbersCommitted
<1> QED
  BY <1>2, <1>3

\* So has the frame of an order, or nothing changes.
LEMMA SubmitNumbered ==
  ASSUME IInv, Flow, Numbered, NEW r, NEW f, Submit(r, f)
  PROVE  Numbered'
<1>1. running /\ todo = <<>> /\ ~InFlight
  BY DEF Submit, AtSelect, InFlight, Doing
<1>2. CASE Fatal
  BY <1>2, NumbersStopped DEF Fatal, Stop
<1>3. CASE UNCHANGED vars
  BY <1>3 DEF vars, journal, counters, Numbered, Doing, News
<1>4. CASE ~Fatal /\ ~UNCHANGED vars
  <2> DEFINE c == OrderCommit(r, f)
             Job(seq) == Write(c.wire, c.request_id, seq, "None")
  <2>1. PICK seq : WriteCommitted(c, seq, "None")
    BY <1>4, Zenon DEF Submit
  <2>2. /\ todo' = <<Job(seq)>> \o <<>>
        /\ UNCHANGED <<sent, running, phase, next_out>>
    BY <1>1, <2>1 DEF WriteCommitted, counters
  <2>3. c.wire.seq = next_out
    BY DEF OrderCommit, Frame
  <2>4. Job(seq).do = "write" /\ Job(seq).frame.seq = next_out
    BY <2>3 DEF Write
  <2> HIDE DEF Job, c
  <2>5. todo' # <<>> /\ Head(todo') = Job(seq)
    BY <2>2, Single
  <2> QED
    BY <1>1, <2>2, <2>4, <2>5, NumbersCommitted
<1> QED
  BY <1>2, <1>3, <1>4

\* The write of a new message takes the number into the count.
LEMMA WriteNumbered ==
  ASSUME IInv, Flow, Numbered, SequenceUnbroken, WriteWire
  PROVE  Numbered' /\ SequenceUnbroken'
<1> DEFINE job == Head(todo)
           frame == job.frame
<1>1. /\ running /\ todo # <<>> /\ job.do = "write" /\ InFlight /\ Doing("write")
      /\ sent' = Append(sent, frame)
      /\ todo' = <<Mark(job.key, job.seq, job.then)>> \o Tail(todo)
      /\ UNCHANGED <<meta, running, phase, next_out>>
  BY DEF WriteWire, Doing, InFlight, journal, counters
<1>2. ~frame.possdup /\ frame.seq = next_out /\ meta.next_out = next_out + 1 /\ next_out \in Nat
  <2>1. WriteOK(job)
    BY <1>1, RestLater DEF IInv, HeadOK, Later
  <2>2. meta.next_out = next_out + 1 /\ next_out \in Nat
    BY <1>1 DEF IInv, Counted, Numbered
  <2> QED
    BY <1>1, <2>1, <2>2 DEF WriteOK, Numbered
<1>3. /\ todo' # <<>> /\ Head(todo') = Mark(job.key, job.seq, job.then)
  <2>1. \E S : Tail(todo) \in Seq(S)
    BY <1>1, TailTyped DEF Flow, Shaped
  <2> QED
    BY <1>1, <2>1, Front
<1>4. ~Doing("write")'
  BY <1>3 DEF Doing, Mark
<1>5. SentOK
  BY DEF IInv
<1>6. sent # <<>> => sent[1].seq + Cardinality(News) = next_out
  BY <1>1 DEF Numbered
<1> HIDE DEF job, frame
<1>7. /\ Cardinality(News) \in Nat /\ (sent = <<>> => Cardinality(News) = 0)
      /\ Cardinality(News') = Cardinality(News) + 1
  BY <1>1, <1>2, <1>5, NewsCounted
<1>8. SequenceUnbroken'
  BY <1>1, <1>2, <1>5, <1>6, UnbrokenGrows
<1>9. /\ sent' # <<>>
      /\ sent = <<>> => sent'[1] = frame
      /\ sent # <<>> => sent'[1] = sent[1]
  BY <1>1, <1>5, WireAppends
<1>10. ~sent'[1].possdup
  BY <1>2, <1>9 DEF Numbered
<1>11. sent'[1].seq + Cardinality(News') = meta'.next_out
  <2>1. CASE sent = <<>>
    BY <1>1, <1>2, <1>7, <1>9, <2>1
  <2>2. CASE sent # <<>>
    <3>1. sent[1].seq \in Int
      <4>1. ~sent[1].possdup /\ 1 \in DOMAIN sent
        BY <1>1, <1>5, <2>2, WireAppends DEF Numbered
      <4>2. sent[1].seq \in DOMAIN outbound
        BY <4>1 DEF IInv, WireJournaled
      <4> QED
        BY <4>2 DEF IInv, RowsOK, RowOK
    <3> QED
      BY <1>1, <1>2, <1>6, <1>7, <1>9, <2>2, <3>1
  <2> QED
    BY <2>1, <2>2
<1>12. Numbered'
  BY <1>1, <1>2, <1>4, <1>9, <1>10, <1>11 DEF Numbered
<1> QED
  BY <1>8, <1>12

\* The mark moves next_out behind what was written.
LEMMA MarkNumbered ==
  ASSUME IInv, IInv', Flow, Numbered, MarkWritten
  PROVE  Numbered'
<1>1. running /\ todo # <<>> /\ Doing("mark") /\ ~Doing("write") /\ InFlight
  BY DEF MarkWritten, Doing, InFlight
<1>2. CASE Fatal
  BY <1>2, NumbersStopped DEF Fatal, Stop
<1>3. CASE ~Fatal
  <2>1. UNCHANGED <<sent, meta>> /\ next_out' = Head(todo).seq + 1
    BY <1>3 DEF MarkWritten, Journal!MarkOutboundWritten
  <2>2. CASE ~running'
    BY <2>1, <2>2, NumbersStopped
  <2>3. CASE running'
    <3>1. sent # <<>>
      BY <1>1 DEF Numbered
    <3>2. Head(todo).seq = next_out
      BY <1>1, RestLater DEF IInv, HeadOK, MarkOK, Later, Doing
    <3>3. meta.next_out = next_out + 1 /\ next_out \in Nat
      BY <1>1 DEF IInv, Counted, Numbered
    <3>4. ~InFlight'
      BY <2>1, <2>3, <3>2, <3>3 DEF IInv, Counted
    <3>5. ~Doing("write")' /\ News' = News
      BY <2>1, <3>4 DEF InFlight, News
    <3>6. next_out' \in Nat
      BY <2>1, <3>2, <3>3
    <3>7. sent[1].seq + Cardinality(News) = meta.next_out /\ ~sent[1].possdup
      BY <1>1, <3>1 DEF Numbered
    <3> QED
      BY <2>1, <3>1, <3>5, <3>6, <3>7 DEF Numbered
  <2> QED
    BY <2>2, <2>3
<1> QED
  BY <1>2, <1>3

\* A repetition is not counted; a connection starts with an empty wire.
LEMMA ReplayNumbered ==
  ASSUME IInv, IInv', Flow, Numbered, SequenceUnbroken, WriteReplayWire
  PROVE  Numbered' /\ SequenceUnbroken'
<1> DEFINE frame == Head(todo).frame
<1>1. /\ running /\ todo # <<>> /\ Head(todo).do = "write replay" /\ ~InFlight /\ ~Opening
      /\ sent' = Append(sent, frame)
      /\ UNCHANGED <<meta, running, phase, next_out>>
  BY DEF WriteReplayWire, Doing, InFlight, Opening, Sending, Carries, journal, counters
<1>2. frame.possdup /\ SentOK
  BY <1>1, RestLater DEF IInv, HeadOK, Later, ReplayOK
<1>3. sent # <<>> /\ ~sent[1].possdup
  BY <1>1 DEF Flow, Lively, Numbered
<1>4. meta.next_out = next_out /\ next_out \in Nat
  BY <1>1 DEF IInv, Counted, MetaOK
<1>5. ~InFlight'
  <2>1. running' /\ meta'.next_out = next_out /\ next_out' = next_out
    BY <1>1, <1>4
  <2> QED
    BY <1>4, <2>1 DEF IInv, Counted
<1>6. ~Doing("write")' /\ ~Doing("write")
  BY <1>1, <1>5 DEF InFlight
<1> HIDE DEF frame
<1>7. Cardinality(News') = Cardinality(News)
  BY <1>1, <1>2, NewsCounted
<1>8. SequenceUnbroken'
  BY <1>1, <1>2, UnbrokenGrows
<1>9. sent' # <<>> /\ sent'[1] = sent[1]
  BY <1>1, <1>2, <1>3, WireAppends
<1>10. sent[1].seq + Cardinality(News) = meta.next_out
  BY <1>1, <1>3, <1>6 DEF Numbered
<1>11. Numbered'
  BY <1>1, <1>3, <1>4, <1>6, <1>7, <1>9, <1>10 DEF Numbered
<1> QED
  BY <1>8, <1>11

\* A new connection has an empty wire.
LEMMA ConnectNumbered ==
  ASSUME IInv, Flow', Connect
  PROVE  Numbered' /\ SequenceUnbroken'
<1>1. /\ running' /\ phase' = "Connecting" /\ sent' = <<>> /\ next_out' = meta.next_out
  BY DEF Connect
<1>2. \/ todo' = <<Reset>> \o <<Logon>>
      \/ todo' = <<>> \o <<Logon>>
  BY DEF Connect, Logon
<1>3. todo' # <<>> /\ Head(todo').do \in {"reset", "commit"}
  <2>1. Reset.do = "reset" /\ Logon.do = "commit"
    BY DEF Reset, Logon, Send
  <2> QED
    BY <1>2, <2>1, Single, Double
<1>4. ~Doing("write")' /\ ~Doing("mark")'
  BY <1>3 DEF Doing
<1>5. next_out' \in Nat
  BY <1>1 DEF IInv, MetaOK
<1>6. Numbered'
  BY <1>1, <1>4, <1>5 DEF Numbered
<1>7. DOMAIN sent' = {}
  BY <1>1
<1> QED
  BY <1>6, <1>7 DEF SequenceUnbroken

\* A reset comes before the first message.
LEMMA ResetNumbered ==
  ASSUME IInv, IInv', Flow, Numbered, ResetJournal
  PROVE  Numbered'
<1>1. /\ running /\ todo # <<>> /\ Head(todo).do = "reset"
      /\ next_out' = 1 /\ todo' = Tail(todo)
      /\ UNCHANGED <<running, phase, sent>>
  BY DEF ResetJournal, Doing
<1>2. sent = <<>> /\ phase = "Connecting"
  BY <1>1, RestLater DEF IInv, HeadOK, Later, Flow, Lively, Opening
<1>3. todo' = <<Logon>>
  BY <1>1 DEF Flow, Shaped, Worklist, Carries
<1>4. Logon.do = "commit"
  BY DEF Logon, Send
<1>5. ~Doing("write")' /\ ~Doing("mark")'
  BY <1>3, <1>4, Single DEF Doing
<1> QED
  BY <1>1, <1>2, <1>5 DEF Numbered

\* A failed await leaves at most one more message on the wire.
LEMMA AwaitNumbered ==
  ASSUME IInv, Flow, Numbered, SequenceUnbroken, AwaitFails
  PROVE  Numbered' /\ SequenceUnbroken'
<1> DEFINE job == Head(todo)
           frame == job.frame
<1>1. running /\ todo # <<>> /\ ~running'
  BY DEF AwaitFails, Stop
<1>2. CASE UNCHANGED sent
  BY <1>1, <1>2, NumbersStopped DEF SequenceUnbroken
<1>3. CASE ~UNCHANGED sent
  <2>1. job.do \in {"write", "write replay"} /\ sent' = Append(sent, frame)
    BY <1>3 DEF AwaitFails
  <2>2. SentOK
    BY DEF IInv
  <2>3. sent = <<>> => job.do = "write"
    BY <1>1, <2>1 DEF Flow, Lively, Opening, Sending, Carries, Numbered
  <2>4. job.do = "write" => /\ frame.seq = next_out /\ ~frame.possdup /\ next_out \in Nat
                            /\ sent # <<>> => sent[1].seq + Cardinality(News) = next_out
    BY <1>1, RestLater DEF IInv, HeadOK, Later, WriteOK, Numbered, Doing
  <2>5. job.do = "write replay" => frame.possdup
    BY <1>1, RestLater DEF IInv, HeadOK, Later, ReplayOK
  <2> HIDE DEF job, frame
  <2>6. SequenceUnbroken'
    BY <2>1, <2>2, <2>4, <2>5, UnbrokenGrows
  <2>7. sent' # <<>> /\ (sent = <<>> => sent'[1] = frame) /\ (sent # <<>> => sent'[1] = sent[1])
    BY <2>1, <2>2, WireAppends
  <2>8. ~sent'[1].possdup
    BY <2>3, <2>4, <2>7 DEF Numbered
  <2> QED
    BY <1>1, <2>6, <2>7, <2>8 DEF Numbered, Doing
<1> QED
  BY <1>2, <1>3

\* A committed frame takes no outbound number.
LEMMA CommitExpectedNumbered ==
  ASSUME IInv, IInv', Flow, Numbered, running, ~InFlight, ~Opening,
         NEW m, NEW buffer, NEW rest, CommitExpected(m, buffer, rest)
  PROVE  Numbered' /\ UNCHANGED sent
<1>1. CASE Fatal
  BY <1>1, NumbersStopped DEF Fatal, Stop
<1>2. CASE ~Fatal
  <2> DEFINE next == IF m.type = "4" THEN m.arg ELSE m.seq + 1
  <2>1. UNCHANGED <<sent, next_out>>
    BY <1>2 DEF CommitExpected
  <2>2. meta' = [meta EXCEPT !.next_in = next, !.next_event = @ + 1]
    BY <1>2 DEF CommitExpected, Journal!CommitInbound
  <2> HIDE DEF next
  <2>3. meta'.next_out = meta.next_out
    BY <2>2, InboundMeta DEF IInv
  <2> QED
    BY <2>1, <2>3, NumbersQuiet
<1> QED
  BY <1>1, <1>2

\* Nor does a received one, whatever its number.
LEMMA ReceiveNumbered ==
  ASSUME IInv, IInv', Flow, Numbered, NEW m, ReceiveFrame(m)
  PROVE  Numbered' /\ UNCHANGED sent
<1>1. AtSelect /\ running /\ ~InFlight /\ ~Opening
  BY DEF ReceiveFrame, AtSelect, InFlight, Doing, Opening
<1>2. CASE Fatal
  BY <1>2, NumbersStopped DEF Fatal, Stop
<1>3. CASE UNCHANGED vars
  BY <1>3 DEF vars, journal, counters, Numbered, Doing, News
<1>4. CASE ReceiveAhead(m) /\ ~Fatal
  <2>1. UNCHANGED <<meta, sent, next_out>>
    BY <1>4 DEF ReceiveAhead, journal, counters
  <2> QED
    BY <1>1, <2>1, NumbersQuiet
<1>5. CASE ReceiveBehind(m) /\ ~Fatal
  <2>1. UNCHANGED <<sent, next_out>>
    BY <1>5 DEF ReceiveBehind
  <2>2. meta' = [meta EXCEPT !.next_in = m.seq, !.next_event = @ + 1]
    BY <1>5 DEF ReceiveBehind, Journal!ResyncInbound
  <2>3. meta'.next_out = meta.next_out
    BY <2>2, InboundMeta DEF IInv
  <2> QED
    BY <1>1, <2>1, <2>3, NumbersQuiet
<1>6. CASE ReceiveExpected(m)
  BY <1>1, <1>6, CommitExpectedNumbered DEF ReceiveExpected
<1> QED
  BY <1>2, <1>3, <1>4, <1>5, <1>6 DEF ReceiveFrame, ReceiveDuplicate

\* The steps that neither write nor commit a new message.
LEMMA RestNumbered ==
  ASSUME IInv, IInv', Flow, Numbered,
         \/ RequestLogout \/ \E expired, silent \in BOOLEAN : Tick(expired, silent)
         \/ CommitResynced \/ DrainBuffer \/ JournalReplay \/ MarkReplayWritten
  PROVE  Numbered' /\ UNCHANGED sent
<1>1. running /\ ~InFlight /\ ~Opening
  BY DEF RequestLogout, Tick, AtSelect, CommitResynced, DrainBuffer, JournalReplay,
     MarkReplayWritten, Doing, InFlight, Opening, Sending, Carries
<1>2. CASE Fatal
  BY <1>2, NumbersStopped DEF Fatal, Stop
<1>3. ASSUME NEW m, NEW buffer, NEW rest, CommitExpected(m, buffer, rest)
      PROVE Numbered' /\ UNCHANGED sent
  BY <1>1, <1>3, CommitExpectedNumbered
<1>4. CASE UNCHANGED <<meta, sent, next_out>>
  BY <1>1, <1>4, NumbersQuiet
<1>5. CASE RequestLogout \/ \E expired, silent \in BOOLEAN : Tick(expired, silent)
  BY <1>2, <1>4, <1>5 DEF RequestLogout, Tick, journal, counters
<1>6. CASE CommitResynced \/ DrainBuffer
  BY <1>3, <1>4, <1>6 DEF CommitResynced, DrainBuffer, journal, counters
<1>7. CASE MarkReplayWritten
  BY <1>4, <1>7 DEF MarkReplayWritten, Journal!MarkTransmissionWritten, counters
<1>8. CASE JournalReplay
  <2>1. /\ meta' = [meta EXCEPT !.next_transmission = @ + 1]
        /\ UNCHANGED <<sent, next_out>>
    BY <1>8 DEF JournalReplay, Journal!CommitTransmission, counters
  <2>2. meta' = [next_out |-> meta.next_out, next_in |-> meta.next_in,
                 next_event |-> meta.next_event,
                 next_transmission |-> meta.next_transmission + 1]
    BY <2>1 DEF IInv, MetaOK
  <2>3. meta'.next_out = meta.next_out
    BY <2>2
  <2> QED
    BY <1>1, <2>1, <2>3, NumbersQuiet
<1> QED
  BY <1>5, <1>6, <1>7, <1>8

\* Nothing was sent at first.
LEMMA NumbersInitial == Init => Numbered /\ SequenceUnbroken
<1>1. Init => DOMAIN sent = {}
  BY DEF Init
<1> QED
  BY <1>1 DEF Init, Numbered, SequenceUnbroken, Doing

\* Every step of the actor keeps the numbers of the wire unbroken.
LEMMA NumbersInductive ==
  IInv /\ IInv' /\ Flow /\ Flow' /\ Numbered /\ SequenceUnbroken /\ [Next]_vars
    => Numbered' /\ SequenceUnbroken'
<1> SUFFICES ASSUME IInv, IInv', Flow, Flow', Numbered, SequenceUnbroken, [Next]_vars
             PROVE  Numbered' /\ SequenceUnbroken'
  OBVIOUS
<1>1. UNCHANGED sent => SequenceUnbroken'
  BY DEF SequenceUnbroken
<1>2. CASE UNCHANGED vars
  BY <1>1, <1>2 DEF vars, journal, counters, Numbered, Doing, News
<1>3. CASE Proceed
  <2>1. CASE CommitAdmin
    BY <1>1, <2>1, CommitNumbered DEF CommitAdmin, WriteCommitted, Fatal
  <2>2. CASE MarkWritten
    BY <1>1, <2>2, MarkNumbered DEF MarkWritten, Fatal
  <2>3. CASE ResetJournal
    BY <1>1, <2>3, ResetNumbered DEF ResetJournal
  <2> QED
    BY <1>1, <1>3, <2>1, <2>2, <2>3, WriteNumbered, ReplayNumbered, RestNumbered DEF Proceed
<1>4. ASSUME NEW r \in Requests, NEW f \in Fingerprints, Submit(r, f)
      PROVE Numbered' /\ SequenceUnbroken'
  BY <1>1, <1>4, SubmitNumbered DEF Submit, WriteCommitted, Fatal, vars
<1>5. CASE RequestLogout \/ \E expired, silent \in BOOLEAN : Tick(expired, silent)
  BY <1>1, <1>5, RestNumbered
<1>6. CASE Connect
  BY <1>6, ConnectNumbered
<1>7. CASE Disconnect \/ RejectFrame
  BY <1>1, <1>7, NumbersStopped DEF Disconnect, RejectFrame, Fatal, Stop
<1>8. CASE AwaitFails
  BY <1>8, AwaitNumbered
<1>9. ASSUME NEW m \in InFrames, ReceiveFrame(m) PROVE Numbered' /\ SequenceUnbroken'
  BY <1>1, <1>9, ReceiveNumbered
<1>10. CASE Horizon
  BY <1>2, <1>10 DEF Horizon
<1> QED
  BY <1>2, <1>3, <1>4, <1>5, <1>6, <1>7, <1>8, <1>9, <1>10 DEF Next, Local

-----------------------------------------------------------------------------
\* The number of a frame was given away, and so were the numbers a gap fill
\* covers, none of them to an order.
FillOK(frame) ==
  /\ frame.seq \in Nat /\ frame.seq < meta.next_out
  /\ frame.type = "4" =>
       /\ frame.arg \in Nat /\ frame.seq < frame.arg /\ frame.arg <= meta.next_out
       /\ \A n \in frame.seq..(frame.arg - 1) : ~IsOrder(n)

\* A ResendRequest names numbers.
Asks(m) == m.type = "2" => m.arg \in Nat /\ m.end \in Nat

\* A range to be replayed is not empty and was given away.
RangeOK(job) ==
  /\ job.at \in Nat /\ job.end \in Nat
  /\ job.at <= job.end /\ job.end < meta.next_out

\* A command that is written or marked is the one of its row.
CommandOfRow(job) ==
  /\ job.key \in DOMAIN commands
  /\ outbound[job.seq].command.cl_ord_id = commands[job.key].cl_ord_id

EntryOK(job) ==
  /\ job.do = "write" => job.frame.type # "4"
  /\ job.do \in {"write", "mark"} => CommandOfRow(job)
  /\ job.do = "replay" => RangeOK(job)
  /\ job.do = "write replay" => FillOK(job.frame)
  /\ job.do = "expected" => Asks(job.frame)

SentFills == \A i \in DOMAIN sent : FillOK(sent[i])
RowTypes == \A n \in DOMAIN outbound : outbound[n].wire.type # "4"
Buffered == \A n \in DOMAIN gap_buffer : Asks(gap_buffer[n])
Entered ==
  todo # <<>> =>
    /\ EntryOK(Head(todo))
    /\ Tail(todo) # <<>> /\ Head(Tail(todo)).do = "replay" => RangeOK(Head(Tail(todo)))

Fills == SentFills /\ RowTypes /\ Buffered /\ Entered

-----------------------------------------------------------------------------
\* What a step of a replay writes, and what is left of the range.
LEMMA ReplayFrameFills ==
  ASSUME IInv, RowTypes, NEW job, RangeOK(job)
  PROVE  /\ FillOK(ReplayFrame(job.at, job.end))
         /\ ReplayEnd(job.at, job.end) \in Nat
<1> DEFINE at == job.at
           end == job.end
<1>1. at \in Nat /\ end \in Nat /\ at <= end /\ end < meta.next_out /\ meta.next_out \in Nat
  BY DEF RangeOK, IInv, MetaOK
<1>2. CASE IsOrder(at)
  <2> DEFINE wire == outbound[at].wire
  <2>1. at \in DOMAIN outbound /\ ReplayFrame(at, end) = Repeated(wire)
    BY <1>2 DEF IsOrder, ReplayFrame
  <2>2. wire = Frame(wire.type, at, wire.arg) /\ wire.type # "4"
    BY <2>1 DEF IInv, RowsOK, RowOK, RowTypes
  <2> HIDE DEF wire
  <2>3. Repeated(wire).type = wire.type /\ Repeated(wire).seq = at
    BY <2>2, RepeatedKeeps
  <2> QED
    BY <1>1, <1>2, <2>1, <2>2, <2>3 DEF FillOK, ReplayEnd
<1>3. CASE ~IsOrder(at)
  <2> DEFINE fill == Frame("4", at, GapEnd(at, end))
  <2>1. ReplayFrame(at, end) = Repeated(fill) /\ ReplayEnd(at, end) = GapEnd(at, end)
    BY <1>3 DEF ReplayFrame, ReplayEnd
  <2>2. fill = Frame("4", at, GapEnd(at, end))
    OBVIOUS
  <2> HIDE DEF fill
  <2>3. Repeated(fill).seq = at /\ Repeated(fill).arg = GapEnd(at, end)
    BY <2>2, RepeatedKeeps
  <2>4. /\ GapEnd(at, end) \in Nat /\ at < GapEnd(at, end) /\ GapEnd(at, end) <= end + 1
        /\ \A k \in at..(GapEnd(at, end) - 1) : ~IsOrder(k)
    BY <1>1, <1>3, GapEndIs
  <2>5. GapEnd(at, end) <= meta.next_out
    BY <1>1, <2>4
  <2> QED
    BY <1>1, <2>1, <2>3, <2>4, <2>5 DEF FillOK
<1> QED
  BY <1>2, <1>3

\* A range that a counterparty asks for, clamped, was given away.
LEMMA RangeClamped ==
  ASSUME NEW m, Asks(m), m.type = "2", IsAcceptable(m),
         next_out = meta.next_out, next_out \in Nat
  PROVE  RangeOK(Replay(m.arg, RangeEnd(m)))
<1>1. m.arg \in Nat /\ m.end \in Nat
  BY DEF Asks
<1>2. m.arg <= RangeEnd(m) /\ RangeEnd(m) \in Int /\ RangeEnd(m) <= next_out - 1
  BY <1>1 DEF IsAcceptable, RangeEnd
<1>3. Replay(m.arg, RangeEnd(m)).at = m.arg /\ Replay(m.arg, RangeEnd(m)).end = RangeEnd(m)
  BY DEF Replay
<1> QED
  BY <1>1, <1>2, <1>3 DEF RangeOK

-----------------------------------------------------------------------------
\* What was true of a fill stays so while numbers are only given away.
LEMMA RowsStay ==
  ASSUME UNCHANGED outbound, meta'.next_out = meta.next_out, SentFills, RowTypes,
         UNCHANGED sent
  PROVE  SentFills' /\ RowTypes'
  BY DEF SentFills, RowTypes, FillOK, IsOrder

\* A stopped actor has nothing to do.
LEMMA FillsStopped ==
  ASSUME Fills, todo' = <<>>, DOMAIN gap_buffer' = {},
         UNCHANGED <<sent, outbound>>, meta'.next_out = meta.next_out
  PROVE  Fills'
  BY RowsStay DEF Fills, Buffered, Entered

\* An error ends the task and leaves the wire.
LEMMA FatalFills ==
  ASSUME Fills, Fatal
  PROVE  Fills'
<1>1. DOMAIN Journal!NoRows = {}
  BY DEF Journal!NoRows
<1> QED
  BY <1>1, FillsStopped DEF Fatal, Stop, journal

\* One entry is a worklist.
LEMMA EntersOne ==
  ASSUME NEW job, todo' = <<job>>, job.do \in {"commit", "drain"}
  PROVE  Entered'
<1>1. todo' # <<>> /\ Head(todo') = job /\ Tail(todo') = <<>>
  BY Single
<1> QED
  BY <1>1 DEF Entered, EntryOK

-----------------------------------------------------------------------------
\* A commit adds a row that is no gap fill, at a number no fill covers.
LEMMA CommitFills ==
  ASSUME IInv, Flow, Fills, running, ~InFlight, NEW c, NEW then, NEW line,
         c.wire.type # "4", Journal!CommitOutbound(c), c.msg_seq_num = next_out,
         todo' = <<Write(c.wire, c.request_id, next_out, then)>> \o line,
         \/ line = <<>>
         \/ line = <<Drain>>
         \/ line # <<>> /\ line = <<Head(line)>> /\ Head(line).do = "commit",
         UNCHANGED <<sent, gap_buffer>>
  PROVE  Fills'
<1> DEFINE job == Write(c.wire, c.request_id, next_out, then)
           row == [command |-> Journal!NewCommand(c), wire |-> c.wire]
<1>1. next_out = meta.next_out /\ next_out \in Nat
  BY DEF IInv, Counted, MetaOK
<1>2. /\ commands' = [k \in DOMAIN commands \cup {c.request_id} |->
                        IF k = c.request_id THEN Journal!NewCommand(c) ELSE commands[k]]
      /\ outbound' = [n \in DOMAIN outbound \cup {next_out} |->
                        IF n = next_out THEN row ELSE outbound[n]]
      /\ meta' = [meta EXCEPT !.next_out = @ + 1]
  BY DEF Journal!CommitOutbound, Journal!Inserted
<1>3. meta'.next_out = next_out + 1
  <2>1. meta' = [next_out |-> meta.next_out + 1, next_in |-> meta.next_in,
                 next_event |-> meta.next_event,
                 next_transmission |-> meta.next_transmission]
    BY <1>2 DEF IInv, MetaOK
  <2> QED
    BY <1>1, <2>1
<1>4. /\ DOMAIN outbound' = DOMAIN outbound \cup {next_out}
      /\ outbound'[next_out] = row /\ c.request_id \in DOMAIN commands'
      /\ commands'[c.request_id] = Journal!NewCommand(c)
      /\ \A n \in DOMAIN outbound : n # next_out => outbound'[n] = outbound[n]
  BY <1>2
<1>5. row.wire = c.wire /\ row.command = Journal!NewCommand(c)
  OBVIOUS
<1> HIDE DEF row
<1>6. RowTypes'
  BY <1>4, <1>5 DEF Fills, RowTypes
<1>7. SentFills'
  <2> SUFFICES ASSUME NEW i \in DOMAIN sent, NEW f, f = sent[i]
               PROVE  FillOK(f)'
    BY DEF SentFills
  <2>1. FillOK(f)
    BY DEF Fills, SentFills
  <2>2. CASE f.type # "4"
    BY <1>1, <1>3, <2>1, <2>2 DEF FillOK
  <2>3. ASSUME f.type = "4", NEW n \in f.seq..(f.arg - 1) PROVE ~IsOrder(n)'
    <3>1. n # next_out /\ ~IsOrder(n)
      BY <1>1, <2>1, <2>3 DEF FillOK
    <3> QED
      BY <1>4, <3>1 DEF IsOrder
  <2> QED
    BY <1>1, <1>3, <2>1, <2>2, <2>3 DEF FillOK
<1>8. Buffered'
  BY DEF Fills, Buffered
<1>9. /\ job.do = "write" /\ job.frame = c.wire /\ job.key = c.request_id /\ job.seq = next_out
  BY DEF Write
<1> HIDE DEF job
<1>10. todo' # <<>> /\ Head(todo') = job /\ Tail(todo') = line
  <2>1. \E S : line \in Seq(S)
    <3>1. ASSUME NEW a, line = <<a>> PROVE \E S : line \in Seq(S)
      <4> DEFINE S == {a}
      <4>1. line \in Seq(S)
        BY <3>1
      <4> HIDE DEF S
      <4> QED
        BY <4>1
    <3>2. line = <<>> => line \in Seq({next_out})
      OBVIOUS
    <3> QED
      BY <3>1, <3>2
  <2> QED
    BY <2>1, Front DEF job
<1>11. line # <<>> => Head(line).do # "replay"
  BY DrainOnly
<1>12. Entered'
  BY <1>4, <1>5, <1>9, <1>10, <1>11 DEF Entered, EntryOK, CommandOfRow
<1> QED
  BY <1>6, <1>7, <1>8, <1>12 DEF Fills

\* A session message is no gap fill.
LEMMA CommitAdminFills ==
  ASSUME IInv, Flow, Fills, CommitAdmin
  PROVE  Fills'
<1> DEFINE job == Head(todo)
           c == AdminCommit(job)
<1>1. running /\ todo # <<>> /\ job.do = "commit" /\ Carries(job) /\ ~InFlight
  BY DEF CommitAdmin, Doing, InFlight, Carries
<1>2. CASE Fatal
  BY <1>2, FatalFills
<1>3. CASE ~Fatal
  <2>1. c.request_id \notin DOMAIN commands /\ job.type \in AdminTypes
    BY NewAdminKey DEF AdminCommit
  <2>2. c.wire.type # "4" /\ c.msg_seq_num = next_out
    BY <2>1 DEF AdminCommit, Frame, AdminTypes
  <2>3. Journal!CommitOutbound(c) /\ WriteCommitted(c, next_out, job.then)
    BY <1>3, <2>1 DEF CommitAdmin, IsRetry
  <2> HIDE DEF c
  <2>4. /\ todo' = <<Write(c.wire, c.request_id, next_out, job.then)>> \o Tail(todo)
        /\ UNCHANGED <<sent, gap_buffer>>
    BY <1>1, <2>3 DEF WriteCommitted
  <2>5. \/ Tail(todo) = <<>> \/ Tail(todo) = <<Drain>>
        \/ /\ Tail(todo) # <<>> /\ Tail(todo) = <<Head(Tail(todo))>>
           /\ Head(Tail(todo)).do = "commit"
    BY <1>1 DEF Flow, Shaped, Worklist, Carries
  <2> QED
    BY <1>1, <2>2, <2>3, <2>4, <2>5, CommitFills
<1> QED
  BY <1>2, <1>3

\* An order is none, and takes a number no fill has covered.
LEMMA SubmitFills ==
  ASSUME Gated, IInv, Flow, Fills, NEW r \in Requests, NEW f \in Fingerprints, Submit(r, f)
  PROVE  Fills'
<1> DEFINE c == OrderCommit(r, f)
<1>1. running /\ todo = <<>> /\ ~InFlight
  BY DEF Submit, AtSelect, InFlight, Doing
<1>2. CASE Fatal
  BY <1>2, FatalFills
<1>3. CASE UNCHANGED vars
  BY <1>3 DEF vars, journal, Fills, SentFills, RowTypes, Buffered, Entered, EntryOK, RangeOK,
     FillOK, IsOrder, CommandOfRow
<1>4. CASE ~Fatal /\ r \notin DOMAIN commands
  <2>1. c.request_id = r /\ c.wire.type # "4" /\ c.msg_seq_num = next_out
    BY DEF OrderCommit, Frame
  <2>2. Journal!CommitOutbound(c) /\ WriteCommitted(c, next_out, "None")
    BY <1>4, <2>1 DEF Submit, IsRetry
  <2> HIDE DEF c
  <2>3. /\ todo' = <<Write(c.wire, c.request_id, next_out, "None")>> \o <<>>
        /\ UNCHANGED <<sent, gap_buffer>>
    BY <1>1, <2>2 DEF WriteCommitted
  <2> QED
    BY <1>1, <2>1, <2>2, <2>3, CommitFills
<1> QED
  BY <1>2, <1>3, <1>4, RetryAnswered

\* One more message on the wire that is no gap fill, or a good one.
LEMMA SentGrows ==
  ASSUME SentOK, SentFills, NEW frame, sent' = Append(sent, frame), FillOK(frame),
         UNCHANGED <<meta, outbound>>
  PROVE  SentFills'
<1>1. /\ DOMAIN sent = 1..Len(sent) /\ DOMAIN sent' = 1..(Len(sent) + 1)
      /\ Len(sent) \in Nat
      /\ sent'[Len(sent) + 1] = frame
      /\ \A i \in 1..Len(sent) : sent'[i] = sent[i]
  BY WireAppends
<1>2. \A i \in DOMAIN sent' : (i \in DOMAIN sent /\ sent'[i] = sent[i]) \/ sent'[i] = frame
  BY <1>1
<1> QED
  BY <1>2 DEF SentFills, FillOK, IsOrder

\* The number of a new message was given away to it.
LEMMA NewFrame ==
  ASSUME IInv, todo # <<>>, Head(todo).do = "write"
  PROVE  /\ Head(todo).frame.seq \in DOMAIN outbound
         /\ Head(todo).frame.seq \in Nat /\ Head(todo).frame.seq < meta.next_out
<1>1. HeadOK(Head(todo))
  BY RestLater DEF IInv
<1>2. InJournal(Head(todo).frame)
  BY <1>1 DEF HeadOK, Later, WriteOK
<1> QED
  BY <1>2 DEF InJournal, IInv, RowsOK, RowOK

\* The write of a new message, which is no fill.
LEMMA WriteFills ==
  ASSUME IInv, Flow, Fills, WriteWire
  PROVE  Fills'
<1> DEFINE job == Head(todo)
           mark == Mark(job.key, job.seq, job.then)
           frame == job.frame
<1>1. /\ running /\ todo # <<>> /\ job.do = "write" /\ Carries(job)
      /\ sent' = Append(sent, frame)
      /\ todo' = <<mark>> \o Tail(todo)
      /\ UNCHANGED <<meta, commands, outbound, gap_buffer>>
  BY DEF WriteWire, Doing, journal, Carries
<1>2. Worklist(job, Tail(todo)) /\ EntryOK(job)
  BY <1>1 DEF Flow, Shaped, Fills, Entered
<1>3. frame.type # "4" /\ CommandOfRow(job)
  BY <1>1, <1>2 DEF EntryOK
<1>4. mark.do = "mark" /\ mark.key = job.key /\ mark.seq = job.seq
  BY DEF Mark
<1>5. todo' # <<>> /\ Head(todo') = mark /\ Tail(todo') = Tail(todo)
  <2>1. \E S : Tail(todo) \in Seq(S)
    BY <1>2, TailTyped
  <2> HIDE DEF mark
  <2> QED
    BY <1>1, <2>1, Front
<1>6. Tail(todo) # <<>> => Head(Tail(todo)).do # "replay"
  BY <1>1, <1>2, BehindSend, DrainOnly
<1> HIDE DEF job, mark, frame
<1>7. Entered'
  BY <1>1, <1>3, <1>4, <1>5, <1>6 DEF Entered, EntryOK, CommandOfRow
<1>8. SentFills'
  BY <1>1, <1>3, NewFrame, SentGrows DEF IInv, Fills, FillOK, job, frame
<1> QED
  BY <1>1, <1>7, <1>8 DEF Fills, RowTypes, Buffered

\* The mark keeps the cl_ord_id of its row.
LEMMA MarkFills ==
  ASSUME IInv, Flow, Fills, MarkWritten
  PROVE  Fills'
<1> DEFINE job == Head(todo)
<1>1. /\ running /\ todo # <<>> /\ job.do = "mark" /\ Carries(job)
      /\ Worklist(job, Tail(todo)) /\ EntryOK(job)
  BY DEF MarkWritten, Doing, Carries, Flow, Shaped, Fills, Entered
<1>2. CommandOfRow(job)
  BY <1>1 DEF EntryOK
<1>3. CASE Fatal
  BY <1>3, FatalFills
<1>4. CASE ~Fatal
  <2> DEFINE written == [commands[job.key] EXCEPT !.phase = "Written"]
  <2>1. /\ job.key \in DOMAIN commands /\ job.seq \in DOMAIN outbound
        /\ outbound' = [outbound EXCEPT ![job.seq].command = written]
        /\ UNCHANGED <<meta, sent>>
        /\ \/ todo' = <<>> /\ gap_buffer' = Journal!NoRows
           \/ todo' = Tail(todo) /\ UNCHANGED gap_buffer
    BY <1>4 DEF MarkWritten, Journal!MarkOutboundWritten
  <2>2. written.cl_ord_id = commands[job.key].cl_ord_id
    <3>1. written = [request_id |-> commands[job.key].request_id,
                     fingerprint |-> commands[job.key].fingerprint,
                     cl_ord_id |-> commands[job.key].cl_ord_id,
                     msg_seq_num |-> commands[job.key].msg_seq_num,
                     phase |-> "Written"]
      BY <2>1 DEF IInv, CommandsOK, CommandOK
    <3> QED
      BY <3>1
  <2> HIDE DEF written
  <2>3. /\ DOMAIN outbound' = DOMAIN outbound
        /\ outbound'[job.seq] = [outbound[job.seq] EXCEPT !.command = written]
        /\ \A n \in DOMAIN outbound : n # job.seq => outbound'[n] = outbound[n]
    BY <2>1 DEF IInv, RowsOK
  <2>4. outbound'[job.seq] = [command |-> written, wire |-> outbound[job.seq].wire]
    BY <2>1, <2>3 DEF IInv, RowsOK, RowOK
  <2>5. \A n \in DOMAIN outbound :
          /\ outbound'[n].wire = outbound[n].wire
          /\ outbound'[n].command.cl_ord_id = outbound[n].command.cl_ord_id
    BY <1>2, <2>2, <2>3, <2>4 DEF CommandOfRow
  <2>6. \A n : IsOrder(n)' <=> IsOrder(n)
    BY <2>3, <2>5 DEF IsOrder
  <2>7. SentFills' /\ RowTypes'
    <3>1. ASSUME NEW f, FillOK(f) PROVE FillOK(f)'
      BY <2>1, <2>6, <3>1 DEF FillOK
    <3>2. SentFills'
      BY <2>1, <3>1 DEF Fills, SentFills
    <3> QED
      BY <2>3, <2>5, <3>2 DEF Fills, RowTypes
  <2>8. Buffered'
    BY <2>1 DEF Fills, Buffered, Journal!NoRows
  <2>9. Entered'
    <3>1. CASE todo' = <<>>
      BY <3>1 DEF Entered
    <3>2. CASE todo' = Tail(todo) /\ todo' # <<>>
      <4>1. /\ Head(todo').do \in {"commit", "drain"}
            /\ Tail(todo') = <<>>
        BY <1>1, <3>2, BehindSend, DrainOnly
      <4> QED
        BY <4>1 DEF Entered, EntryOK
    <3> QED
      BY <2>1, <3>1, <3>2
  <2> QED
    BY <2>7, <2>8, <2>9 DEF Fills
<1> QED
  BY <1>3, <1>4

-----------------------------------------------------------------------------
\* The next frame of a replay, and the rest of its range.
LEMMA JournalReplayFills ==
  ASSUME IInv, Flow, Flow', Fills, JournalReplay
  PROVE  Fills'
<1> DEFINE job == Head(todo)
           frame == ReplayFrame(job.at, job.end)
           next == ReplayEnd(job.at, job.end)
           first == WriteReplay(frame, meta.next_transmission)
           more == Replay(next, job.end)
<1>1. /\ todo # <<>> /\ job.do = "replay" /\ UNCHANGED <<sent, outbound, gap_buffer>>
      /\ \/ todo' = <<first>> \o <<>> \o Tail(todo)
         \/ next <= job.end /\ todo' = <<first>> \o <<more>> \o Tail(todo)
      /\ meta' = [meta EXCEPT !.next_transmission = @ + 1]
  BY DEF JournalReplay, Doing, Journal!CommitTransmission
<1>2. meta'.next_out = meta.next_out
  <2>1. meta' = [next_out |-> meta.next_out, next_in |-> meta.next_in,
                 next_event |-> meta.next_event,
                 next_transmission |-> meta.next_transmission + 1]
    BY <1>1 DEF IInv, MetaOK
  <2> QED
    BY <2>1
<1>3. RangeOK(job) /\ Tail(todo) = <<Drain>>
  BY <1>1 DEF Fills, Entered, EntryOK, Flow, Shaped, Worklist, Carries
<1>4. FillOK(frame) /\ next \in Nat
  BY <1>3, ReplayFrameFills DEF Fills
<1>5. /\ first.do = "write replay" /\ first.frame = frame
      /\ more.do = "replay" /\ more.at = next /\ more.end = job.end
  BY DEF WriteReplay, Replay
<1> HIDE DEF first, more, frame, next, job
<1>6. next <= job.end => RangeOK(more)
  BY <1>3, <1>4, <1>5 DEF RangeOK
<1>7. /\ todo' # <<>> /\ Head(todo') = first
      /\ Tail(todo') # <<>> /\ (Head(Tail(todo')).do = "replay" =>
           Head(Tail(todo')) = more /\ next <= job.end)
  <2>1. CASE todo' = <<first>> \o <<>> \o Tail(todo)
    <3>1. todo' = <<first>> \o <<Drain>>
      BY <1>3, <2>1, Single
    <3>2. todo' = <<first, Drain>>
      BY <3>1, Double
    <3>3. todo' # <<>> /\ Head(todo') = first /\ Tail(todo') = <<Drain>>
      BY <3>2, Double
    <3> QED
      BY <3>3, DrainOnly
  <2>2. CASE next <= job.end /\ todo' = <<first>> \o <<more>> \o Tail(todo)
    <3> DEFINE S == {first, more, Drain}
    <3>1. <<first>> \in Seq(S) /\ <<more>> \in Seq(S) /\ <<Drain>> \in Seq(S)
      OBVIOUS
    <3>2. <<more, Drain>> \in Seq(S)
      OBVIOUS
    <3> HIDE DEF S
    <3>3. <<first>> \o <<more>> \o <<Drain>> = <<first>> \o (<<more>> \o <<Drain>>)
      BY <3>1
    <3>4. todo' = <<first>> \o <<more, Drain>>
      BY <1>3, <2>2, <3>3, Double
    <3>5. todo' # <<>> /\ Head(todo') = first /\ Tail(todo') = <<more, Drain>>
      BY <3>2, <3>4, Front
    <3> QED
      BY <2>2, <3>5, Double
  <2> QED
    BY <1>1, <2>1, <2>2
<1>8. Entered'
  <2>1. ASSUME NEW f, f = frame PROVE FillOK(f)'
    BY <1>1, <1>2, <1>4, <2>1 DEF FillOK, IsOrder
  <2>2. next <= job.end => /\ more.at \in Nat /\ more.end \in Nat
                           /\ more.at <= more.end /\ more.end < meta'.next_out
    BY <1>2, <1>6 DEF RangeOK
  <2>3. EntryOK(Head(todo))'
    BY <1>5, <1>7, <2>1 DEF EntryOK, FillOK
  <2>4. Head(Tail(todo')).do = "replay" => RangeOK(Head(Tail(todo)))'
    BY <1>7, <2>2 DEF RangeOK
  <2> QED
    BY <2>3, <2>4 DEF Entered
<1> QED
  BY <1>1, <1>2, <1>8, RowsStay DEF Fills, Buffered

\* The write of a repetition or of a fill.
LEMMA WriteReplayFills ==
  ASSUME IInv, Flow, Fills, WriteReplayWire
  PROVE  Fills'
<1> DEFINE job == Head(todo)
           mark == MarkReplay(job.id)
           frame == job.frame
<1>1. /\ running /\ todo # <<>> /\ job.do = "write replay"
      /\ sent' = Append(sent, frame)
      /\ todo' = <<mark>> \o Tail(todo)
      /\ UNCHANGED <<meta, commands, outbound, gap_buffer>>
  BY DEF WriteReplayWire, Doing, journal
<1>2. /\ Worklist(job, Tail(todo)) /\ FillOK(frame)
      /\ Tail(todo) # <<>> /\ Head(Tail(todo)).do = "replay" => RangeOK(Head(Tail(todo)))
  BY <1>1 DEF Flow, Shaped, Fills, Entered, EntryOK
<1>3. mark.do = "mark replay"
  BY DEF MarkReplay
<1>4. todo' # <<>> /\ Head(todo') = mark /\ Tail(todo') = Tail(todo)
  <2>1. \E S : Tail(todo) \in Seq(S)
    BY <1>2, TailTyped
  <2> HIDE DEF mark
  <2> QED
    BY <1>1, <2>1, Front
<1> HIDE DEF job, mark, frame
<1>5. Entered'
  BY <1>1, <1>2, <1>3, <1>4 DEF Entered, EntryOK, RangeOK
<1>6. SentFills'
  BY <1>1, <1>2, SentGrows DEF IInv, Fills
<1> QED
  BY <1>1, <1>5, <1>6 DEF Fills, RowTypes, Buffered

\* What is left of the range stays within it.
LEMMA ReplayMarkFills ==
  ASSUME Flow, Fills, MarkReplayWritten
  PROVE  Fills'
<1>1. /\ running /\ todo # <<>> /\ Head(todo).do = "mark replay" /\ todo' = Tail(todo)
      /\ UNCHANGED <<meta, commands, outbound, gap_buffer, sent>>
  BY DEF MarkReplayWritten, Doing, Journal!MarkTransmissionWritten
<1>2. \/ todo' = <<Drain>>
      \/ todo' # <<>> /\ todo' = <<Head(todo'), Drain>> /\ Head(todo').do = "replay"
  BY <1>1 DEF Flow, Shaped, Worklist, Carries
<1>3. /\ todo' # <<>>
      /\ \/ Head(todo').do = "drain" /\ Tail(todo') = <<>>
         \/ Head(todo').do = "replay" /\ Tail(todo') = <<Drain>>
  <2>1. CASE todo' = <<Drain>>
    BY <2>1, DrainOnly
  <2>2. CASE todo' = <<Head(todo'), Drain>> /\ Head(todo').do = "replay"
    BY <2>2, Double
  <2> QED
    BY <1>2, <2>1, <2>2
<1>4. Head(todo').do = "replay" => RangeOK(Head(Tail(todo)))
  BY <1>1, <1>3 DEF Fills, Entered
<1>5. EntryOK(Head(todo))'
  BY <1>1, <1>3, <1>4 DEF EntryOK, RangeOK
<1>6. Entered'
  BY <1>3, <1>5, DrainOnly DEF Entered
<1> QED
  BY <1>1, <1>6, RowsStay DEF Fills, Buffered

-----------------------------------------------------------------------------
\* A committed frame: its range is checked before it is replayed.
LEMMA CommitExpectedFills ==
  ASSUME IInv, Flow, Fills, running, ~InFlight, NEW m, Asks(m), NEW buffer,
         \A n \in DOMAIN buffer : Asks(buffer[n]),
         CommitExpected(m, buffer, <<Drain>>)
  PROVE  Fills'
<1> DEFINE next == IF m.type = "4" THEN m.arg ELSE m.seq + 1
<1>1. CASE Fatal
  BY <1>1, FatalFills
<1>2. CASE ~Fatal
  <2>1. /\ IsAcceptable(m) /\ UNCHANGED <<sent, outbound>>
        /\ meta' = [meta EXCEPT !.next_in = next, !.next_event = @ + 1]
        /\ \/ todo' = <<>> /\ gap_buffer' = Journal!NoRows
           \/ todo' = Response(m) \o <<Drain>> /\ gap_buffer' = buffer
    BY <1>2 DEF CommitExpected, Journal!CommitInbound
  <2> HIDE DEF next
  <2>2. meta'.next_out = meta.next_out
    BY <2>1, InboundMeta DEF IInv
  <2>3. next_out = meta.next_out /\ next_out \in Nat
    BY DEF IInv, Counted, MetaOK
  <2>4. Buffered'
    BY <2>1 DEF Buffered, Journal!NoRows
  <2>5. Entered'
    <3>1. CASE todo' = <<>>
      BY <3>1 DEF Entered
    <3>2. ASSUME NEW job, todo' = <<job>> \o <<Drain>>, job.do \in {"commit", "replay"},
                 job.do = "replay" => RangeOK(job)
          PROVE  Entered'
      <4>1. todo' = <<job, Drain>>
        BY <3>2, Double
      <4>2. todo' # <<>> /\ Head(todo') = job /\ Tail(todo') = <<Drain>>
        BY <4>1, Double
      <4>3. EntryOK(Head(todo))'
        BY <2>2, <3>2, <4>2 DEF EntryOK, RangeOK
      <4> QED
        BY <4>2, <4>3, DrainOnly DEF Entered
    <3>3. CASE todo' = Response(m) \o <<Drain>> /\ m.type = "5" /\ CanLogout
      <4>1. PICK job : job = Send("5", 0, "Disconnected")
        OBVIOUS
      <4>2. Response(m) = <<job>> /\ job.do = "commit"
        BY <3>3, <4>1 DEF Response, Send
      <4> QED
        BY <3>2, <3>3, <4>2
    <3>4. CASE todo' = Response(m) \o <<Drain>> /\ m.type = "2"
      <4>1. PICK job : job = Replay(m.arg, RangeEnd(m))
        OBVIOUS
      <4>2. Response(m) = <<job>> /\ job.do = "replay"
        BY <3>4, <4>1 DEF Response, Replay
      <4>3. RangeOK(job)
        BY <2>1, <2>3, <3>4, <4>1, RangeClamped
      <4> QED
        BY <3>2, <3>4, <4>2, <4>3
    <3>5. CASE todo' = Response(m) \o <<Drain>> /\ m.type = "1"
      <4>1. PICK job : job = Send("0", m.arg, "None")
        OBVIOUS
      <4>2. Response(m) = <<job>> /\ job.do = "commit"
        BY <3>5, <4>1 DEF Response, Send
      <4> QED
        BY <3>2, <3>5, <4>2
    <3>6. CASE /\ todo' = Response(m) \o <<Drain>>
               /\ ~(m.type = "5" /\ CanLogout) /\ m.type \notin {"1", "2"}
      <4>1. Response(m) = <<>>
        BY <3>6 DEF Response
      <4>2. todo' = <<Drain>>
        BY <3>6, <4>1, Single
      <4> QED
        BY <4>2, DrainOnly DEF Entered, EntryOK
    <3> QED
      BY <2>1, <3>1, <3>3, <3>4, <3>5, <3>6
  <2> QED
    BY <2>1, <2>2, <2>4, <2>5, RowsStay DEF Fills
<1> QED
  BY <1>1, <1>2

\* handle_inbound: what it buffers or leaves to do is the frame it received.
LEMMA ReceiveFills ==
  ASSUME IInv, Flow, Fills, NEW m, Asks(m), ReceiveFrame(m)
  PROVE  Fills'
<1>1. AtSelect /\ running /\ ~InFlight
  BY DEF ReceiveFrame, AtSelect, InFlight, Doing
<1>2. CASE Fatal
  BY <1>2, FatalFills
<1>3. CASE UNCHANGED vars
  BY <1>3 DEF vars, journal, Fills, SentFills, RowTypes, Buffered, Entered, EntryOK, RangeOK,
     FillOK, IsOrder, CommandOfRow
<1>4. CASE ReceiveAhead(m) /\ ~Fatal
  <2>1. /\ gap_buffer' = IF m.seq \in DOMAIN gap_buffer THEN gap_buffer
                         ELSE Journal!Inserted(gap_buffer, m.seq, m)
        /\ todo' = <<>> \/ todo' = <<Send("2", next_in, "Recovering")>>
        /\ UNCHANGED <<meta, outbound, sent>>
    BY <1>4 DEF ReceiveAhead, journal
  <2>2. Buffered'
    BY <2>1 DEF Fills, Buffered, Journal!Inserted
  <2>3. Send("2", next_in, "Recovering").do = "commit"
    BY DEF Send
  <2>4. Entered'
    <3>1. CASE todo' = <<>>
      BY <3>1 DEF Entered
    <3>2. CASE todo' = <<Send("2", next_in, "Recovering")>>
      BY <2>3, <3>2, EntersOne
    <3> QED
      BY <2>1, <3>1, <3>2
  <2> QED
    BY <2>1, <2>2, <2>4, RowsStay DEF Fills
<1>5. CASE ReceiveBehind(m) /\ ~Fatal
  <2>1. /\ todo' = <<Expected(m), Drain>> /\ UNCHANGED <<sent, gap_buffer, outbound>>
        /\ meta' = [meta EXCEPT !.next_in = m.seq, !.next_event = @ + 1]
    BY <1>5 DEF ReceiveBehind, Journal!ResyncInbound
  <2>2. meta'.next_out = meta.next_out
    BY <2>1, InboundMeta DEF IInv
  <2>3. Expected(m).do = "expected" /\ Expected(m).frame = m
    BY DEF Expected
  <2>4. todo' # <<>> /\ Head(todo') = Expected(m) /\ Tail(todo') = <<Drain>>
    BY <2>1, Double
  <2>5. Entered'
    BY <2>3, <2>4, DrainOnly DEF Entered, EntryOK
  <2> QED
    BY <2>1, <2>2, <2>5, RowsStay DEF Fills, Buffered
<1>6. CASE ReceiveExpected(m)
  BY <1>1, <1>6, CommitExpectedFills DEF ReceiveExpected, Fills, Buffered
<1> QED
  BY <1>2, <1>3, <1>4, <1>5, <1>6 DEF ReceiveFrame, ReceiveDuplicate

\* The frame that was realigned to is committed.
LEMMA ResyncedFills ==
  ASSUME IInv, Flow, Fills, CommitResynced
  PROVE  Fills'
<1>1. running /\ ~InFlight /\ todo # <<>> /\ Head(todo).do = "expected"
  BY DEF CommitResynced, Doing, InFlight
<1>2. Tail(todo) = <<Drain>> /\ Asks(Head(todo).frame)
  BY <1>1 DEF Flow, Shaped, Worklist, Carries, Fills, Entered, EntryOK
<1>3. CommitExpected(Head(todo).frame, gap_buffer, <<Drain>>)
  BY <1>2 DEF CommitResynced
<1> QED
  BY <1>1, <1>2, <1>3, CommitExpectedFills DEF Fills, Buffered

\* The frames of the buffer were received.
LEMMA DrainFills ==
  ASSUME IInv, Flow, Fills, DrainBuffer
  PROVE  Fills'
<1> DEFINE ahead == {n \in DOMAIN gap_buffer : n > next_in}
           rest == [n \in ahead |-> gap_buffer[n]]
<1>1. running /\ ~InFlight /\ todo # <<>> /\ Head(todo).do = "drain"
  BY DEF DrainBuffer, Doing, InFlight
<1>2. Tail(todo) = <<>>
  BY <1>1 DEF Flow, Shaped, Worklist, Carries
<1>3. \A n \in DOMAIN rest : Asks(rest[n])
  BY DEF Fills, Buffered
<1>4. CASE next_in \in DOMAIN gap_buffer
  <2>1. CommitExpected(gap_buffer[next_in], rest, <<Drain>>)
    BY <1>4 DEF DrainBuffer
  <2>2. Asks(gap_buffer[next_in])
    BY <1>4 DEF Fills, Buffered
  <2> HIDE DEF rest
  <2> QED
    BY <1>1, <1>3, <2>1, <2>2, CommitExpectedFills
<1>5. CASE next_in \notin DOMAIN gap_buffer
  <2>1. gap_buffer' = rest /\ todo' = <<>> /\ UNCHANGED <<meta, outbound, sent>>
    BY <1>2, <1>5 DEF DrainBuffer, journal
  <2> HIDE DEF rest
  <2> QED
    BY <1>3, <2>1, RowsStay DEF Fills, Buffered, Entered
<1> QED
  BY <1>4, <1>5

\* A Logout command, the timer, a new connection, a reset.
LEMMA LogoutFills ==
  ASSUME Fills, RequestLogout
  PROVE  Fills'
<1>1. Send("5", 0, "LogoutSent").do = "commit"
  BY DEF Send
<1>2. /\ todo' = <<Send("5", 0, "LogoutSent")>>
      /\ UNCHANGED <<meta, outbound, sent, gap_buffer>>
  BY DEF RequestLogout, journal
<1> QED
  BY <1>1, <1>2, EntersOne, RowsStay DEF Fills, Buffered

\* The timer sends no fill.
LEMMA TickFills ==
  ASSUME Fills, NEW expired \in BOOLEAN, NEW silent \in BOOLEAN, Tick(expired, silent)
  PROVE  Fills'
<1>1. CASE Fatal
  BY <1>1, FatalFills
<1>2. CASE ~Fatal
  <2> DEFINE beat == Send("0", 0, "None")
             logout == Send("5", 0, "Blocked")
             test == Send("1", next_out + 1, "TestRequest")
  <2>1. UNCHANGED <<meta, outbound, sent, gap_buffer>>
    BY <1>2 DEF Tick, journal
  <2>2. beat.do = "commit" /\ logout.do = "commit" /\ test.do = "commit"
    BY DEF Send
  <2>3. \/ todo' = <<>>
        \/ todo' = <<beat>>
        \/ todo' = Append(<<>>, logout)
        \/ todo' = Append(<<beat>>, logout)
        \/ todo' = Append(<<beat>>, test)
    BY <1>2, Zenon DEF Tick
  <2> HIDE DEF beat, logout, test
  <2>4. Append(<<>>, logout) = <<logout>>
    OBVIOUS
  <2>5. ASSUME NEW job, job.do = "commit", todo' = Append(<<beat>>, job) PROVE Entered'
    <3>1. todo' = <<beat, job>>
      BY <2>5, Double
    <3>2. todo' # <<>> /\ Head(todo') = beat /\ Tail(todo') = <<job>>
      BY <3>1, Double
    <3>3. Head(<<job>>) = job
      BY Single
    <3> QED
      BY <2>2, <2>5, <3>2, <3>3 DEF Entered, EntryOK
  <2>6. todo' = <<>> => Entered'
    BY DEF Entered
  <2>7. Entered'
    BY <2>2, <2>3, <2>4, <2>5, <2>6, EntersOne
  <2> QED
    BY <2>1, <2>7, RowsStay DEF Fills, Buffered
<1> QED
  BY <1>1, <1>2

\* A new connection has no fill on its wire.
LEMMA ConnectFills ==
  ASSUME Fills, Connect
  PROVE  Fills'
<1>1. /\ sent' = <<>> /\ DOMAIN gap_buffer' = {} /\ UNCHANGED <<meta, outbound>>
      /\ todo' = <<Reset>> \o <<Logon>> \/ todo' = <<>> \o <<Logon>>
  BY DEF Connect, Logon, Journal!NoRows, journal
<1>2. Reset.do = "reset" /\ Logon.do = "commit"
  BY DEF Reset, Logon, Send
<1>3. Entered'
  <2>1. CASE todo' = <<Reset>> \o <<Logon>>
    <3>1. todo' = <<Reset, Logon>>
      BY <2>1, Double
    <3>2. todo' # <<>> /\ Head(todo') = Reset /\ Tail(todo') = <<Logon>>
      BY <3>1, Double
    <3>3. Head(<<Logon>>) = Logon
      BY Single
    <3> QED
      BY <1>2, <3>2, <3>3 DEF Entered, EntryOK
  <2>2. CASE todo' = <<>> \o <<Logon>>
    BY <1>2, <2>2, Single, EntersOne
  <2> QED
    BY <1>1, <2>1, <2>2
<1>4. DOMAIN sent' = {}
  BY <1>1
<1> QED
  BY <1>1, <1>3, <1>4 DEF Fills, SentFills, RowTypes, Buffered

\* A reset comes before the first message, when the wire is empty.
LEMMA ResetFills ==
  ASSUME IInv, Flow, Fills, ResetJournal
  PROVE  Fills'
<1>1. /\ todo # <<>> /\ Head(todo).do = "reset" /\ todo' = Tail(todo)
      /\ outbound' = Journal!NoRows /\ UNCHANGED <<gap_buffer, sent>>
  BY DEF ResetJournal, Journal!ResetSequences, Doing
<1>2. sent = <<>>
  BY <1>1, RestLater DEF IInv, HeadOK, Later
<1>3. todo' = <<Logon>>
  BY <1>1 DEF Flow, Shaped, Worklist, Carries
<1>4. Logon.do = "commit"
  BY DEF Logon, Send
<1>5. Entered'
  BY <1>3, <1>4, EntersOne
<1>6. DOMAIN sent' = {} /\ DOMAIN outbound' = {}
  BY <1>1, <1>2 DEF Journal!NoRows
<1> QED
  BY <1>1, <1>5, <1>6 DEF Fills, SentFills, RowTypes, Buffered

\* A failed write may have been one.
LEMMA AwaitFills ==
  ASSUME IInv, Flow, Fills, AwaitFails
  PROVE  Fills'
<1> DEFINE frame == Head(todo).frame
<1>1. /\ todo # <<>> /\ todo' = <<>> /\ gap_buffer' = Journal!NoRows
      /\ UNCHANGED <<meta, outbound>>
      /\ \/ UNCHANGED sent
         \/ Head(todo).do \in {"write", "write replay"} /\ sent' = Append(sent, frame)
  BY DEF AwaitFails, Stop, journal
<1>2. DOMAIN gap_buffer' = {}
  BY <1>1 DEF Journal!NoRows
<1>3. CASE UNCHANGED sent
  BY <1>1, <1>2, <1>3, FillsStopped
<1>4. CASE Head(todo).do \in {"write", "write replay"} /\ sent' = Append(sent, frame)
  <2>1. FillOK(frame)
    BY <1>1, <1>4, NewFrame DEF Fills, Entered, EntryOK, FillOK
  <2> HIDE DEF frame
  <2>2. SentFills'
    BY <1>1, <1>4, <2>1, SentGrows DEF IInv, Fills
  <2> QED
    BY <1>1, <1>2, <2>2 DEF Fills, RowTypes, Buffered, Entered
<1> QED
  BY <1>1, <1>3, <1>4

\* Nothing was sent at first.
LEMMA FillsInitial == Init => Fills
<1>1. Init => DOMAIN sent = {} /\ DOMAIN outbound = {} /\ DOMAIN gap_buffer = {}
  BY DEF Init, Journal!Init, Journal!NoRows
<1> QED
  BY <1>1 DEF Init, Fills, SentFills, RowTypes, Buffered, Entered

\* Every step of the actor keeps the fills clear of orders.
LEMMA FillsInductive ==
  ASSUME Gated
  PROVE  IInv /\ Flow /\ Flow' /\ Fills /\ [Next]_vars => Fills'
<1> SUFFICES ASSUME IInv, Flow, Flow', Fills, [Next]_vars
             PROVE  Fills'
  OBVIOUS
<1>1. CASE UNCHANGED vars
  BY <1>1 DEF vars, journal, Fills, SentFills, RowTypes, Buffered, Entered, EntryOK, RangeOK,
     FillOK, IsOrder, CommandOfRow
<1>2. CASE Proceed
  BY <1>2, CommitAdminFills, WriteFills, MarkFills, JournalReplayFills, WriteReplayFills,
     ReplayMarkFills, ResyncedFills, DrainFills, ResetFills DEF Proceed
<1>3. ASSUME NEW r \in Requests, NEW f \in Fingerprints, Submit(r, f) PROVE Fills'
  BY <1>3, SubmitFills
<1>4. CASE RequestLogout
  BY <1>4, LogoutFills
<1>5. ASSUME NEW expired \in BOOLEAN, NEW silent \in BOOLEAN, Tick(expired, silent) PROVE Fills'
  BY <1>5, TickFills
<1>6. CASE Connect
  BY <1>6, ConnectFills
<1>7. CASE Disconnect
  <2>1. DOMAIN Journal!NoRows = {}
    BY DEF Journal!NoRows
  <2> QED
    BY <1>7, <2>1, FillsStopped DEF Disconnect, Stop, journal
<1>8. CASE AwaitFails
  BY <1>8, AwaitFills
<1>9. ASSUME NEW m \in InFrames, ReceiveFrame(m) PROVE Fills'
  <2>1. Asks(m)
    BY SessionConstants DEF Asks
  <2> QED
    BY <1>9, <2>1, ReceiveFills
<1>10. CASE RejectFrame
  BY <1>10, FatalFills DEF RejectFrame
<1>11. CASE Horizon
  BY <1>1, <1>11 DEF Horizon
<1> QED
  BY <1>1, <1>2, <1>3, <1>4, <1>5, <1>6, <1>7, <1>8, <1>9, <1>10, <1>11 DEF Next, Local

-----------------------------------------------------------------------------
\* PhasesFollowLife: set_phase, whoever calls it and from whichever handler,
\* moves the phase only as SessionLife says, and never when run has returned.
THEOREM PhasesInOrder == Spec => PhasesFollowLife
<1>1. Init => Life!Init
  BY DEF Init, Life!Init
<1> QED
  BY <1>1, FlowInitial, FlowInductive, PTL DEF Spec, PhasesFollowLife, Life!Spec, LifeStep

\* EstablishedHasNoGap: when the actor may take an order, gap_buffer is empty;
\* handle_inbound leaves Established before it buffers for good, and
\* drain_gap_buffer comes back only behind the last frame.
THEOREM NoGapWhenEstablished == Spec => []EstablishedHasNoGap
<1>1. Flow => EstablishedHasNoGap
  BY DEF Flow, NoGap, EstablishedHasNoGap, AtSelect, Sending
<1> QED
  BY <1>1, FlowInitial, FlowInductive, PTL DEF Spec

\* BufferAhead: no commit, realignment or drain leaves a frame in gap_buffer
\* that is due or behind, and each is kept under its own number.
THEOREM BufferIsAhead == Spec => []BufferAhead
<1>1. Flow => BufferAhead
  BY DEF Flow, Ahead, Keyed, Draining, BufferAhead, AtSelect
<1> QED
  BY <1>1, FlowInitial, FlowInductive, PTL DEF Spec

\* SequenceUnbroken: the new messages of a connection carry consecutive
\* numbers, whichever of them are replayed or refused in between, since send
\* takes the next number only when the last one is written and marked.
THEOREM NumbersUnbroken ==
  ASSUME Gated
  PROVE  Spec => []SequenceUnbroken
  BY IInvInitial, IInvInductive, FlowInitial, FlowInductive, NumbersInitial, NumbersInductive,
     PTL DEF Spec

\* GapFillsSkipNoOrder: replay_range skips rows without a cl_ord_id and numbers
\* without a row, never an order, and no row of a number it skipped is
\* written afterwards.
THEOREM FillsSkipNoOrder ==
  ASSUME Gated
  PROVE  Spec => []GapFillsSkipNoOrder
<1>1. Fills => GapFillsSkipNoOrder
  BY DEF Fills, SentFills, FillOK, GapFillsSkipNoOrder
<1> QED
  BY <1>1, IInvInitial, IInvInductive, FlowInitial, FlowInductive, FillsInitial,
     FillsInductive, PTL DEF Spec
-----------------------------------------------------------------------------
(***************************************************************************)
(* One actor beside another over the same journal (SessionOverlap).  What  *)
(* FixSessionProofs says of the counters does not hold there: the journal  *)
(* may be any number ahead of an actor.  The lemmas from here on say what  *)
(* a step keeps without it, what it needs of the tables and of the actor's *)
(* own state, and what it leaves to the other actor.                       *)
(***************************************************************************)
\* An entry that is for later, and is not the Logon of a connection.
Plain(job) == Later(job) /\ (job.do = "commit" => job.type # "A")

IsPlain(line) == \E S : line \in Seq(S) /\ \A job \in S : Plain(job)

\* The Logon is to be committed next.
LogonDue == Doing("commit") /\ Head(todo).type = "A"

\* What todo may be, whatever the journal holds.
Listed ==
  \/ IsPlain(todo)
  \/ todo = <<Logon>>
  \/ /\ todo # <<>>
     /\ \/ Head(todo).do = "reset" /\ TRUE \in ResetOnLogon /\ Tail(todo) = <<Logon>>
        \/ Head(todo).do \in {"write", "mark"} /\ Head(todo).seq \in Nat /\ IsPlain(Tail(todo))
        \/ Head(todo).do \in {"write replay", "mark replay"} /\ IsPlain(Tail(todo))

\* The counters of a live actor that keys and numbers are made of.
Counting == running => next_out \in Nat /\ next_event \in Nat

\* Nothing to do is a plain line.
LEMMA NothingPlain == IsPlain(<<>>)
<1> DEFINE S == {}
<1>1. <<>> \in Seq(S) /\ \A job \in S : Plain(job)
  OBVIOUS
<1> HIDE DEF S
<1>2. QED
  BY <1>1 DEF IsPlain

\* One plain entry is a plain line.
LEMMA OnePlain ==
  ASSUME NEW job, Plain(job)
  PROVE  IsPlain(<<job>>)
<1> DEFINE S == {job}
<1>1. <<job>> \in Seq(S) /\ \A j \in S : Plain(j)
  OBVIOUS
<1> HIDE DEF S
<1>2. QED
  BY <1>1 DEF IsPlain

\* Two plain lines in a row are one.
LEMMA MorePlain ==
  ASSUME NEW s, NEW t, IsPlain(s), IsPlain(t)
  PROVE  IsPlain(s \o t)
<1>1. PICK S : s \in Seq(S) /\ \A job \in S : Plain(job)
  BY DEF IsPlain
<1>2. PICK R : t \in Seq(R) /\ \A job \in R : Plain(job)
  BY DEF IsPlain
<1>3. s \in Seq(S \cup R) /\ t \in Seq(S \cup R)
  BY <1>1, <1>2, WiderLine
<1>4. s \o t \in Seq(S \cup R) /\ \A job \in S \cup R : Plain(job)
  BY <1>1, <1>2, <1>3
<1>5. QED
  BY <1>4 DEF IsPlain

\* So is a plain line and one more plain entry behind it.
LEMMA LastPlain ==
  ASSUME NEW s, NEW job, IsPlain(s), Plain(job)
  PROVE  IsPlain(Append(s, job))
<1>1. PICK S : s \in Seq(S) /\ \A j \in S : Plain(j)
  BY DEF IsPlain
<1>2. s \in Seq(S \cup {job}) /\ \A j \in S \cup {job} : Plain(j)
  BY <1>1, WiderLine
<1>3. Append(s, job) \in Seq(S \cup {job})
  BY <1>2
<1>4. QED
  BY <1>2, <1>3 DEF IsPlain

\* What a plain line starts with is plain, and so is the rest of it.
LEMMA PlainStarts ==
  ASSUME NEW s, IsPlain(s), s # <<>>
  PROVE  Plain(Head(s)) /\ IsPlain(Tail(s))
<1>1. PICK S : s \in Seq(S) /\ \A j \in S : Plain(j)
  BY DEF IsPlain
<1>2. Head(s) \in S /\ Tail(s) \in Seq(S)
  BY <1>1
<1>3. QED
  BY <1>1, <1>2 DEF IsPlain

\* A plain line is a line.
LEMMA PlainIsLine ==
  ASSUME NEW s, IsPlain(s)
  PROVE  IsLine(s)
  BY DEF IsPlain, IsLine, Plain

\* With a plain line to work off nothing is in flight, and no Logon is due.
LEMMA PlainQuiet ==
  ASSUME IsPlain(todo)'
  PROVE  ~InFlight' /\ ~LogonDue' /\ Listed'
<1>1. CASE todo' = <<>>
  BY <1>1 DEF InFlight, LogonDue, Doing, Listed
<1>2. CASE todo' # <<>>
  <2>1. Plain(Head(todo'))
    BY <1>2, PlainStarts
  <2> QED
    BY <2>1 DEF InFlight, LogonDue, Doing, Listed, Plain, Later
<1> QED
  BY <1>1, <1>2

\* The worklist by what is at its head.
LEMMA ListedHead ==
  ASSUME Listed, todo # <<>>
  PROVE  /\ Head(todo).do = "commit" => /\ Head(todo).type \in AdminTypes
                                        /\ IsPlain(Tail(todo))
         /\ Head(todo).do \in {"write", "mark"} => /\ Head(todo).seq \in Nat
                                                   /\ IsPlain(Tail(todo))
         /\ Head(todo).do \in {"replay", "write replay", "mark replay", "expected", "drain"} =>
              IsPlain(Tail(todo))
         /\ Head(todo).do = "reset" => TRUE \in ResetOnLogon /\ Tail(todo) = <<Logon>>
<1>1. CASE IsPlain(todo)
  <2>1. Plain(Head(todo)) /\ IsPlain(Tail(todo))
    BY <1>1, PlainStarts
  <2> QED
    BY <2>1 DEF Plain, Later
<1>2. CASE todo = <<Logon>>
  <2>1. Head(todo) = Logon /\ Tail(todo) = <<>>
    BY <1>2, Single
  <2>2. Logon.do = "commit" /\ Logon.type \in AdminTypes
    BY DEF Logon, Send, AdminTypes
  <2> QED
    BY <2>1, <2>2, NothingPlain
<1> QED
  BY <1>1, <1>2 DEF Listed

\* The Logon is due in the phase Connecting only.
LEMMA DueConnecting ==
  ASSUME Flow, Listed, LogonDue
  PROVE  running /\ phase = "Connecting" /\ todo = <<Logon>>
<1>1. running /\ todo # <<>> /\ Head(todo).do = "commit" /\ Head(todo).type = "A"
  BY DEF LogonDue, Doing
<1>2. ~IsPlain(todo)
  BY <1>1, PlainStarts DEF Plain
<1>3. todo = <<Logon>>
  BY <1>1, <1>2 DEF Listed
<1>4. Opening
  BY <1>1, <1>3, Single, LogonCarries DEF Opening, Sending
<1> QED
  BY <1>1, <1>3, <1>4 DEF Flow, Lively

-----------------------------------------------------------------------------
\* A step that writes and commits nothing, and leaves no send at hand.
Quiet ==
  /\ running
  /\ UNCHANGED <<commands, outbound, sent, originals, next_out>>
  /\ MetaOK' /\ meta'.next_out = meta.next_out
  /\ next_event' = next_event \/ next_event' = next_event + 1
  /\ IsPlain(todo)'
  /\ running' => ~InFlight /\ ~LogonDue

\* A send takes its number: c is journaled and its frame will be written.
TakesNumber ==
  \E c, then, key, type, arg :
    /\ AtSelect \/ Doing("commit")
    /\ SendsAs(c, key, type, arg)
    /\ type = "A" <=> LogonDue
    /\ Journal!CommitOutbound(c) /\ WriteCommitted(c, next_out, then)

\* A send finds its key journaled under seq, and writes its frame again.
Repeats ==
  \E c, then, key, type, arg, seq :
    /\ AtSelect \/ Doing("commit")
    /\ SendsAs(c, key, type, arg)
    /\ type = "A" <=> LogonDue
    /\ key \in DOMAIN commands /\ seq = commands[key].msg_seq_num
    /\ type = "D" => DirectSubmit /\ seq = next_out
    /\ UNCHANGED journal /\ WriteCommitted(c, seq, then)

Marks == MarkWritten /\ ~Fatal

\* The write of a frame fails after the peer got it.
FailsWritten ==
  /\ running /\ ~running' /\ todo # <<>> /\ todo' = <<>>
  /\ UNCHANGED <<journal, counters>>
  /\ Head(todo).do \in {"write", "write replay"}
  /\ sent' = Append(sent, Head(todo).frame)
  /\ originals' = IF Head(todo).frame.type = "D" /\ ~Head(todo).frame.possdup
                  THEN [originals EXCEPT ![Head(todo).frame.arg] = @ + 1]
                  ELSE originals

\* What the actor does in a step, as far as the other one may notice.
Moves ==
  \/ Quiet \/ TakesNumber \/ Repeats \/ WriteWire \/ Marks
  \/ JournalReplay \/ WriteReplayWire \/ FailsWritten
  \/ Connect \/ ResetJournal

\* run returns.
LEMMA StopQuiet ==
  ASSUME MetaOK, running, NEW p, Stop(p), UNCHANGED <<journal, sent, originals>>
  PROVE  Quiet
<1>1. IsPlain(todo)' /\ ~running'
  BY NothingPlain DEF Stop
<1>2. UNCHANGED <<commands, outbound, meta, next_out, next_event>>
  BY DEF Stop, journal, counters
<1> QED
  BY <1>1, <1>2 DEF Quiet, MetaOK

\* An error leaves run.
LEMMA FatalQuiet ==
  ASSUME MetaOK, running, Fatal
  PROVE  Quiet
  BY StopQuiet DEF Fatal, history

\* A step between two plain lines that leaves the journal alone.
LEMMA LineQuiet ==
  ASSUME MetaOK, running, ~InFlight, ~LogonDue, IsPlain(todo)',
         UNCHANGED <<journal, sent, originals, counters>>
  PROVE  Quiet
  BY DEF Quiet, journal, counters, MetaOK

\* What a committed message makes the actor do is plain.
LEMMA ResponsePlain ==
  ASSUME NEW m
  PROVE  IsPlain(Response(m))
<1>1. Plain(Send("5", 0, "Disconnected"))
  BY DEF Plain, Later, Send, AdminTypes
<1>2. Plain(Replay(m.arg, RangeEnd(m)))
  BY DEF Plain, Later, Replay
<1>3. Plain(Send("0", m.arg, "None"))
  BY DEF Plain, Later, Send, AdminTypes
<1> QED
  BY <1>1, <1>2, <1>3, NothingPlain, OnePlain DEF Response

\* To go through the buffer is plain.
LEMMA DrainPlain == Plain(Drain) /\ IsPlain(<<Drain>>)
<1>1. Plain(Drain)
  BY DEF Plain, Later, Drain
<1> QED
  BY <1>1, OnePlain

\* CommitExpected: a received message.
LEMMA CommitExpectedQuiet ==
  ASSUME MetaOK, running, ~InFlight, ~LogonDue, NEW m, NEW buffer, NEW rest, IsPlain(rest),
         CommitExpected(m, buffer, rest)
  PROVE  Quiet
<1>1. CASE Fatal
  BY <1>1, FatalQuiet
<1>2. CASE ~Fatal
  <2> DEFINE next == IF m.type = "4" THEN m.arg ELSE m.seq + 1
             c == [msg_seq_num |-> m.seq, wire |-> m, event_id |-> next_event,
                   event |-> "message", next_in_after |-> next]
  <2>1. /\ Journal!CommitInbound(c)
        /\ next_event' = next_event + 1
        /\ UNCHANGED <<next_out, sent, originals>>
        /\ todo' = <<>> \/ todo' = Response(m) \o rest
    BY <1>2 DEF CommitExpected
  <2>2. IsPlain(todo)'
    BY <2>1, NothingPlain, ResponsePlain, MorePlain
  <2>3. c.next_in_after = next
    OBVIOUS
  <2> HIDE DEF c, next
  <2>4. /\ UNCHANGED <<commands, outbound>>
        /\ meta' = [meta EXCEPT !.next_in = next, !.next_event = @ + 1]
    BY <2>1, <2>3 DEF Journal!CommitInbound
  <2>5. MetaOK' /\ meta'.next_out = meta.next_out
    BY <2>4, InboundMeta
  <2> QED
    BY <2>1, <2>2, <2>4, <2>5 DEF Quiet
<1> QED
  BY <1>1, <1>2

\* ReceiveFrame: handle_inbound and what it leaves to do.
LEMMA ReceiveQuiet ==
  ASSUME MetaOK, NEW m, ReceiveFrame(m)
  PROVE  Quiet \/ UNCHANGED vars
<1>1. running /\ ~InFlight /\ ~LogonDue
  BY DEF ReceiveFrame, AtSelect, InFlight, LogonDue, Doing
<1>2. CASE Fatal
  BY <1>1, <1>2, FatalQuiet
<1>3. CASE ReceiveAhead(m) /\ ~Fatal
  <2>1. Plain(Send("2", next_in, "Recovering"))
    BY DEF Plain, Later, Send, AdminTypes
  <2>2. IsPlain(todo)'
    BY <1>3, <2>1, NothingPlain, OnePlain DEF ReceiveAhead
  <2> QED
    BY <1>1, <1>3, <2>2, LineQuiet DEF ReceiveAhead, history
<1>4. CASE ReceiveDuplicate(m) /\ ~Fatal
  BY <1>4 DEF ReceiveDuplicate
<1>5. CASE ReceiveBehind(m) /\ ~Fatal
  <2>1. /\ Journal!ResyncInbound(m.seq, next_event, "sequence_resync")
        /\ next_event' = next_event + 1
        /\ todo' = <<Expected(m), Drain>>
        /\ UNCHANGED <<next_out, sent, originals>>
    BY <1>5 DEF ReceiveBehind, history
  <2>2. Plain(Expected(m))
    BY DEF Plain, Later, Expected
  <2>3. IsPlain(<<Expected(m)>> \o <<Drain>>)
    BY <2>2, DrainPlain, OnePlain, MorePlain
  <2>4. IsPlain(todo)'
    BY <2>1, <2>3, Double
  <2>5. /\ UNCHANGED <<commands, outbound>>
        /\ meta' = [meta EXCEPT !.next_in = m.seq, !.next_event = @ + 1]
    BY <2>1 DEF Journal!ResyncInbound
  <2>6. MetaOK' /\ meta'.next_out = meta.next_out
    BY <2>5, InboundMeta
  <2> QED
    BY <1>1, <2>1, <2>4, <2>5, <2>6 DEF Quiet
<1>6. CASE ReceiveExpected(m)
  BY <1>1, <1>6, DrainPlain, CommitExpectedQuiet DEF ReceiveExpected
<1> QED
  BY <1>2, <1>3, <1>4, <1>5, <1>6 DEF ReceiveFrame

\* CommitResynced and DrainBuffer: frames of the realignment and the buffer.
LEMMA BufferQuiet ==
  ASSUME MetaOK, Listed, CommitResynced \/ DrainBuffer
  PROVE  Quiet
<1>1. running /\ ~InFlight /\ ~LogonDue /\ IsPlain(Tail(todo))
  BY ListedHead DEF CommitResynced, DrainBuffer, InFlight, LogonDue, Doing
<1>2. CASE CommitResynced
  BY <1>1, <1>2, CommitExpectedQuiet DEF CommitResynced
<1>3. CASE DrainBuffer
  <2> DEFINE rest == [n \in {k \in DOMAIN gap_buffer : k > next_in} |-> gap_buffer[n]]
  <2>1. CASE CommitExpected(gap_buffer[next_in], rest, <<Drain>>)
    BY <1>1, <2>1, DrainPlain, CommitExpectedQuiet
  <2>2. CASE ~CommitExpected(gap_buffer[next_in], rest, <<Drain>>)
    <3>1. /\ todo' = Tail(todo)
          /\ UNCHANGED <<journal, counters, sent, history>>
      BY <1>3, <2>2 DEF DrainBuffer
    <3> QED
      BY <1>1, <3>1, LineQuiet DEF history
  <2> QED
    BY <2>1, <2>2
<1> QED
  BY <1>2, <1>3

\* RequestLogout: a Logout is to be sent.
LEMMA LogoutQuiet ==
  ASSUME MetaOK, RequestLogout
  PROVE  Quiet
<1>1. Plain(Send("5", 0, "LogoutSent"))
  BY DEF Plain, Later, Send, AdminTypes
<1>2. IsPlain(todo)' /\ running /\ ~InFlight /\ ~LogonDue
  BY <1>1, OnePlain DEF RequestLogout, AtSelect, InFlight, LogonDue, Doing
<1> QED
  BY <1>2, LineQuiet DEF RequestLogout, history

\* Tick: what the timer sends is no Logon.
LEMMA TickQuiet ==
  ASSUME MetaOK, NEW expired \in BOOLEAN, NEW silent \in BOOLEAN, Tick(expired, silent)
  PROVE  Quiet
<1>1. running /\ ~InFlight /\ ~LogonDue
  BY DEF Tick, AtSelect, InFlight, LogonDue, Doing
<1>2. CASE Fatal
  BY <1>1, <1>2, FatalQuiet
<1>3. CASE ~Fatal
  <2> DEFINE heartbeat == IF phase = "Established" THEN <<Send("0", 0, "None")>> ELSE <<>>
  <2>1. IsPlain(heartbeat)
    <3>1. Plain(Send("0", 0, "None"))
      BY DEF Plain, Later, Send, AdminTypes
    <3> QED
      BY <3>1, NothingPlain, OnePlain
  <2>2. Plain(Send("5", 0, "Blocked")) /\ Plain(Send("1", next_out + 1, "TestRequest"))
    BY DEF Plain, Later, Send, AdminTypes
  <2>3. /\ UNCHANGED <<journal, counters, sent, history>>
        /\ \/ todo' = Append(heartbeat, Send("5", 0, "Blocked"))
           \/ todo' = Append(heartbeat, Send("1", next_out + 1, "TestRequest"))
           \/ todo' = heartbeat
    BY <1>3 DEF Tick
  <2> HIDE DEF heartbeat
  <2>4. IsPlain(todo)'
    BY <2>1, <2>2, <2>3, LastPlain
  <2> QED
    BY <1>1, <2>3, <2>4, LineQuiet DEF history
<1> QED
  BY <1>2, <1>3

\* MarkReplayWritten: the mark of a replay is not about a command.
LEMMA ReplayMarkQuiet ==
  ASSUME MetaOK, Listed, MarkReplayWritten
  PROVE  Quiet
<1>1. /\ running /\ ~InFlight /\ ~LogonDue /\ todo' = Tail(todo) /\ IsPlain(Tail(todo))
      /\ UNCHANGED <<meta, commands, outbound, counters, sent, originals>>
  BY ListedHead DEF MarkReplayWritten, Journal!MarkTransmissionWritten, InFlight, LogonDue,
     Doing, history
<1> QED
  BY <1>1 DEF Quiet, MetaOK, counters

\* AwaitFails: the actor stops, its frame may have reached the peer.
LEMMA AwaitMoves ==
  ASSUME MetaOK, AwaitFails
  PROVE  Quiet \/ FailsWritten
<1>1. CASE UNCHANGED <<sent, originals>>
  BY <1>1, StopQuiet DEF AwaitFails
<1>2. CASE ~UNCHANGED <<sent, originals>>
  BY <1>2 DEF AwaitFails, Stop, FailsWritten
<1> QED
  BY <1>1, <1>2

\* CommitAdmin: send_admin commits, finds its key, or fails.
LEMMA CommitAdminMoves ==
  ASSUME MetaOK, Listed, CommitAdmin
  PROVE  Quiet \/ TakesNumber \/ Repeats
<1> DEFINE job == Head(todo)
           c == AdminCommit(job)
           key == <<job.type, next_out, next_event>>
<1>1. running /\ todo # <<>> /\ Doing("commit") /\ (job.type = "A" <=> LogonDue)
  BY DEF CommitAdmin, Doing, LogonDue
<1>2. job.type \in AdminTypes
  BY <1>1, ListedHead DEF Doing
<1>3. SendsAs(c, key, job.type, job.arg) /\ job.type # "D"
  BY <1>2 DEF SendsAs, AdminCommit, AdminTypes
<1>4. c.request_id = key
  BY DEF AdminCommit
<1>5. CASE Fatal
  BY <1>1, <1>5, FatalQuiet
<1>6. CASE Journal!CommitOutbound(c) /\ WriteCommitted(c, next_out, job.then)
  <2> HIDE DEF c, key
  <2> QED
    BY <1>1, <1>3, <1>6 DEF TakesNumber
<1>7. CASE /\ IsRetry(c) /\ UNCHANGED journal
           /\ WriteCommitted(c, commands[c.request_id].msg_seq_num, job.then)
  <2>1. key \in DOMAIN commands
    BY <1>4, <1>7 DEF IsRetry
  <2> HIDE DEF c, key
  <2> QED
    BY <1>1, <1>3, <1>4, <1>7, <2>1 DEF Repeats
<1> QED
  BY <1>5, <1>6, <1>7 DEF CommitAdmin

\* Submit: submit_application commits an order, answers, repeats or fails.
LEMMA SubmitMoves ==
  ASSUME MetaOK, NEW r \in Requests, NEW f, Submit(r, f)
  PROVE  Quiet \/ TakesNumber \/ Repeats \/ UNCHANGED vars
<1> DEFINE c == OrderCommit(r, f)
<1>1. running /\ AtSelect /\ ~LogonDue /\ (DirectSubmit \/ r \notin DOMAIN commands)
  BY DEF Submit, AtSelect, LogonDue, Doing
<1>2. SendsAs(c, r, "D", r) /\ c.request_id = r
  BY DEF SendsAs, OrderCommit
<1>3. CASE Fatal
  BY <1>1, <1>3, FatalQuiet
<1>4. CASE Journal!CommitOutbound(c) /\ WriteCommitted(c, next_out, "None")
  <2> HIDE DEF c
  <2>1. "D" = "A" <=> LogonDue
    BY <1>1
  <2> QED
    BY <1>1, <1>2, <1>4, <2>1 DEF TakesNumber
<1>5. CASE /\ IsRetry(c) /\ commands[r].msg_seq_num = next_out
           /\ UNCHANGED journal /\ WriteCommitted(c, commands[r].msg_seq_num, "None")
  <2>1. r \in DOMAIN commands
    BY <1>2, <1>5 DEF IsRetry
  <2> HIDE DEF c
  <2>2. "D" = "A" <=> LogonDue
    BY <1>1
  <2> QED
    BY <1>1, <1>2, <1>5, <2>1, <2>2 DEF Repeats
<1>6. CASE UNCHANGED vars
  BY <1>6
<1> QED
  BY <1>3, <1>4, <1>5, <1>6 DEF Submit

\* Every step of the actor is one of these moves.
LEMMA StepMoves ==
  ASSUME MetaOK, Listed, [Next]_vars
  PROVE  Moves \/ UNCHANGED vars
<1>1. CASE Proceed
  <2>1. CASE MarkWritten
    <3>1. running
      BY <2>1 DEF MarkWritten, Doing
    <3> QED
      BY <2>1, <3>1, FatalQuiet DEF Marks, Moves
  <2>2. CASE CommitAdmin \/ MarkReplayWritten \/ CommitResynced \/ DrainBuffer
    BY <2>2, CommitAdminMoves, ReplayMarkQuiet, BufferQuiet DEF Moves
  <2> QED
    BY <1>1, <2>1, <2>2 DEF Proceed, Moves
<1>2. ASSUME NEW r \in Requests, NEW f \in Fingerprints, Submit(r, f)
      PROVE  Moves \/ UNCHANGED vars
  BY <1>2, SubmitMoves DEF Moves
<1>3. CASE RequestLogout
  BY <1>3, LogoutQuiet DEF Moves
<1>4. ASSUME NEW expired \in BOOLEAN, NEW silent \in BOOLEAN, Tick(expired, silent)
      PROVE  Moves \/ UNCHANGED vars
  BY <1>4, TickQuiet DEF Moves
<1>5. CASE Connect
  BY <1>5 DEF Moves
<1>6. CASE Disconnect
  BY <1>6, StopQuiet DEF Moves, Disconnect, AtSelect, history
<1>7. CASE AwaitFails
  BY <1>7, AwaitMoves DEF Moves
<1>8. ASSUME NEW m \in InFrames, ReceiveFrame(m) PROVE Moves \/ UNCHANGED vars
  BY <1>8, ReceiveQuiet DEF Moves
<1>9. CASE RejectFrame
  BY <1>9, FatalQuiet DEF Moves, RejectFrame, AtSelect
<1>10. CASE Horizon \/ UNCHANGED vars
  BY <1>10 DEF Horizon
<1> QED
  BY <1>1, <1>2, <1>3, <1>4, <1>5, <1>6, <1>7, <1>8, <1>9, <1>10 DEF Next, Local

-----------------------------------------------------------------------------
\* What the tables say whichever actors write them.
Tables ==
  /\ TablesOK
  /\ \A k \in DOMAIN commands : commands[k].msg_seq_num \in Nat

\* A row stays, and keeps its wire.
RowsKept ==
  \A n \in DOMAIN outbound : n \in DOMAIN outbound' /\ outbound'[n].wire = outbound[n].wire

\* No counter moves but next_transmission.
LEMMA TransmissionMeta ==
  ASSUME MetaOK, meta' = [meta EXCEPT !.next_transmission = @ + 1]
  PROVE  MetaOK' /\ meta'.next_out = meta.next_out
<1>1. meta' = [next_out |-> meta.next_out, next_in |-> meta.next_in,
               next_event |-> meta.next_event,
               next_transmission |-> meta.next_transmission + 1]
  BY DEF MetaOK
<1>2. /\ meta'.next_out = meta.next_out /\ meta'.next_in = meta.next_in
      /\ meta'.next_event = meta.next_event
      /\ meta'.next_transmission = meta.next_transmission + 1
  BY <1>1
<1>3. meta' = [next_out |-> meta'.next_out, next_in |-> meta'.next_in,
               next_event |-> meta'.next_event,
               next_transmission |-> meta'.next_transmission]
  BY <1>1, <1>2
<1> QED
  BY <1>2, <1>3 DEF MetaOK

\* Where commands and rows stay, and the outbound counter with them.
LEMMA TablesStay ==
  ASSUME Tables, UNCHANGED <<commands, outbound>>, MetaOK', meta'.next_out = meta.next_out
  PROVE  Tables' /\ RowsKept
  BY DEF Tables, TablesOK, RowsOK, RowOK, CommandsOK, CommandOK, RowsKept

\* JournalReplay: a transmission is journaled, and written next.
LEMMA ReplayMoves ==
  ASSUME Tables, Listed, JournalReplay
  PROVE  /\ UNCHANGED <<commands, outbound, sent, originals, running, next_out, next_event>>
         /\ MetaOK' /\ meta'.next_out = meta.next_out
         /\ running /\ ~InFlight /\ ~LogonDue
         /\ todo' # <<>> /\ Head(todo').do = "write replay" /\ IsPlain(Tail(todo'))
         /\ Head(todo').frame.possdup = TRUE
         /\ Head(todo').frame.type = "D" => InJournal(Head(todo').frame)
<1> DEFINE job == Head(todo)
           frame == ReplayFrame(job.at, job.end)
           next == ReplayEnd(job.at, job.end)
           first == WriteReplay(frame, meta.next_transmission)
           more == IF next <= job.end THEN <<Replay(next, job.end)>> ELSE <<>>
<1>1. /\ running /\ todo # <<>> /\ ~InFlight /\ ~LogonDue /\ job.do = "replay"
      /\ todo' = <<first>> \o more \o Tail(todo)
      /\ meta' = [meta EXCEPT !.next_transmission = @ + 1]
      /\ UNCHANGED <<commands, outbound, running, next_out, next_event, sent, originals>>
  BY DEF JournalReplay, Doing, InFlight, LogonDue, Journal!CommitTransmission, history, counters
<1>2. IsPlain(more) /\ IsPlain(Tail(todo))
  <2>1. Plain(Replay(next, job.end))
    BY DEF Plain, Later, Replay
  <2> HIDE DEF next
  <2> QED
    BY <1>1, <2>1, NothingPlain, OnePlain, ListedHead
<1>3. /\ frame.possdup = TRUE
      /\ frame.type = "D" => InJournal(frame)
  BY ReplayFrameOK DEF Tables, TablesOK
<1>4. first.do = "write replay" /\ first.frame = frame
  BY DEF WriteReplay
<1> HIDE DEF first, more, frame, next, job
<1>5. todo' # <<>> /\ Head(todo') = first /\ Tail(todo') = more \o Tail(todo)
  <2>1. IsPlain(more \o Tail(todo))
    BY <1>2, MorePlain
  <2>2. todo' = <<first>> \o (more \o Tail(todo))
    BY <1>1, <1>2, LineFrontTwice, PlainIsLine
  <2> QED
    BY <2>1, <2>2, LineFront, PlainIsLine
<1>6. IsPlain(Tail(todo'))
  BY <1>2, <1>5, MorePlain
<1>7. MetaOK' /\ meta'.next_out = meta.next_out
  BY <1>1, TransmissionMeta DEF Tables, TablesOK
<1> QED
  BY <1>1, <1>3, <1>4, <1>5, <1>6, <1>7

\* WriteCommitted: the frame is what the actor does next.
LEMMA WriteNext ==
  ASSUME Listed, AtSelect \/ Doing("commit"), NEW c, NEW key, NEW type, NEW arg,
         SendsAs(c, key, type, arg), NEW seq, NEW then, WriteCommitted(c, seq, then)
  PROVE  /\ running /\ running' /\ ~InFlight
         /\ todo' # <<>> /\ Head(todo').do = "write" /\ IsPlain(Tail(todo'))
         /\ Head(todo').frame = c.wire /\ Head(todo').key = key /\ Head(todo').seq = seq
         /\ UNCHANGED <<next_out, next_event, sent, originals>>
<1> DEFINE line == IF todo = <<>> THEN <<>> ELSE Tail(todo)
           job == Write(c.wire, key, seq, then)
<1>1. running /\ ~InFlight /\ IsPlain(line)
  BY NothingPlain, ListedHead DEF AtSelect, Doing, InFlight
<1>2. /\ todo' = <<job>> \o line /\ running'
      /\ UNCHANGED <<next_out, next_event, sent, originals>>
  BY <1>1 DEF WriteCommitted, SendsAs, counters, history
<1>3. job.do = "write" /\ job.frame = c.wire /\ job.key = key /\ job.seq = seq
  BY DEF Write
<1> HIDE DEF job, line
<1>4. todo' # <<>> /\ Head(todo') = job /\ Tail(todo') = line
  BY <1>1, <1>2, LineFront, PlainIsLine
<1> QED
  BY <1>1, <1>2, <1>3, <1>4

\* WriteWire: the frame is on the wire, its mark is next.
LEMMA MarkNext ==
  ASSUME Listed, WriteWire
  PROVE  LET job == Head(todo)
         IN  /\ running /\ running' /\ todo # <<>> /\ job.do = "write" /\ job.seq \in Nat
             /\ todo' # <<>> /\ Head(todo').do = "mark" /\ IsPlain(Tail(todo'))
             /\ Head(todo').key = job.key /\ Head(todo').seq = job.seq
             /\ UNCHANGED <<meta, commands, outbound, next_out, next_event>>
<1> DEFINE job == Head(todo)
           mark == Mark(job.key, job.seq, job.then)
<1>1. /\ running /\ running' /\ todo # <<>> /\ job.do = "write"
      /\ todo' = <<mark>> \o Tail(todo)
      /\ UNCHANGED <<meta, commands, outbound, next_out, next_event>>
  BY DEF WriteWire, Doing, journal, counters
<1>2. job.seq \in Nat /\ IsPlain(Tail(todo))
  BY <1>1, ListedHead
<1>3. mark.do = "mark" /\ mark.key = job.key /\ mark.seq = job.seq
  BY DEF Mark
<1> HIDE DEF mark
<1>4. todo' # <<>> /\ Head(todo') = mark /\ Tail(todo') = Tail(todo)
  BY <1>1, <1>2, LineFront, PlainIsLine
<1> QED
  BY <1>1, <1>2, <1>3, <1>4

\* MarkWritten: the send is over.
LEMMA MarkOver ==
  ASSUME Listed, Marks
  PROVE  LET job == Head(todo)
         IN  /\ running /\ todo # <<>> /\ job.do = "mark" /\ job.seq \in Nat
             /\ IsPlain(todo)'
             /\ Journal!MarkOutboundWritten(job.key, job.seq)
             /\ next_out' = job.seq + 1
             /\ UNCHANGED <<next_event, sent, originals>>
<1>1. /\ running /\ todo # <<>> /\ Head(todo).do = "mark"
      /\ Journal!MarkOutboundWritten(Head(todo).key, Head(todo).seq)
      /\ next_out' = Head(todo).seq + 1
      /\ todo' = <<>> \/ todo' = Tail(todo)
      /\ UNCHANGED <<next_event, sent, originals>>
  BY DEF Marks, MarkWritten, Doing, history
<1>2. Head(todo).seq \in Nat /\ IsPlain(Tail(todo))
  BY <1>1, ListedHead
<1> QED
  BY <1>1, <1>2, NothingPlain

\* WriteReplayWire: a repetition is on the wire, its mark is next.
LEMMA ReplayWritten ==
  ASSUME Listed, WriteReplayWire
  PROVE  /\ running /\ running' /\ todo # <<>> /\ Head(todo).do = "write replay"
         /\ ~InFlight /\ ~LogonDue
         /\ sent' = Append(sent, Head(todo).frame)
         /\ todo' # <<>> /\ Head(todo').do = "mark replay" /\ IsPlain(Tail(todo'))
         /\ UNCHANGED <<meta, commands, outbound, originals, next_out, next_event>>
<1> DEFINE mark == MarkReplay(Head(todo).id)
<1>1. /\ running /\ running' /\ todo # <<>> /\ Head(todo).do = "write replay"
      /\ ~InFlight /\ ~LogonDue
      /\ sent' = Append(sent, Head(todo).frame)
      /\ todo' = <<mark>> \o Tail(todo)
      /\ UNCHANGED <<meta, commands, outbound, originals, next_out, next_event>>
  BY DEF WriteReplayWire, Doing, InFlight, LogonDue, journal, counters, history
<1>2. IsPlain(Tail(todo))
  BY <1>1, ListedHead
<1>3. mark.do = "mark replay"
  BY DEF MarkReplay
<1> HIDE DEF mark
<1>4. todo' # <<>> /\ Head(todo') = mark /\ Tail(todo') = Tail(todo)
  BY <1>1, <1>2, LineFront, PlainIsLine
<1> QED
  BY <1>1, <1>2, <1>3, <1>4

\* Connect and ResetJournal: the Logon comes next, or after the reset.
LEMMA LogonComes ==
  ASSUME Connect
  PROVE  /\ ~running /\ running'
         /\ next_out' = meta.next_out /\ next_event' = meta.next_event
         /\ sent' = <<>> /\ UNCHANGED <<meta, commands, outbound, originals>>
         /\ \/ todo' = <<Logon>>
            \/ /\ todo' # <<>> /\ Head(todo').do = "reset" /\ Tail(todo') = <<Logon>>
               /\ TRUE \in ResetOnLogon
<1>1. PICK reset \in ResetOnLogon :
        todo' = (IF reset THEN <<Reset>> ELSE <<>>) \o <<Logon>>
  BY DEF Connect, Logon
<1>2. CASE reset
  <2>1. todo' = <<Reset, Logon>>
    BY <1>1, <1>2, Double
  <2>2. todo' # <<>> /\ Head(todo') = Reset /\ Tail(todo') = <<Logon>>
    BY <2>1, Double
  <2>3. Reset.do = "reset" /\ TRUE \in ResetOnLogon
    BY <1>2, SessionConstants DEF Reset
  <2> QED
    BY <2>2, <2>3 DEF Connect, journal
<1>3. CASE ~reset
  <2>1. todo' = <<Logon>>
    BY <1>1, <1>3
  <2> QED
    BY <2>1 DEF Connect, journal
<1> QED
  BY <1>2, <1>3

\* With the Logon alone to send it is due, and nothing is in flight.
LEMMA LogonIsDue ==
  ASSUME running', todo' = <<Logon>>
  PROVE  LogonDue' /\ ~InFlight'
<1>1. todo' # <<>> /\ Head(todo') = Logon
  BY Single
<1>2. Logon.do = "commit" /\ Logon.type = "A"
  BY DEF Logon, Send
<1> QED
  BY <1>1, <1>2 DEF LogonDue, InFlight, Doing

\* ResetJournal: what is left of journal and worklist.
LEMMA ResetMoves ==
  ASSUME Tables, Listed, ResetJournal
  PROVE  /\ running /\ running' /\ todo' = <<Logon>> /\ TRUE \in ResetOnLogon
         /\ ~InFlight /\ ~LogonDue
         /\ next_out' = 1 /\ next_event' = meta.next_event + 1
         /\ UNCHANGED <<commands, sent, originals>>
         /\ Tables'
<1>1. /\ running /\ running' /\ todo # <<>> /\ Head(todo).do = "reset"
      /\ ~InFlight /\ ~LogonDue
      /\ todo' = Tail(todo) /\ next_out' = 1 /\ next_event' = meta.next_event + 1
      /\ UNCHANGED <<commands, sent, originals>>
      /\ outbound' = Journal!NoRows
      /\ meta' = [next_out |-> 1, next_in |-> 1, next_transmission |-> 1,
                  next_event |-> meta.next_event + 1]
  BY DEF ResetJournal, Doing, InFlight, LogonDue, Journal!ResetSequences, history
<1>2. todo' = <<Logon>> /\ TRUE \in ResetOnLogon
  BY <1>1, ListedHead
<1>3. MetaOK'
  BY <1>1 DEF MetaOK, Tables, TablesOK
<1>4. RowsOK'
  BY <1>1 DEF RowsOK, Journal!NoRows
<1>5. CommandsOK' /\ \A k \in DOMAIN commands' : commands'[k].msg_seq_num \in Nat
  BY <1>1 DEF CommandsOK, CommandOK, Tables, TablesOK
<1> QED
  BY <1>1, <1>2, <1>3, <1>4, <1>5 DEF Tables, TablesOK

\* A commit and a mark, and the tables.
LEMMA CommitTables ==
  ASSUME Tables, NEW c, NEW key, NEW type, NEW arg, SendsAs(c, key, type, arg),
         Journal!CommitOutbound(c)
  PROVE  Tables' /\ RowsKept
<1>1. /\ TablesOK' /\ next_out \in Nat
      /\ DOMAIN outbound' = DOMAIN outbound \cup {next_out}
      /\ \A n \in DOMAIN outbound : outbound'[n] = outbound[n]
      /\ DOMAIN commands' = DOMAIN commands \cup {key}
      /\ commands'[key] = Journal!NewCommand(c)
      /\ \A k \in DOMAIN commands : commands'[k] = commands[k]
  BY CommittedRow DEF Tables
<1>2. commands'[key].msg_seq_num = next_out
  BY <1>1 DEF Journal!NewCommand, SendsAs
<1> QED
  BY <1>1, <1>2 DEF Tables, RowsKept

\* The mark of a send.
LEMMA MarkTables ==
  ASSUME Tables, NEW key, NEW seq, Journal!MarkOutboundWritten(key, seq)
  PROVE  Tables' /\ RowsKept /\ UNCHANGED meta
  BY MarkedRow DEF Tables, RowsKept

\* Every move keeps the tables, and without resets every row its wire.
LEMMA TablesKept ==
  ASSUME Tables, Listed, Moves \/ UNCHANGED vars
  PROVE  Tables' /\ (TRUE \notin ResetOnLogon => RowsKept)
<1> USE DEF Tables, TablesOK
<1>1. CASE Quiet
  BY <1>1, TablesStay DEF Quiet
<1>2. CASE \/ Repeats \/ WriteWire \/ WriteReplayWire \/ FailsWritten \/ Connect
           \/ UNCHANGED vars
  <2>1. UNCHANGED <<meta, commands, outbound>>
    BY <1>2 DEF Repeats, WriteWire, WriteReplayWire, FailsWritten, Connect, vars, journal
  <2> QED
    BY <2>1, TablesStay DEF MetaOK
<1>3. CASE TakesNumber
  BY <1>3, CommitTables DEF TakesNumber
<1>4. CASE Marks
  BY <1>4, MarkOver, MarkTables
<1>5. CASE JournalReplay
  BY <1>5, ReplayMoves, TablesStay
<1>6. CASE ResetJournal
  BY <1>6, ResetMoves
<1> QED
  BY <1>1, <1>2, <1>3, <1>4, <1>5, <1>6 DEF Moves

\* Every move keeps the worklist in shape, and the counters numbers.
LEMMA ListedKept ==
  ASSUME Tables, Listed, Counting, Moves \/ UNCHANGED vars
  PROVE  Listed' /\ Counting'
<1>1. CASE Quiet
  <2>1. Listed'
    BY <1>1, PlainQuiet DEF Quiet
  <2>2. Counting'
    BY <1>1 DEF Quiet, Counting
  <2> QED
    BY <2>1, <2>2
<1>2. CASE TakesNumber \/ Repeats
  <2>1. PICK c, then, key, type, arg, seq :
          /\ AtSelect \/ Doing("commit")
          /\ SendsAs(c, key, type, arg)
          /\ WriteCommitted(c, seq, then)
          /\ seq = next_out \/ (key \in DOMAIN commands /\ seq = commands[key].msg_seq_num)
    BY <1>2 DEF TakesNumber, Repeats
  <2>2. /\ running /\ running'
        /\ todo' # <<>> /\ Head(todo').do = "write" /\ IsPlain(Tail(todo'))
        /\ Head(todo').seq = seq
        /\ UNCHANGED <<next_out, next_event>>
    BY <2>1, WriteNext
  <2>3. seq \in Nat
    BY <2>1, <2>2 DEF Counting, Tables
  <2> QED
    BY <2>2, <2>3 DEF Listed, Counting
<1>3. CASE WriteWire
  BY <1>3, MarkNext DEF Listed, Counting
<1>4. CASE Marks
  <2>1. Listed'
    BY <1>4, MarkOver, PlainQuiet
  <2>2. Counting'
    BY <1>4, MarkOver DEF Counting
  <2> QED
    BY <2>1, <2>2
<1>5. CASE JournalReplay
  BY <1>5, ReplayMoves DEF Listed, Counting
<1>6. CASE WriteReplayWire
  BY <1>6, ReplayWritten DEF Listed, Counting
<1>7. CASE FailsWritten
  BY <1>7, NothingPlain DEF Listed, Counting, FailsWritten
<1>8. CASE Connect
  BY <1>8, LogonComes DEF Listed, Counting, Tables, TablesOK, MetaOK
<1>9. CASE ResetJournal
  <2>1. next_out' = 1 /\ next_event' = meta.next_event + 1 /\ meta.next_event \in Nat
    BY <1>9, ResetMoves DEF Tables, TablesOK, MetaOK
  <2>2. Counting'
    BY <2>1 DEF Counting
  <2> QED
    BY <1>9, <2>2, ResetMoves DEF Listed
<1>10. CASE UNCHANGED vars
  BY <1>10 DEF Listed, Counting, vars, counters
<1> QED
  BY <1>1, <1>2, <1>3, <1>4, <1>5, <1>6, <1>7, <1>8, <1>9, <1>10 DEF Moves

-----------------------------------------------------------------------------
\* Without resets a row stays for good, and tells the actors apart.
NoResets == TRUE \notin ResetOnLogon

Row(n, type) == n \in DOMAIN outbound /\ outbound[n].wire.type = type

\* A command is in the row of its number, by the type of its message.
RowsNamed ==
  /\ \A key \in AdminKeys : key \in DOMAIN commands => Row(key[2], key[1])
  /\ \A r \in Requests : r \in DOMAIN commands => Row(commands[r].msg_seq_num, "D")

\* The number that the actor's next send will have.
Position == IF InFlight THEN next_out + 1 ELSE next_out

\* An actor that is behind the journal finds a message of the other kind at its
\* number: it has its Logon to send and the row is none, or the row is a Logon.
Place ==
  running =>
    /\ Position <= meta.next_out
    /\ Position < meta.next_out =>
         /\ Position \in DOMAIN outbound
         /\ outbound[Position].wire.type = "A" <=> ~LogonDue

\* What is at hand: a frame the journal holds, under the actor's own number.
Hand ==
  running /\ todo # <<>> =>
    LET job == Head(todo)
    IN  /\ job.do \in {"write", "mark"} => job.seq = next_out
        /\ job.do = "write" => InJournal(job.frame)
        /\ job.do = "write replay" =>
             job.frame.possdup = TRUE /\ (job.frame.type = "D" => InJournal(job.frame))

Wired == SentOK /\ WireJournaled /\ Hand /\ Place

\* How a step moves the actor and the counter of the journal: neither, or both
\* by one, with a Logon in the new row when one was due.
Goes ==
  \/ /\ meta'.next_out = meta.next_out
     /\ running /\ running' => Position' = Position /\ (LogonDue' <=> LogonDue)
     /\ ~running /\ running' => Position' = meta.next_out /\ LogonDue'
  \/ /\ running /\ running'
     /\ Position = meta.next_out /\ meta'.next_out = meta.next_out + 1
     /\ Position' = meta'.next_out /\ ~LogonDue'
     /\ meta.next_out \in DOMAIN outbound'
     /\ outbound'[meta.next_out].wire.type = "A" <=> LogonDue

\* An actor whose key is journaled is behind, and finds another kind of message
\* there: no send meets a key or an order that the other one journaled.
LEMMA NeverRepeats ==
  ASSUME Tables, RowsNamed, Counting, Place
  PROVE  ~Repeats
<1> SUFFICES ASSUME Repeats PROVE FALSE
  OBVIOUS
<1>1. PICK c, then, key, type, arg, seq :
        /\ AtSelect \/ Doing("commit")
        /\ SendsAs(c, key, type, arg)
        /\ type = "A" <=> LogonDue
        /\ key \in DOMAIN commands /\ seq = commands[key].msg_seq_num
        /\ type = "D" => DirectSubmit /\ seq = next_out
  BY DEF Repeats
<1>2. running /\ ~InFlight /\ Position = next_out /\ next_out \in Nat /\ next_event \in Nat
  BY <1>1 DEF AtSelect, Doing, InFlight, Position, Counting
<1>3. Row(next_out, type)
  <2>1. CASE type \in AdminTypes /\ key = <<type, next_out, next_event>>
    <3>1. key \in AdminKeys /\ key[1] = type /\ key[2] = next_out
      BY <1>2, <2>1 DEF AdminKeys
    <3> QED
      BY <1>1, <3>1 DEF RowsNamed
  <2>2. CASE type = "D" /\ key \in Requests
    BY <1>1, <2>2 DEF RowsNamed
  <2> QED
    BY <1>1, <2>1, <2>2 DEF SendsAs
<1>4. next_out < meta.next_out
  BY <1>3 DEF Row, Tables, TablesOK, RowsOK, RowOK
<1>5. outbound[next_out].wire.type = "A" <=> ~LogonDue
  BY <1>2, <1>4 DEF Place
<1> QED
  BY <1>1, <1>3, <1>5 DEF Row

\* A message that is committed is the row of its command.
LEMMA RowsNamedKept ==
  ASSUME NoResets, Tables, Listed, Counting, RowsNamed, ~Repeats, Moves \/ UNCHANGED vars
  PROVE  RowsNamed'
<1>1. RowsKept
  BY TablesKept DEF NoResets
<1>2. CASE UNCHANGED commands
  BY <1>1, <1>2 DEF RowsNamed, Row, RowsKept
<1>3. CASE Marks
  <2>1. /\ DOMAIN commands' = DOMAIN commands
        /\ \A k \in DOMAIN commands : commands'[k].msg_seq_num = commands[k].msg_seq_num
    BY <1>3, MarkOver, MarkedRow DEF Tables
  <2> QED
    BY <1>1, <2>1 DEF RowsNamed, Row, RowsKept
<1>4. CASE TakesNumber
  <2>1. PICK c, key, type, arg :
          /\ AtSelect \/ Doing("commit")
          /\ SendsAs(c, key, type, arg) /\ Journal!CommitOutbound(c)
    BY <1>4 DEF TakesNumber
  <2>2. /\ DOMAIN outbound' = DOMAIN outbound \cup {next_out}
        /\ outbound'[next_out].wire = c.wire
        /\ DOMAIN commands' = DOMAIN commands \cup {key}
        /\ commands'[key] = Journal!NewCommand(c)
        /\ \A k \in DOMAIN commands : commands'[k] = commands[k]
    BY <2>1, CommittedRow DEF Tables
  <2>3. /\ next_out \in DOMAIN outbound' /\ outbound'[next_out].wire.type = type
        /\ commands'[key].msg_seq_num = next_out
    <3>1. c.wire.type = type
      BY <2>1, SendsFrame
    <3>2. commands'[key].msg_seq_num = next_out
      BY <2>1, <2>2 DEF Journal!NewCommand, SendsAs
    <3> QED
      BY <2>2, <3>1, <3>2
  <2>4. next_out \in Nat /\ next_event \in Nat
    BY <2>1 DEF Counting, AtSelect, Doing
  <2>5. ASSUME NEW k \in AdminKeys, k \in DOMAIN commands' PROVE Row(k[2], k[1])'
    <3>1. CASE k \in DOMAIN commands
      BY <1>1, <3>1 DEF RowsNamed, Row, RowsKept
    <3>2. CASE k = key
      <4>1. key = <<type, next_out, next_event>>
        BY <2>1, <3>2, <2>5, AgentKeysDisjoint DEF SendsAs
      <4> QED
        BY <2>3, <3>2, <4>1 DEF Row
    <3> QED
      BY <2>2, <2>5, <3>1, <3>2
  <2>6. ASSUME NEW r \in Requests, r \in DOMAIN commands'
        PROVE  Row(commands[r].msg_seq_num, "D")'
    <3>1. CASE r \in DOMAIN commands
      BY <1>1, <2>2, <3>1 DEF RowsNamed, Row, RowsKept
    <3>2. CASE r = key
      <4>1. <<type, next_out, next_event>> \in AdminKeys \/ type \notin AdminTypes
        BY <2>4 DEF AdminKeys
      <4>2. type = "D"
        BY <2>1, <2>6, <3>2, <4>1, AgentKeysDisjoint DEF SendsAs
      <4> QED
        BY <2>3, <3>2, <4>2 DEF Row
    <3> QED
      BY <2>2, <2>6, <3>1, <3>2
  <2> QED
    BY <2>5, <2>6 DEF RowsNamed
<1>5. Moves => UNCHANGED commands \/ Marks \/ TakesNumber
  BY ReplayMoves, ResetMoves, LogonComes, MarkNext, ReplayWritten
     DEF Moves, Quiet, FailsWritten, journal
<1> QED
  BY <1>2, <1>3, <1>4, <1>5 DEF vars, journal

\* Where a step of the actor takes it, and the journal.
LEMMA Going ==
  ASSUME NoResets, Tables, Listed, Counting, Hand, ~Repeats, Moves \/ UNCHANGED vars
  PROVE  Goes
<1>1. CASE Quiet
  <2>1. ~InFlight' /\ ~LogonDue'
    BY <1>1, PlainQuiet DEF Quiet
  <2> QED
    BY <1>1, <2>1 DEF Quiet, Goes, Position
<1>2. CASE TakesNumber
  <2>1. PICK c, then, key, type, arg :
          /\ AtSelect \/ Doing("commit")
          /\ SendsAs(c, key, type, arg)
          /\ type = "A" <=> LogonDue
          /\ Journal!CommitOutbound(c) /\ WriteCommitted(c, next_out, then)
    BY <1>2 DEF TakesNumber
  <2>2. /\ next_out = meta.next_out /\ meta'.next_out = next_out + 1
        /\ next_out \in DOMAIN outbound' /\ outbound'[next_out].wire = c.wire
    BY <2>1, CommittedRow DEF Tables
  <2>3. /\ running /\ running' /\ ~InFlight
        /\ todo' # <<>> /\ Head(todo').do = "write" /\ UNCHANGED next_out
    BY <2>1, WriteNext
  <2>4. c.wire.type = type
    BY <2>1, SendsFrame
  <2>5. InFlight' /\ ~LogonDue'
    BY <2>3 DEF InFlight, LogonDue, Doing
  <2>6. Position = next_out /\ Position' = next_out + 1
    BY <2>3, <2>5 DEF Position
  <2>7. outbound'[meta.next_out].wire.type = "A" <=> LogonDue
    BY <2>1, <2>2, <2>4
  <2> QED
    BY <2>2, <2>3, <2>5, <2>6, <2>7 DEF Goes
<1>3. CASE WriteWire
  <2>1. /\ InFlight /\ ~LogonDue /\ InFlight' /\ ~LogonDue'
        /\ running /\ UNCHANGED <<meta, next_out>>
    BY <1>3, MarkNext DEF InFlight, LogonDue, Doing
  <2> QED
    BY <2>1 DEF Goes, Position
<1>4. CASE Marks
  <2>1. /\ running /\ todo # <<>> /\ Head(todo).do = "mark"
        /\ next_out' = Head(todo).seq + 1 /\ IsPlain(todo)'
        /\ Journal!MarkOutboundWritten(Head(todo).key, Head(todo).seq)
    BY <1>4, MarkOver
  <2>2. ~InFlight' /\ ~LogonDue'
    BY <2>1, PlainQuiet
  <2>3. UNCHANGED meta
    BY <2>1, MarkTables
  <2>4. InFlight /\ ~LogonDue /\ Head(todo).seq = next_out
    BY <2>1 DEF InFlight, LogonDue, Doing, Hand
  <2> QED
    BY <2>1, <2>2, <2>3, <2>4 DEF Goes, Position
<1>5. CASE JournalReplay
  <2>1. ~InFlight' /\ ~LogonDue'
    BY <1>5, ReplayMoves DEF InFlight, LogonDue, Doing
  <2> QED
    BY <1>5, <2>1, ReplayMoves DEF Goes, Position
<1>6. CASE WriteReplayWire
  <2>1. ~InFlight' /\ ~LogonDue'
    BY <1>6, ReplayWritten DEF InFlight, LogonDue, Doing
  <2> QED
    BY <1>6, <2>1, ReplayWritten DEF Goes, Position
<1>7. CASE FailsWritten
  BY <1>7 DEF FailsWritten, Goes, journal
<1>8. CASE Connect
  <2>1. ~running /\ running' /\ next_out' = meta.next_out /\ todo' = <<Logon>> /\ UNCHANGED meta
    BY <1>8, LogonComes DEF NoResets
  <2>2. LogonDue' /\ ~InFlight'
    BY <2>1, LogonIsDue
  <2> QED
    BY <2>1, <2>2 DEF Goes, Position
<1>9. CASE ResetJournal
  BY <1>9, ResetMoves DEF NoResets
<1>10. CASE UNCHANGED vars
  BY <1>10 DEF vars, journal, counters, Goes, Position, InFlight, LogonDue, Doing
<1> QED
  BY <1>1, <1>2, <1>3, <1>4, <1>5, <1>6, <1>7, <1>8, <1>9, <1>10 DEF Moves

\* An actor that goes so keeps its place.
LEMMA PlaceKept ==
  ASSUME Tables, Counting, Place, Goes, RowsKept, Tables'
  PROVE  Place'
<1> SUFFICES ASSUME running' PROVE Place'
  BY DEF Place
<1>1. meta.next_out \in Nat /\ meta'.next_out \in Nat
  BY DEF Tables, TablesOK, MetaOK
<1>2. CASE meta'.next_out = meta.next_out /\ running
  <2>1. Position' = Position /\ (LogonDue' <=> LogonDue)
    BY <1>1, <1>2 DEF Goes
  <2>2. Position \in DOMAIN outbound =>
          Position \in DOMAIN outbound' /\ outbound'[Position].wire = outbound[Position].wire
    BY DEF RowsKept
  <2> QED
    BY <1>2, <2>1, <2>2 DEF Place
<1>3. CASE ~(meta'.next_out = meta.next_out /\ running)
  <2>1. Position' = meta'.next_out
    BY <1>1, <1>3 DEF Goes
  <2> QED
    BY <1>1, <2>1 DEF Place
<1> QED
  BY <1>2, <1>3

\* What is at hand after a step is what the step journaled, or was at hand.
LEMMA HandKept ==
  ASSUME NoResets, Tables, Listed, Hand, ~Repeats, Moves \/ UNCHANGED vars
  PROVE  Hand'
<1>1. CASE Quiet
  <2>1. todo' = <<>> \/ Plain(Head(todo'))
    BY <1>1, PlainStarts DEF Quiet
  <2> QED
    BY <2>1 DEF Hand, Plain, Later
<1>2. CASE TakesNumber
  <2>1. PICK c, then, key, type, arg :
          /\ AtSelect \/ Doing("commit")
          /\ SendsAs(c, key, type, arg)
          /\ Journal!CommitOutbound(c) /\ WriteCommitted(c, next_out, then)
    BY <1>2 DEF TakesNumber
  <2>2. next_out \in DOMAIN outbound' /\ outbound'[next_out].wire = c.wire
    BY <2>1, CommittedRow DEF Tables
  <2>3. c.wire.seq = next_out /\ AsFirstSent(c.wire) = c.wire
    BY <2>1, SendsFrame
  <2>4. /\ Head(todo').do = "write" /\ Head(todo').frame = c.wire
        /\ Head(todo').seq = next_out /\ UNCHANGED next_out
    BY <2>1, WriteNext
  <2>5. InJournal(Head(todo).frame)'
    BY <2>2, <2>3, <2>4 DEF InJournal
  <2> QED
    BY <2>4, <2>5 DEF Hand
<1>3. CASE WriteWire
  <2>1. Head(todo).seq = next_out
    BY <1>3, MarkNext DEF Hand
  <2> QED
    BY <1>3, <2>1, MarkNext DEF Hand
<1>4. CASE Marks
  <2>1. todo' = <<>> \/ Plain(Head(todo'))
    BY <1>4, MarkOver, PlainStarts
  <2> QED
    BY <2>1 DEF Hand, Plain, Later
<1>5. CASE JournalReplay
  BY <1>5, ReplayMoves DEF Hand, InJournal
<1>6. CASE WriteReplayWire
  BY <1>6, ReplayWritten DEF Hand
<1>7. CASE FailsWritten
  BY <1>7 DEF FailsWritten, Hand
<1>8. CASE Connect
  <2>1. todo' = <<Logon>>
    BY <1>8, LogonComes DEF NoResets
  <2>2. Head(todo') = Logon /\ Logon.do = "commit"
    BY <2>1, Single DEF Logon, Send
  <2> QED
    BY <2>2 DEF Hand
<1>9. CASE ResetJournal
  BY <1>9, ResetMoves DEF NoResets
<1>10. CASE UNCHANGED vars
  BY <1>10 DEF vars, journal, counters, Hand, InJournal
<1> QED
  BY <1>1, <1>2, <1>3, <1>4, <1>5, <1>6, <1>7, <1>8, <1>9, <1>10 DEF Moves

\* The wire stays while rows keep theirs.
LEMMA WireStays ==
  ASSUME SentOK, WireJournaled, RowsKept, UNCHANGED sent
  PROVE  SentOK' /\ WireJournaled'
  BY DEF SentOK, WireJournaled, RowsKept

\* An empty wire.
LEMMA WireStarts ==
  ASSUME sent' = <<>>
  PROVE  SentOK' /\ WireJournaled'
<1> DEFINE S == {}
<1>1. sent' \in Seq(S) /\ DOMAIN sent' = {}
  OBVIOUS
<1> HIDE DEF S
<1> QED
  BY <1>1 DEF SentOK, WireJournaled

\* What is written was journaled.
LEMMA WireKept ==
  ASSUME NoResets, Tables, Listed, Counting, SentOK, WireJournaled, Hand,
         ~Repeats, Moves \/ UNCHANGED vars
  PROVE  SentOK' /\ WireJournaled'
<1>1. RowsKept
  BY TablesKept DEF NoResets
<1>2. CASE UNCHANGED sent
  BY <1>1, <1>2, WireStays
<1>3. CASE Connect
  BY <1>3, LogonComes, WireStarts
<1>4. CASE WriteWire \/ WriteReplayWire \/ FailsWritten
  <2> DEFINE job == Head(todo)
  <2>1. /\ running /\ todo # <<>> /\ job.do \in {"write", "write replay"}
        /\ sent' = Append(sent, job.frame) /\ UNCHANGED outbound
    BY <1>4 DEF WriteWire, WriteReplayWire, FailsWritten, Doing, journal
  <2>2. CASE job.do = "write"
    BY <2>1, <2>2, WireGrows DEF Hand
  <2>3. CASE job.do = "write replay"
    BY <2>1, <2>3, WireGrows DEF Hand
  <2> QED
    BY <2>1, <2>2, <2>3
<1>5. Moves => UNCHANGED sent \/ Connect \/ WriteWire \/ WriteReplayWire \/ FailsWritten
  BY ReplayMoves, ResetMoves, MarkOver DEF Moves, Quiet, TakesNumber, WriteCommitted, NoResets
<1> QED
  BY <1>2, <1>3, <1>4, <1>5 DEF vars

\* Without resets a step of the actor keeps its rows, its wire and its place.
LEMMA WiredKept ==
  ASSUME NoResets, Tables, RowsNamed, Listed, Counting, Wired, Moves \/ UNCHANGED vars
  PROVE  RowsNamed' /\ Wired' /\ RowsKept /\ Goes
<1>1. ~Repeats
  BY NeverRepeats DEF Wired
<1>2. Tables' /\ RowsKept
  BY TablesKept DEF NoResets
<1>3. RowsNamed'
  BY <1>1, RowsNamedKept
<1>4. Goes
  BY <1>1, Going DEF Wired
<1>5. Place'
  BY <1>2, <1>4, PlaceKept DEF Wired
<1>6. Hand'
  BY <1>1, HandKept DEF Wired
<1>7. SentOK' /\ WireJournaled'
  BY <1>1, WireKept DEF Wired
<1> QED
  BY <1>2, <1>3, <1>4, <1>5, <1>6, <1>7 DEF Wired

\* A step beside the actor: rows stay, and a row that is put at the actor's
\* number is of the other kind.
LEMMA WiredBeside ==
  ASSUME Tables, Counting, Wired, RowsKept, UNCHANGED <<running, next_out, todo, sent>>,
         \/ meta'.next_out = meta.next_out
         \/ /\ meta'.next_out = meta.next_out + 1
            /\ running /\ Position = meta.next_out =>
                 /\ meta.next_out \in DOMAIN outbound'
                 /\ outbound'[meta.next_out].wire.type = "A" <=> ~LogonDue
  PROVE  Wired'
<1>1. SentOK' /\ WireJournaled'
  BY WireStays DEF Wired
<1>2. Hand'
  <2>1. \A frame : InJournal(frame) => InJournal(frame)'
    BY DEF InJournal, RowsKept
  <2> QED
    BY <2>1 DEF Wired, Hand
<1>3. Place'
  <2> SUFFICES ASSUME running PROVE Place'
    BY DEF Place
  <2>1. Position' = Position /\ (LogonDue' <=> LogonDue)
    BY DEF Position, InFlight, LogonDue, Doing
  <2>2. meta.next_out \in Nat /\ Position \in Nat
    BY DEF Tables, TablesOK, MetaOK, Counting, Position
  <2>3. CASE Position < meta.next_out
    <3>1. /\ Position \in DOMAIN outbound'
          /\ outbound'[Position].wire.type = "A" <=> ~LogonDue
      BY <2>3 DEF Wired, Place, RowsKept
    <3>2. Position <= meta'.next_out
      BY <2>2, <2>3
    <3> QED
      BY <2>1, <3>1, <3>2 DEF Place
  <2>4. CASE Position = meta.next_out
    BY <2>1, <2>2, <2>4 DEF Place
  <2> QED
    BY <2>2, <2>3, <2>4 DEF Wired, Place
<1> QED
  BY <1>1, <1>2, <1>3 DEF Wired

-----------------------------------------------------------------------------
\* The order at hand, and how often it was sent.
Booked(key, copies) ==
  key \in Requests =>
    /\ key \in DOMAIN commands /\ commands[key].phase = "Journaled"
    /\ originals[key] = copies

Handed ==
  running /\ todo # <<>> =>
    LET job == Head(todo)
    IN  /\ job.do = "write" =>
             /\ Booked(job.key, 0)
             /\ job.frame.type = "D" => job.key \in Requests /\ job.frame.arg = job.key
             /\ job.frame.type # "D" => job.key \notin Requests
        /\ job.do = "mark" => Booked(job.key, 1)
        /\ job.do = "write replay" => job.frame.possdup = TRUE

\* The key of what is written or marked next.
IsAtHand(key) == InFlight /\ Head(todo).key = key

\* What a step leaves to the other actor: the orders that are not at hand, and
\* of the ones it takes up only those that nobody knew.
Leaves ==
  \A r \in Requests :
    /\ r \in DOMAIN commands /\ ~IsAtHand(r) =>
         r \in DOMAIN commands' /\ commands'[r] = commands[r] /\ originals'[r] = originals[r]
    /\ IsAtHand(r)' => IsAtHand(r) \/ r \notin DOMAIN commands

\* A step that touches no order, and takes up none.
LEMMA OrdersStay ==
  ASSUME CopiesOK, UNCHANGED <<commands, originals>>, ~InFlight', Handed'
  PROVE  CopiesOK' /\ Handed' /\ Leaves /\ [Ledger!Next]_(Ledger!ledger)
<1>1. CopiesOK' /\ Leaves
  BY DEF CopiesOK, Leaves, IsAtHand
<1> QED
  BY <1>1, StutterMaps

\* The write of a frame, marked next or failed after the peer got it.
LEMMA OrderWritten ==
  ASSUME CopiesOK, Handed, running, todo # <<>>, Head(todo).do = "write",
         UNCHANGED commands,
         originals' = IF Head(todo).frame.type = "D"
                      THEN [originals EXCEPT ![Head(todo).frame.arg] = @ + 1]
                      ELSE originals
  PROVE  /\ CopiesOK'
         /\ Head(todo).key \in Requests =>
              /\ Head(todo).key \in DOMAIN commands
              /\ commands[Head(todo).key].phase = "Journaled"
              /\ originals'[Head(todo).key] = 1
         /\ [Ledger!Next]_(Ledger!ledger)
         /\ \A r \in Requests : ~IsAtHand(r) => originals'[r] = originals[r]
<1> DEFINE job == Head(todo)
<1>1. /\ Booked(job.key, 0)
      /\ job.frame.type = "D" => job.key \in Requests /\ job.frame.arg = job.key
      /\ job.frame.type # "D" => job.key \notin Requests
  BY DEF Handed
<1>2. IsAtHand(job.key)
  BY DEF IsAtHand, InFlight, Doing
<1>3. CASE job.frame.type = "D"
  <2>1. PICK r \in Requests : r = job.key
    BY <1>1, <1>3
  <2>2. /\ r \in DOMAIN commands /\ commands[r].phase = "Journaled" /\ originals[r] = 0
        /\ originals' = [originals EXCEPT ![r] = @ + 1]
    BY <1>1, <1>3, <2>1 DEF Booked
  <2>3. CopiesOK' /\ originals'[r] = 1
    BY <2>2, OneMoreCopy
  <2>4. [Ledger!Next]_(Ledger!ledger)
    BY <2>2, WriteMaps
  <2>5. \A q \in Requests : q # r => originals'[q] = originals[q]
    BY <2>2 DEF CopiesOK
  <2> QED
    BY <1>2, <2>1, <2>2, <2>3, <2>4, <2>5
<1>4. CASE job.frame.type # "D"
  <2>1. UNCHANGED <<commands, originals>> /\ job.key \notin Requests
    BY <1>1, <1>4
  <2> QED
    BY <2>1, StutterMaps DEF CopiesOK
<1> QED
  BY <1>3, <1>4

\* A step of the actor, for the orders: it keeps their copies and what is at
\* hand of them, is one of the ledger or not seen there, and leaves the rest.
LEMMA HandedKept ==
  ASSUME Tables, Listed, Counting, CopiesOK, Handed, Moves \/ UNCHANGED vars,
         ~DirectSubmit \/ ~Repeats
  PROVE  CopiesOK' /\ Handed' /\ Leaves /\ [Ledger!Next]_(Ledger!ledger)
<1>1. CASE Quiet
  <2>1. ~InFlight' /\ (todo' = <<>> \/ Plain(Head(todo')))
    BY <1>1, PlainQuiet, PlainStarts DEF Quiet
  <2>2. Handed'
    BY <2>1 DEF Handed, Plain, Later
  <2> QED
    BY <1>1, <2>1, <2>2, OrdersStay DEF Quiet
<1>2. CASE TakesNumber
  <2>1. PICK c, then, key, type, arg :
          /\ AtSelect \/ Doing("commit")
          /\ SendsAs(c, key, type, arg)
          /\ Journal!CommitOutbound(c) /\ WriteCommitted(c, next_out, then)
    BY <1>2 DEF TakesNumber
  <2>2. /\ key \notin DOMAIN commands
        /\ DOMAIN commands' = DOMAIN commands \cup {key}
        /\ commands'[key] = Journal!NewCommand(c)
        /\ \A k \in DOMAIN commands : commands'[k] = commands[k]
    BY <2>1, CommittedRow DEF Tables
  <2>3. /\ running /\ running' /\ ~InFlight /\ todo' # <<>>
        /\ Head(todo').do = "write" /\ Head(todo').frame = c.wire /\ Head(todo').key = key
        /\ UNCHANGED originals
    BY <2>1, WriteNext
  <2>4. c.wire.type = type /\ c.wire.arg = arg
    BY <2>1, SendsFrame
  <2>5. CopiesOK'
    BY <2>2, <2>3 DEF CopiesOK
  <2>6. [Ledger!Next]_(Ledger!ledger)
    BY <2>1, <2>3, CommitMaps DEF Tables, TablesOK
  <2>7. type # "D" => key \notin Requests
    <3>1. next_out \in Nat /\ next_event \in Nat
      BY <2>3 DEF Counting
    <3> QED
      BY <2>1, <3>1, AgentKeysDisjoint DEF SendsAs, AdminKeys
  <2>8. type = "D" => key \in Requests /\ arg = key
    BY <2>1 DEF SendsAs, AdminTypes
  <2>9. commands'[key].phase = "Journaled" /\ (key \in Requests => originals'[key] = 0)
    BY <2>2, <2>3 DEF Journal!NewCommand, CopiesOK
  <2>10. Booked(Head(todo).key, 0)'
    BY <2>2, <2>3, <2>9 DEF Booked
  <2>11. Handed'
    BY <2>3, <2>4, <2>7, <2>8, <2>10 DEF Handed
  <2>12. Leaves
    BY <2>2, <2>3 DEF Leaves, IsAtHand
  <2> QED
    BY <2>5, <2>6, <2>11, <2>12
<1>3. CASE Repeats
  <2>1. PICK c, then, key, type, arg, seq :
          /\ AtSelect \/ Doing("commit")
          /\ SendsAs(c, key, type, arg)
          /\ type = "D" => DirectSubmit
          /\ UNCHANGED journal /\ WriteCommitted(c, seq, then)
    BY <1>3 DEF Repeats
  <2>2. /\ running /\ Head(todo').do = "write" /\ Head(todo').frame = c.wire
        /\ Head(todo').key = key /\ UNCHANGED <<originals, commands>>
    BY <2>1, WriteNext DEF journal
  <2>3. type # "D" /\ c.wire.type = type
    BY <1>3, <2>1, SendsFrame
  <2>4. key \notin Requests
    <3>1. next_out \in Nat /\ next_event \in Nat
      BY <2>2 DEF Counting
    <3> QED
      BY <2>1, <2>3, <3>1, AgentKeysDisjoint DEF SendsAs, AdminKeys
  <2>5. Booked(Head(todo).key, 0)'
    BY <2>2, <2>4 DEF Booked
  <2>6. Handed'
    BY <2>2, <2>3, <2>4, <2>5 DEF Handed
  <2>7. Leaves /\ CopiesOK'
    BY <2>2, <2>4 DEF Leaves, IsAtHand, CopiesOK
  <2> QED
    BY <2>2, <2>6, <2>7, StutterMaps
<1>4. CASE WriteWire
  <2>1. /\ running /\ running' /\ todo # <<>> /\ Head(todo).do = "write"
        /\ todo' # <<>> /\ Head(todo').do = "mark" /\ Head(todo').key = Head(todo).key
        /\ UNCHANGED commands
    BY <1>4, MarkNext
  <2>2. originals' = IF Head(todo).frame.type = "D"
                     THEN [originals EXCEPT ![Head(todo).frame.arg] = @ + 1]
                     ELSE originals
    BY <1>4 DEF WriteWire
  <2>3. /\ CopiesOK'
        /\ Head(todo).key \in Requests =>
             /\ Head(todo).key \in DOMAIN commands
             /\ commands[Head(todo).key].phase = "Journaled"
             /\ originals'[Head(todo).key] = 1
        /\ [Ledger!Next]_(Ledger!ledger)
        /\ \A r \in Requests : ~IsAtHand(r) => originals'[r] = originals[r]
    BY <2>1, <2>2, OrderWritten
  <2>4. Booked(Head(todo).key, 1)'
    BY <2>1, <2>3 DEF Booked
  <2>5. Handed'
    BY <2>1, <2>4 DEF Handed
  <2>6. \A r : IsAtHand(r)' <=> IsAtHand(r)
    BY <2>1 DEF IsAtHand, InFlight, Doing
  <2>7. Leaves
    BY <2>1, <2>3, <2>6 DEF Leaves
  <2> QED
    BY <2>3, <2>5, <2>7
<1>5. CASE Marks
  <2> DEFINE job == Head(todo)
  <2>1. /\ running /\ todo # <<>> /\ job.do = "mark" /\ IsPlain(todo)'
        /\ Journal!MarkOutboundWritten(job.key, job.seq)
        /\ UNCHANGED originals
    BY <1>5, MarkOver
  <2>2. ~InFlight' /\ (todo' = <<>> \/ Plain(Head(todo')))
    BY <2>1, PlainQuiet, PlainStarts
  <2>3. job.key \in Requests => commands[job.key].phase = "Journaled" /\ originals[job.key] = 1
    BY <2>1 DEF Handed, Booked
  <2>4. IsAtHand(job.key)
    BY <2>1 DEF IsAtHand, InFlight, Doing
  <2> HIDE DEF job
  <2>5. [Ledger!Next]_(Ledger!ledger)
    BY <2>1, <2>3, MarkMaps DEF Tables
  <2>6. /\ DOMAIN commands' = DOMAIN commands
        /\ \A k \in DOMAIN commands : k # job.key => commands'[k] = commands[k]
    BY <2>1, MarkedRow DEF Tables
  <2>7. CopiesOK' /\ Leaves
    BY <2>1, <2>2, <2>4, <2>6 DEF CopiesOK, Leaves, IsAtHand
  <2>8. Handed'
    BY <2>2 DEF Handed, Plain, Later
  <2> QED
    BY <2>5, <2>7, <2>8
<1>6. CASE JournalReplay
  <2>1. ~InFlight' /\ Handed'
    BY <1>6, ReplayMoves DEF InFlight, Doing, Handed
  <2> QED
    BY <1>6, <2>1, ReplayMoves, OrdersStay
<1>7. CASE WriteReplayWire
  <2>1. ~InFlight' /\ Handed'
    BY <1>7, ReplayWritten DEF InFlight, Doing, Handed
  <2> QED
    BY <1>7, <2>1, ReplayWritten, OrdersStay
<1>8. CASE FailsWritten
  <2> DEFINE job == Head(todo)
  <2>1. /\ running /\ ~running' /\ todo # <<>> /\ UNCHANGED commands
        /\ job.do \in {"write", "write replay"}
        /\ originals' = IF job.frame.type = "D" /\ ~job.frame.possdup
                        THEN [originals EXCEPT ![job.frame.arg] = @ + 1]
                        ELSE originals
    BY <1>8 DEF FailsWritten, journal
  <2>2. ~InFlight' /\ Handed'
    BY <2>1 DEF InFlight, Doing, Handed
  <2>3. CASE UNCHANGED originals
    BY <2>1, <2>2, <2>3, OrdersStay
  <2>4. CASE ~UNCHANGED originals
    <3>1. job.do = "write"
      BY <2>1, <2>4 DEF Handed
    <3>2. originals' = IF job.frame.type = "D"
                       THEN [originals EXCEPT ![job.frame.arg] = @ + 1]
                       ELSE originals
      BY <2>1, <2>4
    <3>3. /\ CopiesOK' /\ [Ledger!Next]_(Ledger!ledger)
          /\ \A r \in Requests : ~IsAtHand(r) => originals'[r] = originals[r]
      BY <2>1, <3>1, <3>2, OrderWritten
    <3>4. Leaves
      BY <2>1, <2>2, <3>3 DEF Leaves, IsAtHand
    <3> QED
      BY <2>2, <3>3, <3>4
  <2> QED
    BY <2>3, <2>4
<1>9. CASE Connect \/ ResetJournal
  <2>1. /\ running' /\ UNCHANGED <<commands, originals>>
        /\ todo' = <<Logon>> \/ (todo' # <<>> /\ Head(todo').do = "reset")
    BY <1>9, LogonComes, ResetMoves
  <2>2. todo' = <<Logon>> => Head(todo').do = "commit"
    BY Single DEF Logon, Send
  <2>3. ~InFlight' /\ Handed'
    BY <2>1, <2>2 DEF InFlight, Doing, Handed
  <2> QED
    BY <2>1, <2>3, OrdersStay
<1>10. CASE UNCHANGED vars
  <2>1. UNCHANGED <<commands, originals, running, todo>>
    BY <1>10 DEF vars, journal, history
  <2>2. CopiesOK' /\ Handed' /\ Leaves
    BY <2>1 DEF CopiesOK, Handed, Booked, Leaves, IsAtHand, InFlight, Doing
  <2> QED
    BY <2>1, <2>2, StutterMaps
<1> QED
  BY <1>1, <1>2, <1>3, <1>4, <1>5, <1>6, <1>7, <1>8, <1>9, <1>10 DEF Moves

\* A step beside the actor that leaves it the order it has at hand.
LEMMA HandedBeside ==
  ASSUME Handed, UNCHANGED <<running, todo>>,
         \A r \in Requests : r \in DOMAIN commands /\ IsAtHand(r) =>
           r \in DOMAIN commands' /\ commands'[r] = commands[r] /\ originals'[r] = originals[r]
  PROVE  Handed'
<1> SUFFICES ASSUME running, todo # <<>> PROVE Handed'
  BY DEF Handed
<1> DEFINE job == Head(todo)
<1>1. job.do \in {"write", "mark"} => IsAtHand(job.key)
  BY DEF IsAtHand, InFlight, Doing
<1>2. \A n : job.do \in {"write", "mark"} /\ Booked(job.key, n) =>
        (job.key \in Requests =>
           /\ job.key \in DOMAIN commands' /\ commands'[job.key].phase = "Journaled"
           /\ originals'[job.key] = n)
  BY <1>1 DEF Booked
<1>3. Head(todo') = job
  OBVIOUS
<1> HIDE DEF job
<1>4. /\ job.do = "write" => Booked(Head(todo).key, 0)'
      /\ job.do = "mark" => Booked(Head(todo).key, 1)'
  <2>1. job = Head(todo)
    BY DEF job
  <2> QED
    BY <1>2, <1>3, <2>1 DEF Handed, Booked
<1> QED
  BY <1>3, <1>4 DEF Handed, job

\* At the start the tables are empty, and the actor has nothing to do.
LEMMA SharedInitial ==
  ASSUME Init
  PROVE  /\ Tables /\ RowsNamed /\ Listed /\ Counting /\ Wired
         /\ CopiesOK /\ Handed /\ ~running
<1>1. IInv
  BY IInvInitial
<1>2. commands = Journal!NoRows /\ DOMAIN commands = {} /\ ~running /\ todo = <<>>
  BY DEF Init, Journal!Init, Journal!NoRows
<1>3. Tables /\ RowsNamed /\ CopiesOK
  BY <1>1, <1>2 DEF IInv, Tables, TablesOK, RowsNamed
<1>4. Listed
  BY <1>2, NothingPlain DEF Listed
<1>5. Wired /\ Counting /\ Handed
  BY <1>1, <1>2 DEF IInv, Wired, Hand, Place, Counting, Handed
<1> QED
  BY <1>2, <1>3, <1>4, <1>5
=============================================================================
