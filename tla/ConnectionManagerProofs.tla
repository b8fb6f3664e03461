----------------------- MODULE ConnectionManagerProofs -----------------------
(***************************************************************************)
(* Proofs about ConnectionManager, for every number of clients and         *)
(* sessions, every capacity of the event channel and every back-off:       *)
(*                                                                         *)
(*   ManagerTyped    the types, with the back-off inside its range         *)
(*   ServesRequests  the refinement of SessionDirectory                    *)
(*                                                                         *)
(* The argument is the inductive invariant Kept.  A session that stopped   *)
(* has an empty mailbox; the manager's poll is at most once in a mailbox,  *)
(* of the latest session and only while the manager waits for the answer;  *)
(* an order is written for the client at the head of the mailbox; and the  *)
(* slot names the latest session exactly while the manager watches it.     *)
(***************************************************************************)
EXTENDS ConnectionManager, TLAPS

Callers == Clients \cup {"manager"}

SessionRecord == [phase : Phases, alive : BOOLEAN, mail : Seq(Callers),
                  writing : {"no", "admin", "order"}]

\* The poll is in the mailbox, and at most once.
Polled(mail) == \E i \in 1..Len(mail) : mail[i] = "manager"
PolledOnce(mail) ==
  \A i, j \in 1..Len(mail) : mail[i] = "manager" /\ mail[j] = "manager" => i = j

(***************************************************************************)
(* Mailboxes, and how clients see them.                                    *)
(***************************************************************************)
\* A mailbox is the function of its positions.
LEMMA ByPosition ==
  ASSUME NEW mail \in Seq(Callers)
  PROVE  mail = [i \in 1..Len(mail) |-> mail[i]]
OBVIOUS

\* The mailbox behind its head.
LEMMA Behind ==
  ASSUME NEW mail \in Seq(Callers), mail # <<>>
  PROVE  /\ Len(mail) \in Nat \ {0} /\ mail[1] = Head(mail)
         /\ Tail(mail) \in Seq(Callers) /\ Len(Tail(mail)) = Len(mail) - 1
         /\ \A i \in 1..(Len(mail) - 1) : Tail(mail)[i] = mail[i + 1]
         /\ Tail(mail) = [i \in 1..(Len(mail) - 1) |-> mail[i + 1]]
<1>1. /\ Len(mail) \in Nat \ {0} /\ mail[1] = Head(mail)
      /\ Tail(mail) \in Seq(Callers) /\ Len(Tail(mail)) = Len(mail) - 1
      /\ \A i \in 1..(Len(mail) - 1) : Tail(mail)[i] = mail[i + 1]
  OBVIOUS
<1>2. Tail(mail) = [i \in 1..(Len(mail) - 1) |-> Tail(mail)[i]]
  BY <1>1, ByPosition
<1>. QED BY <1>1, <1>2

\* A mailbox without a poll is what clients see of it.
LEMMA Unpolled ==
  ASSUME NEW mail \in Seq(Callers), ~Polled(mail)
  PROVE  WithoutPoll(mail) = mail
BY DEF WithoutPoll, Polled

\* A client's call is the last one, with a poll in the mailbox or without.
LEMMA Called ==
  ASSUME NEW mail \in Seq(Callers), NEW c \in Clients
  PROVE  WithoutPoll(Append(mail, c)) = Append(WithoutPoll(mail), c)
<1>1. c # "manager" BY ManagerConstants
<1>2. /\ Append(mail, c) \in Seq(Callers) /\ Len(Append(mail, c)) = Len(mail) + 1
      /\ Append(mail, c)[Len(mail) + 1] = c
      /\ \A i \in 1..Len(mail) : Append(mail, c)[i] = mail[i]
  BY DEF Callers
<1>3. Polled(Append(mail, c)) <=> Polled(mail)
  BY <1>1, <1>2 DEF Polled
<1>4. CASE ~Polled(mail)
  BY <1>2, <1>3, <1>4, Unpolled
<1>5. CASE Polled(mail)
  <2>1. Len(mail) \in Nat \ {0}
    BY <1>5 DEF Polled
  <2> DEFINE w == WithoutPoll(mail)
             early(i) == \E j \in 1..i : mail[j] = "manager"
  <2>2. w = [i \in 1..(Len(mail) - 1) |-> IF early(i) THEN mail[i + 1] ELSE mail[i]]
    BY <1>5 DEF WithoutPoll, Polled
  <2>3. \A i \in 1..(Len(mail) - 1) : w[i] \in Callers
    BY <2>1, <2>2
  <2>4. w \in Seq(Callers) /\ Len(w) = Len(mail) - 1
    BY <2>1, <2>2, <2>3
  <2>0. Len(Append(mail, c)) - 1 = Len(mail) /\ Polled(Append(mail, c))
    BY <1>2, <1>3, <1>5
  <2>5. WithoutPoll(Append(mail, c)) =
          [i \in 1..Len(mail) |-> IF \E j \in 1..i : Append(mail, c)[j] = "manager"
                                  THEN Append(mail, c)[i + 1] ELSE Append(mail, c)[i]]
    BY <2>0 DEF WithoutPoll, Polled
  <2>6. \A i \in 1..Len(mail) : (\E j \in 1..i : Append(mail, c)[j] = "manager") <=> early(i)
    BY <1>2
  <2>7. early(Len(mail))
    BY <1>5 DEF Polled
  <2>8. WithoutPoll(Append(mail, c)) =
          [i \in 1..Len(mail) |-> IF early(i) THEN Append(mail, c)[i + 1] ELSE Append(mail, c)[i]]
    BY <2>5, <2>6
  <2> HIDE DEF early
  <2>9. \A i \in 1..Len(mail) :
          (IF early(i) THEN Append(mail, c)[i + 1] ELSE Append(mail, c)[i]) =
          IF i = Len(mail) THEN c ELSE w[i]
    <3> SUFFICES ASSUME NEW i \in 1..Len(mail)
                 PROVE  (IF early(i) THEN Append(mail, c)[i + 1] ELSE Append(mail, c)[i]) =
                        IF i = Len(mail) THEN c ELSE w[i]
      OBVIOUS
    <3>1. CASE i = Len(mail)
      BY <1>2, <2>7, <3>1
    <3>2. CASE i # Len(mail)
      <4>1. i \in 1..(Len(mail) - 1) /\ i + 1 \in 1..Len(mail)
        BY <2>1, <3>2
      <4>2. w[i] = IF early(i) THEN mail[i + 1] ELSE mail[i]
        BY <2>2, <4>1
      <4>. QED BY <1>2, <3>2, <4>1, <4>2
    <3>. QED BY <3>1, <3>2
  <2> HIDE DEF w
  <2>10. WithoutPoll(Append(mail, c)) = [i \in 1..Len(mail) |-> IF i = Len(mail) THEN c ELSE w[i]]
    BY <2>8, <2>9
  <2>11. Append(w, c) = [i \in 1..Len(mail) |-> IF i = Len(mail) THEN c ELSE w[i]]
    <3>1. /\ Append(w, c) \in Seq(Callers) /\ Len(Append(w, c)) = Len(mail)
          /\ Append(w, c)[Len(mail)] = c
          /\ \A i \in 1..(Len(mail) - 1) : Append(w, c)[i] = w[i]
      BY <2>1, <2>4 DEF Callers
    <3>2. Append(w, c) = [i \in 1..Len(mail) |-> Append(w, c)[i]]
      BY <3>1, ByPosition
    <3>3. \A i \in 1..Len(mail) : Append(w, c)[i] = IF i = Len(mail) THEN c ELSE w[i]
      BY <2>1, <3>1
    <3>. QED BY <3>2, <3>3
  <2>. QED BY <2>10, <2>11 DEF w
<1>. QED BY <1>4, <1>5

\* The poll of the manager is not seen by clients.
LEMMA Asked ==
  ASSUME NEW mail \in Seq(Callers), ~Polled(mail)
  PROVE  WithoutPoll(Append(mail, "manager")) = mail
<1> DEFINE m == Append(mail, "manager")
<1>1. /\ m \in Seq(Callers) /\ Len(m) = Len(mail) + 1 /\ m[Len(mail) + 1] = "manager"
      /\ \A i \in 1..Len(mail) : m[i] = mail[i]
  BY DEF Callers
<1> HIDE DEF m
<1>2. Polled(m)
  BY <1>1 DEF Polled
<1>3. WithoutPoll(m) = [i \in 1..Len(mail) |-> IF \E j \in 1..i : m[j] = "manager"
                                               THEN m[i + 1] ELSE m[i]]
  BY <1>1, <1>2 DEF WithoutPoll, Polled
<1>4. \A i \in 1..Len(mail) : ~(\E j \in 1..i : m[j] = "manager") /\ m[i] = mail[i]
  BY <1>1 DEF Polled
<1>5. WithoutPoll(m) = [i \in 1..Len(mail) |-> mail[i]]
  BY <1>3, <1>4
<1>. QED BY <1>5 DEF m

\* A poll at the head: clients see what is behind it.
LEMMA PollFirst ==
  ASSUME NEW mail \in Seq(Callers), mail # <<>>, Head(mail) = "manager", PolledOnce(mail)
  PROVE  /\ ~Polled(Tail(mail))
         /\ WithoutPoll(mail) = WithoutPoll(Tail(mail))
<1>1. /\ Len(mail) \in Nat \ {0} /\ mail[1] = "manager"
      /\ Tail(mail) \in Seq(Callers) /\ Len(Tail(mail)) = Len(mail) - 1
      /\ \A i \in 1..(Len(mail) - 1) : Tail(mail)[i] = mail[i + 1]
  BY Behind
<1>2. \A i \in 1..(Len(mail) - 1) : i + 1 \in 1..Len(mail) /\ 1 \in 1..Len(mail) /\ i + 1 # 1
  BY <1>1
<1>3. \A i \in 1..(Len(mail) - 1) : Tail(mail)[i] # "manager"
  BY <1>1, <1>2 DEF PolledOnce
<1>4. ~Polled(Tail(mail))
  BY <1>1, <1>3 DEF Polled
<1>5. Polled(mail)
  BY <1>1 DEF Polled
<1>6. WithoutPoll(mail) = [i \in 1..(Len(mail) - 1) |->
        IF \E j \in 1..i : mail[j] = "manager" THEN mail[i + 1] ELSE mail[i]]
  BY <1>5 DEF WithoutPoll, Polled
<1>7. \A i \in 1..(Len(mail) - 1) : \E j \in 1..i : mail[j] = "manager"
  BY <1>1
<1>8. WithoutPoll(mail) = [i \in 1..(Len(mail) - 1) |-> mail[i + 1]]
  BY <1>6, <1>7
<1>9. Tail(mail) = [i \in 1..(Len(mail) - 1) |-> mail[i + 1]]
  BY Behind
<1>. QED BY <1>1, <1>4, <1>8, <1>9, Unpolled

\* A client at the head is the one that clients see there.
LEMMA ClientFirst ==
  ASSUME NEW mail \in Seq(Callers), mail # <<>>, Head(mail) \in Clients
  PROVE  /\ WithoutPoll(mail) # <<>>
         /\ Head(WithoutPoll(mail)) = Head(mail)
         /\ Tail(WithoutPoll(mail)) = WithoutPoll(Tail(mail))
<1>0. Head(mail) # "manager"
  BY ManagerConstants
<1>1. /\ Len(mail) \in Nat \ {0} /\ mail[1] # "manager" /\ mail[1] = Head(mail)
      /\ Tail(mail) \in Seq(Callers) /\ Len(Tail(mail)) = Len(mail) - 1
      /\ \A i \in 1..(Len(mail) - 1) : Tail(mail)[i] = mail[i + 1]
  BY <1>0, Behind
<1>2. Polled(mail) <=> Polled(Tail(mail))
  <2>1. ASSUME Polled(mail) PROVE Polled(Tail(mail))
    <3>1. PICK i \in 1..Len(mail) : mail[i] = "manager"
      BY <2>1 DEF Polled
    <3>2. i - 1 \in 1..(Len(mail) - 1) /\ (i - 1) + 1 = i
      BY <1>1, <3>1
    <3>. QED BY <1>1, <3>1, <3>2 DEF Polled
  <2>2. ASSUME Polled(Tail(mail)) PROVE Polled(mail)
    <3>1. PICK i \in 1..(Len(mail) - 1) : mail[i + 1] = "manager"
      BY <1>1, <2>2 DEF Polled
    <3>2. i + 1 \in 1..Len(mail)
      BY <1>1, <3>1
    <3>. QED BY <3>1, <3>2 DEF Polled
  <2>. QED BY <2>1, <2>2
<1>3. CASE ~Polled(mail)
  BY <1>1, <1>2, <1>3, Unpolled
<1>4. CASE Polled(mail)
  <2> DEFINE n == Len(mail)
             w == WithoutPoll(mail)
             early(i) == \E j \in 1..i : mail[j] = "manager"
  <2>1. PICK k \in 1..n : mail[k] = "manager"
    BY <1>4 DEF Polled
  <2>2. n \in Nat /\ n > 1
    BY <1>1, <2>1
  <2>3. w = [i \in 1..(n - 1) |-> IF early(i) THEN mail[i + 1] ELSE mail[i]]
    BY <1>4 DEF WithoutPoll, Polled
  <2>4. ~early(1)
    BY <1>1
  <2>5. \A i \in 1..(n - 1) : (\E j \in 1..i : Tail(mail)[j] = "manager") <=> early(i + 1)
    <3> SUFFICES ASSUME NEW i \in 1..(n - 1)
                 PROVE  (\E j \in 1..i : Tail(mail)[j] = "manager") <=> early(i + 1)
      OBVIOUS
    <3>1. ASSUME NEW j \in 1..i, Tail(mail)[j] = "manager" PROVE early(i + 1)
      <4>1. j + 1 \in 1..(i + 1) /\ j \in 1..(n - 1)
        BY <2>2
      <4>. QED BY <1>1, <3>1, <4>1
    <3>2. ASSUME NEW j \in 1..(i + 1), mail[j] = "manager"
          PROVE  \E l \in 1..i : Tail(mail)[l] = "manager"
      <4>1. j - 1 \in 1..i /\ j - 1 \in 1..(n - 1) /\ (j - 1) + 1 = j
        BY <1>1, <2>2, <3>2
      <4>. QED BY <1>1, <3>2, <4>1
    <3>. QED BY <3>1, <3>2
  <2>6. WithoutPoll(Tail(mail)) =
          [i \in 1..(n - 2) |-> IF \E j \in 1..i : Tail(mail)[j] = "manager"
                                THEN Tail(mail)[i + 1] ELSE Tail(mail)[i]]
    <3>1. Len(Tail(mail)) - 1 = n - 2 /\ Polled(Tail(mail))
      BY <1>1, <1>2, <1>4
    <3>. QED BY <3>1 DEF WithoutPoll, Polled
  <2>14. ~early(1)
    BY <2>4
  <2> HIDE DEF early
  <2>7. \A i \in 1..(n - 2) :
          (IF \E j \in 1..i : Tail(mail)[j] = "manager" THEN Tail(mail)[i + 1] ELSE Tail(mail)[i])
          = IF early(i + 1) THEN mail[(i + 1) + 1] ELSE mail[i + 1]
    <3> SUFFICES ASSUME NEW i \in 1..(n - 2)
                 PROVE  (IF \E j \in 1..i : Tail(mail)[j] = "manager"
                         THEN Tail(mail)[i + 1] ELSE Tail(mail)[i])
                        = IF early(i + 1) THEN mail[(i + 1) + 1] ELSE mail[i + 1]
      OBVIOUS
    <3>1. i \in 1..(n - 1) /\ i + 1 \in 1..(n - 1)
      BY <2>2
    <3>. QED BY <1>1, <2>5, <3>1
  <2>8. WithoutPoll(Tail(mail)) =
          [i \in 1..(n - 2) |-> IF early(i + 1) THEN mail[(i + 1) + 1] ELSE mail[i + 1]]
    BY <2>6, <2>7
  <2>9. w \in Seq(Callers) /\ Len(w) = n - 1
    <3>1. \A i \in 1..(n - 1) : w[i] \in Callers
      BY <2>2, <2>3
    <3>. QED BY <2>2, <2>3, <3>1
  <2>10. w # <<>> /\ Head(w) = w[1] /\ w[1] = mail[1]
    <3>1. w # <<>> /\ Head(w) = w[1]
      BY <2>2, <2>9
    <3>2. w[1] = IF early(1) THEN mail[1 + 1] ELSE mail[1]
      BY <2>2, <2>3
    <3>. QED BY <2>14, <3>1, <3>2
  <2>11. Tail(w) = [i \in 1..(n - 2) |-> w[i + 1]]
    <3>1. Len(w) - 1 = n - 2 /\ w # <<>>
      BY <2>2, <2>9
    <3>2. Tail(w) = [i \in 1..(Len(w) - 1) |-> w[i + 1]]
      BY <2>9, <3>1, Behind
    <3>. QED BY <3>1, <3>2
  <2>12. \A i \in 1..(n - 2) : w[i + 1] = IF early(i + 1) THEN mail[(i + 1) + 1] ELSE mail[i + 1]
    BY <2>2, <2>3
  <2> HIDE DEF w
  <2>13. Tail(w) = WithoutPoll(Tail(mail))
    BY <2>8, <2>11, <2>12
  <2>. QED BY <1>1, <2>10, <2>13 DEF w
<1>. QED BY <1>3, <1>4

(***************************************************************************)
(* The invariant.                                                          *)
(***************************************************************************)
\* What holds of one session; asked: the manager waits for its status.
Fit(s, asked) ==
  /\ ~s.alive => s.mail = <<>> /\ s.writing = "no"
  /\ PolledOnce(s.mail)
  /\ Polled(s.mail) => asked
  /\ s.writing = "order" => s.mail # <<>> /\ Head(s.mail) \in Clients
  /\ s.alive => s.phase # "Blocked"

Asking(g) == mgr = "polling" /\ g = latest

SlotFollows == slot = IF mgr \in {"watching", "polling", "ending"} THEN latest ELSE 0

Kept ==
  /\ SlotFollows
  /\ Holding => latest # 0
  /\ \A g \in Sessions : Fit(session[g], Asking(g))
  /\ \A g \in Sessions : latest < g => ~session[g].alive

IInv == ManagerTypeOK /\ Kept

\* A step of the session g, to the record s.
Becomes(g, s) ==
  /\ session' = [session EXCEPT ![g] = s]
  /\ UNCHANGED <<mgr, latest, slot, handle>>

\* A mailbox that is empty, or that lost its head, has no poll too many.
LEMMA Emptied ==
  /\ <<>> \in Seq(Callers) /\ ~Polled(<<>>) /\ PolledOnce(<<>>) /\ WithoutPoll(<<>>) = <<>>
  /\ \A asked \in BOOLEAN, phase \in Phases :
       /\ Stopped(phase) \in SessionRecord /\ Fit(Stopped(phase), asked)
       /\ ~Stopped(phase).alive
<1>1. <<>> \in Seq(Callers) /\ ~Polled(<<>>) /\ PolledOnce(<<>>)
  BY DEF Polled, PolledOnce
<1>2. WithoutPoll(<<>>) = <<>>
  BY <1>1, Unpolled
<1>. QED BY <1>1, <1>2 DEF Stopped, SessionRecord, Fit

\* Serving the head adds no poll to a mailbox.
LEMMA Served ==
  ASSUME NEW mail \in Seq(Callers), mail # <<>>, PolledOnce(mail)
  PROVE  PolledOnce(Tail(mail)) /\ (Polled(Tail(mail)) => Polled(mail))
<1>1. /\ Len(mail) \in Nat \ {0} /\ Len(Tail(mail)) = Len(mail) - 1
      /\ \A i \in 1..(Len(mail) - 1) : Tail(mail)[i] = mail[i + 1]
  BY Behind
<1>2. \A i \in 1..(Len(mail) - 1) : i + 1 \in 1..Len(mail)
  BY <1>1
<1>3. \A i, j \in 1..(Len(mail) - 1) : i + 1 = j + 1 => i = j
  OBVIOUS
<1>4. PolledOnce(Tail(mail))
  BY <1>1, <1>2, <1>3 DEF PolledOnce
<1>5. Polled(Tail(mail)) => Polled(mail)
  BY <1>1, <1>2 DEF Polled
<1>. QED BY <1>4, <1>5

\* A client's call at the end of a mailbox.
LEMMA CalledOnce ==
  ASSUME NEW mail \in Seq(Callers), NEW c \in Clients, PolledOnce(mail)
  PROVE  /\ Append(mail, c) \in Seq(Callers)
         /\ Append(mail, c) # <<>>
         /\ PolledOnce(Append(mail, c))
         /\ Polled(Append(mail, c)) => Polled(mail)
         /\ mail # <<>> => Head(Append(mail, c)) = Head(mail)
<1>1. c # "manager" BY ManagerConstants
<1>2. /\ Append(mail, c) \in Seq(Callers) /\ Len(Append(mail, c)) = Len(mail) + 1
      /\ Append(mail, c)[Len(mail) + 1] = c
      /\ \A i \in 1..Len(mail) : Append(mail, c)[i] = mail[i]
  BY DEF Callers
<1>3. PolledOnce(Append(mail, c)) /\ (Polled(Append(mail, c)) => Polled(mail))
  BY <1>1, <1>2 DEF Polled, PolledOnce
<1>4. mail # <<>> => Head(Append(mail, c)) = Head(mail)
  BY DEF Callers
<1>5. Append(mail, c) # <<>>
  BY <1>2
<1>. QED BY <1>2, <1>3, <1>4, <1>5

\* The poll at the end of a mailbox.
LEMMA AskedOnce ==
  ASSUME NEW mail \in Seq(Callers), ~Polled(mail)
  PROVE  /\ Append(mail, "manager") \in Seq(Callers)
         /\ Append(mail, "manager") # <<>>
         /\ PolledOnce(Append(mail, "manager"))
         /\ mail # <<>> => Head(Append(mail, "manager")) = Head(mail)
<1> DEFINE m == Append(mail, "manager")
<1>1. /\ m \in Seq(Callers) /\ Len(m) = Len(mail) + 1 /\ m # <<>>
      /\ \A i \in 1..Len(mail) : m[i] = mail[i]
      /\ mail # <<>> => Head(m) = Head(mail)
  BY DEF Callers
<1>2. \A i \in 1..Len(m) : m[i] = "manager" => i = Len(mail) + 1
  BY <1>1 DEF Polled
<1> HIDE DEF m
<1>3. PolledOnce(m)
  BY <1>2 DEF PolledOnce
<1>. QED BY <1>1, <1>3 DEF m

(***************************************************************************)
(* The steps of a session.                                                 *)
(***************************************************************************)
\* A step of one session that leaves it fit keeps the invariant, and is seen
\* as a step of that session.
LEMMA OneSession ==
  ASSUME IInv, NEW g \in Sessions, NEW s \in SessionRecord, Becomes(g, s),
         Fit(s, Asking(g)), s.alive => session[g].alive
  PROVE  /\ session' \in [Sessions -> SessionRecord]
         /\ Kept'
         /\ Seen' = [Seen EXCEPT ![g] = View(s)]
         /\ Watched' = Watched
<1>1. session \in [Sessions -> SessionRecord]
  BY DEF IInv, ManagerTypeOK, SessionRecord, Callers
<1>2. /\ session' = [session EXCEPT ![g] = s]
      /\ mgr' = mgr /\ latest' = latest /\ slot' = slot
  BY DEF Becomes
<1>3. session' \in [Sessions -> SessionRecord]
  BY <1>1, <1>2
<1>4. \A h \in Sessions : session'[h] = IF h = g THEN s ELSE session[h]
  BY <1>1, <1>2
<1>5. SlotFollows' /\ (Holding => latest # 0)'
  BY <1>2 DEF IInv, Kept, SlotFollows, Holding
<1>6. (\A h \in Sessions : Fit(session[h], Asking(h)))'
  <2>1. \A h \in Sessions : Fit(session[h], Asking(h))
    BY DEF IInv, Kept
  <2>2. \A h \in Sessions : Asking(h)' <=> Asking(h)
    BY <1>2 DEF Asking
  <2> SUFFICES ASSUME NEW h \in Sessions PROVE Fit(session'[h], Asking(h)')
    OBVIOUS
  <2>3. CASE h = g
    BY <1>4, <2>2, <2>3 DEF Fit
  <2>4. CASE h # g
    BY <1>4, <2>1, <2>2, <2>4 DEF Fit
  <2>. QED BY <2>3, <2>4
<1>7. (\A h \in Sessions : latest < h => ~session[h].alive)'
  BY <1>2, <1>4 DEF IInv, Kept
<1>8. Kept'
  BY <1>5, <1>6, <1>7 DEF Kept
<1>9. Seen' = [Seen EXCEPT ![g] = View(s)]
  <2>1. Seen' = [h \in Sessions |-> View(session'[h])]
    BY DEF Seen, View
  <2>2. [Seen EXCEPT ![g] = View(s)] = [h \in Sessions |-> IF h = g THEN View(s) ELSE View(session[h])]
    BY DEF Seen
  <2>3. \A h \in Sessions : View(session'[h]) = IF h = g THEN View(s) ELSE View(session[h])
    BY <1>4
  <2>. QED BY <2>1, <2>2, <2>3
<1>10. Watched' = Watched
  BY <1>2 DEF Watched, Holding
<1>. QED BY <1>3, <1>8, <1>9, <1>10

\* events.send keeps the channel inside its capacity.
LEMMA Broadcasts ==
  ASSUME IInv, NEW g \in Sessions, NEW phase \in Phases, Broadcast(g, phase)
  PROVE  events' \in Seq(Phases) /\ Len(events') <= EventCap
<1>1. events \in Seq(Phases) /\ Len(events) <= EventCap /\ EventCap \in Nat \ {0}
  BY ManagerConstants DEF IInv, ManagerTypeOK
<1>2. CASE events' = events
  BY <1>1, <1>2
<1>3. CASE events' = events \o <<phase>> /\ Len(events) < EventCap
  <2>1. events \o <<phase>> \in Seq(Phases) /\ Len(events \o <<phase>>) = Len(events) + 1
    BY <1>1
  <2>. QED BY <1>1, <1>3, <2>1
<1>4. CASE events' = Tail(events) \o <<phase>> /\ ~(Len(events) < EventCap)
  <2>1. Len(events) = EventCap /\ events # <<>>
    BY <1>1, <1>4
  <2>2. Tail(events) \in Seq(Phases) /\ Len(Tail(events)) = EventCap - 1
    BY <1>1, <2>1
  <2>3. Tail(events) \o <<phase>> \in Seq(Phases) /\ Len(Tail(events) \o <<phase>>) = EventCap
    BY <1>1, <2>2
  <2>. QED BY <1>1, <1>4, <2>3
<1>. QED BY <1>2, <1>3, <1>4 DEF Broadcast

\* The types and the invariant after a step of one session.
LEMMA OneSessionKept ==
  ASSUME IInv, NEW g \in Sessions, NEW s \in SessionRecord, Becomes(g, s),
         Fit(s, Asking(g)), s.alive => session[g].alive,
         events' \in Seq(Phases) /\ Len(events') <= EventCap,
         UNCHANGED <<established, delay>>
  PROVE  /\ IInv'
         /\ Seen' = [Seen EXCEPT ![g] = View(s)]
         /\ UNCHANGED <<latest, Watched, slot, handle>>
<1>1. session' \in [Sessions -> SessionRecord] /\ Kept'
      /\ Seen' = [Seen EXCEPT ![g] = View(s)] /\ Watched' = Watched
  BY OneSession
<1>2. ManagerTypeOK'
  BY <1>1 DEF IInv, ManagerTypeOK, Becomes, SessionRecord, Callers
<1>. QED BY <1>1, <1>2 DEF IInv, Becomes

\* A step that clients do not see.
LEMMA Unseen ==
  ASSUME UNCHANGED <<latest, Watched, slot, handle>>, Seen' = Seen
  PROVE  UNCHANGED Directory!directoryVars
BY DEF Directory!directoryVars, Directory!directory

\* What is known of a session, in its own words and as clients see it.
LEMMA Known ==
  ASSUME IInv, NEW g \in Sessions
  PROVE  /\ session[g] \in SessionRecord
         /\ Fit(session[g], Asking(g))
         /\ Seen[g] = View(session[g])
         /\ Seen = [Seen EXCEPT ![g] = View(session[g])]
         /\ Seen[g] = [stage |-> IF session[g].alive THEN StageOf(session[g].phase) ELSE "down",
                       alive |-> session[g].alive, mail |-> WithoutPoll(session[g].mail),
                       writing |-> session[g].writing = "order"]
         /\ session[g].alive => Seen[g].alive /\ Seen[g].stage = StageOf(session[g].phase)
         /\ Seen[g].mail = WithoutPoll(session[g].mail)
         /\ Seen[g].writing <=> session[g].writing = "order"
<1>1. session[g] \in SessionRecord /\ Fit(session[g], Asking(g))
  BY DEF IInv, ManagerTypeOK, Kept, SessionRecord, Callers
<1>2. Seen[g] = View(session[g]) /\ Seen = [Seen EXCEPT ![g] = View(session[g])]
  BY DEF Seen
<1>3. Seen[g] = [stage |-> IF session[g].alive THEN StageOf(session[g].phase) ELSE "down",
                 alive |-> session[g].alive, mail |-> WithoutPoll(session[g].mail),
                 writing |-> session[g].writing = "order"]
  BY <1>2 DEF View
<1>4. /\ Seen[g].alive = session[g].alive
      /\ Seen[g].stage = IF session[g].alive THEN StageOf(session[g].phase) ELSE "down"
      /\ Seen[g].mail = WithoutPoll(session[g].mail)
  BY <1>3
<1>5. Seen[g].writing = (session[g].writing = "order")
  <2>1. PICK writing : writing = (session[g].writing = "order")
    BY Zenon
  <2>2. Seen[g] = [stage |-> IF session[g].alive THEN StageOf(session[g].phase) ELSE "down",
                   alive |-> session[g].alive, mail |-> WithoutPoll(session[g].mail),
                   writing |-> writing]
    BY <1>3, <2>1, Zenon
  <2>3. Seen[g].writing = writing
    BY <2>2
  <2>. QED BY <2>1, <2>3, Zenon
<1>. QED BY <1>1, <1>2, <1>3, <1>4, <1>5

\* A record with one field changed, field by field.
LEMMA OneField ==
  ASSUME NEW a, NEW b, NEW c, NEW d, NEW r, NEW x,
         r = [phase |-> a, alive |-> b, mail |-> c, writing |-> d]
  PROVE  /\ [r EXCEPT !.phase = x] = [phase |-> x, alive |-> b, mail |-> c, writing |-> d]
         /\ [r EXCEPT !.mail = x] = [phase |-> a, alive |-> b, mail |-> x, writing |-> d]
         /\ [r EXCEPT !.writing = x] = [phase |-> a, alive |-> b, mail |-> c, writing |-> x]
OBVIOUS

\* A record of a session with a field or two changed.
LEMMA Updated ==
  ASSUME NEW s \in SessionRecord, NEW phase, NEW mail, NEW w
  PROVE  /\ [s EXCEPT !.phase = phase] =
              [phase |-> phase, alive |-> s.alive, mail |-> s.mail, writing |-> s.writing]
         /\ [s EXCEPT !.writing = w] =
              [phase |-> s.phase, alive |-> s.alive, mail |-> s.mail, writing |-> w]
         /\ [s EXCEPT !.mail = mail] =
              [phase |-> s.phase, alive |-> s.alive, mail |-> mail, writing |-> s.writing]
         /\ [s EXCEPT !.mail = mail, !.writing = w] =
              [phase |-> s.phase, alive |-> s.alive, mail |-> mail, writing |-> w]
<1>1. s = [phase |-> s.phase, alive |-> s.alive, mail |-> s.mail, writing |-> s.writing]
  BY DEF SessionRecord
<1>2. PICK r : r = [s EXCEPT !.mail = mail]
  OBVIOUS
<1>3. r = [phase |-> s.phase, alive |-> s.alive, mail |-> mail, writing |-> s.writing]
  BY <1>1, <1>2, OneField
<1>4. [r EXCEPT !.writing = w] =
        [phase |-> s.phase, alive |-> s.alive, mail |-> mail, writing |-> w]
  BY <1>3, OneField
<1>5. /\ [s EXCEPT !.phase = phase] =
           [phase |-> phase, alive |-> s.alive, mail |-> s.mail, writing |-> s.writing]
      /\ [s EXCEPT !.writing = w] =
           [phase |-> s.phase, alive |-> s.alive, mail |-> s.mail, writing |-> w]
  BY <1>1, OneField
<1>6. [s EXCEPT !.mail = mail, !.writing = w] = [r EXCEPT !.writing = w]
  BY <1>2
<1>. QED BY <1>2, <1>3, <1>4, <1>5, <1>6

\* The same for the two fields that a Logout changes.
LEMMA UpdatedPhase ==
  ASSUME NEW s \in SessionRecord, NEW phase, NEW mail
  PROVE  [s EXCEPT !.mail = mail, !.phase = phase] =
         [phase |-> phase, alive |-> s.alive, mail |-> mail, writing |-> s.writing]
<1>1. s = [phase |-> s.phase, alive |-> s.alive, mail |-> s.mail, writing |-> s.writing]
  BY DEF SessionRecord
<1>2. PICK r : r = [s EXCEPT !.mail = mail]
  OBVIOUS
<1>3. r = [phase |-> s.phase, alive |-> s.alive, mail |-> mail, writing |-> s.writing]
  BY <1>1, <1>2, OneField
<1>4. [r EXCEPT !.phase = phase] =
        [phase |-> phase, alive |-> s.alive, mail |-> mail, writing |-> s.writing]
  BY <1>3, OneField
<1>5. [s EXCEPT !.mail = mail, !.phase = phase] = [r EXCEPT !.phase = phase]
  BY <1>2
<1>. QED BY <1>4, <1>5

\* What is seen of a session, with one field changed or as a call leaves it.
LEMMA SeenUpdated ==
  ASSUME NEW r, NEW stage, NEW alive, NEW mail, NEW writing, NEW x,
         r = [stage |-> stage, alive |-> alive, mail |-> mail, writing |-> writing]
  PROVE  /\ [r EXCEPT !.stage = x] = [stage |-> x, alive |-> alive, mail |-> mail, writing |-> writing]
         /\ [r EXCEPT !.writing = x] = [stage |-> stage, alive |-> alive, mail |-> mail, writing |-> x]
         /\ [r EXCEPT !.mail = x] = [stage |-> stage, alive |-> alive, mail |-> x, writing |-> writing]
OBVIOUS

\* The step of SessionDirectory in which a call is answered.
LEMMA AnswerSeen ==
  ASSUME IInv, NEW g \in Sessions, NEW next
  PROVE  [Seen EXCEPT ![g].mail = Tail(@), ![g].writing = FALSE, ![g].stage = next] =
         [Seen EXCEPT ![g] = [stage |-> next, alive |-> session[g].alive,
                              mail |-> Tail(Seen[g].mail), writing |-> FALSE]]
<1>0. PICK stage, alive, mail, writing :
        /\ alive = session[g].alive
        /\ Seen[g] = [stage |-> stage, alive |-> alive, mail |-> mail, writing |-> writing]
  <2>1. Seen[g] = [stage |-> IF session[g].alive THEN StageOf(session[g].phase) ELSE "down",
                   alive |-> session[g].alive, mail |-> WithoutPoll(session[g].mail),
                   writing |-> session[g].writing = "order"]
    BY Known
  <2>2. PICK stage : stage = IF session[g].alive THEN StageOf(session[g].phase) ELSE "down"
    BY Zenon
  <2>3. PICK writing : writing = (session[g].writing = "order")
    BY Zenon
  <2>4. Seen[g] = [stage |-> stage, alive |-> session[g].alive,
                   mail |-> WithoutPoll(session[g].mail), writing |-> writing]
    BY <2>1, <2>2, <2>3, Zenon
  <2>. QED BY <2>4, Zenon
<1>1. PICK behind, no : behind = Tail(Seen[g].mail) /\ no = FALSE
  BY Zenon
<1>2. PICK now, r : now = Seen[g] /\ r = [now EXCEPT !.mail = behind]
  OBVIOUS
<1>3. r = [stage |-> stage, alive |-> alive, mail |-> behind, writing |-> writing]
  <2>1. now = [stage |-> stage, alive |-> alive, mail |-> mail, writing |-> writing]
    BY <1>0, <1>2
  <2>. QED BY <1>2, <2>1
<1>4. PICK q : q = [r EXCEPT !.writing = no]
  OBVIOUS
<1>5. q = [stage |-> stage, alive |-> alive, mail |-> behind, writing |-> no]
  BY <1>3, <1>4, SeenUpdated
<1>6. [q EXCEPT !.stage = next] = [stage |-> next, alive |-> alive, mail |-> behind, writing |-> no]
  BY <1>5, SeenUpdated
<1>7. [Seen EXCEPT ![g].mail = Tail(@), ![g].writing = no, ![g].stage = next] =
      [Seen EXCEPT ![g] = [Seen[g] EXCEPT !.mail = Tail(Seen[g].mail),
                                          !.writing = no, !.stage = next]]
  OBVIOUS
<1>8. [Seen[g] EXCEPT !.mail = Tail(Seen[g].mail), !.writing = no, !.stage = next] =
      [q EXCEPT !.stage = next]
  BY <1>1, <1>2, <1>4
<1>9. [Seen EXCEPT ![g].mail = Tail(@), ![g].writing = no, ![g].stage = next] =
      [Seen EXCEPT ![g] = [stage |-> next, alive |-> alive, mail |-> behind, writing |-> no]]
  BY <1>6, <1>7, <1>8
<1>. QED BY <1>0, <1>1, <1>9, Zenon

\* What may follow what, as far as clients can tell.
LEMMA Following ==
  ASSUME NEW g, NEW p \in Phases, p # "Blocked", NEW q \in Life(g)!Follows[p]
  PROVE  /\ q # "Blocked"
         /\ q = "Established" => p \in {"LogonSent", "Recovering"}
         /\ q = "LogoutSent" => p \in {"LogonSent", "Established", "Recovering"}
<1>1. CASE p = "Connecting"   BY <1>1 DEF Life!Follows
<1>2. CASE p = "LogonSent"    BY <1>2 DEF Life!Follows
<1>3. CASE p = "Established"  BY <1>3 DEF Life!Follows
<1>4. CASE p = "Recovering"   BY <1>4 DEF Life!Follows
<1>5. CASE p = "LogoutSent"   BY <1>5 DEF Life!Follows
<1>6. CASE p = "Disconnected" BY <1>6 DEF Life!Follows
<1>. QED BY <1>1, <1>2, <1>3, <1>4, <1>5, <1>6 DEF Phases

\* set_phase is a change of stage, or none.
LEMMA MovesKeeps ==
  ASSUME IInv, NEW g \in Sessions, NEW phase \in Phases, Moves(g, phase)
  PROVE  IInv' /\ [Directory!Next]_Directory!directoryVars
<1> DEFINE s == [phase |-> phase, alive |-> session[g].alive,
                 mail |-> session[g].mail, writing |-> session[g].writing]
<1>1. /\ session[g] \in SessionRecord /\ session[g].alive /\ session[g].writing = "no"
      /\ Fit(session[g], Asking(g))
  BY Known DEF Moves, Selects
<1>2. s \in SessionRecord /\ Fit(s, Asking(g))
  <2>1. phase # "Blocked"
    BY <1>1, Following DEF Moves, Fit, SessionRecord
  <2>. QED BY <1>1, <2>1 DEF SessionRecord, Fit
<1>3. [session[g] EXCEPT !.phase = phase] = s
  BY <1>1, Updated
<1>4. Becomes(g, s)
  BY <1>3 DEF Moves, Becomes
<1>5. events' \in Seq(Phases) /\ Len(events') <= EventCap
  BY Broadcasts DEF Moves
<1>6. UNCHANGED <<established, delay>>
  BY DEF Moves
<1>7. View(s) = [stage |-> StageOf(phase), alive |-> session[g].alive,
                 mail |-> WithoutPoll(session[g].mail), writing |-> session[g].writing = "order"]
  BY <1>1 DEF View
<1>8. Seen[g] = [stage |-> StageOf(session[g].phase), alive |-> session[g].alive,
                 mail |-> WithoutPoll(session[g].mail), writing |-> session[g].writing = "order"]
  BY <1>1, Known
<1>9. s.alive => session[g].alive
  BY <1>1
<1> HIDE DEF s
<1>10. /\ IInv' /\ Seen' = [Seen EXCEPT ![g] = View(s)]
       /\ UNCHANGED <<latest, Watched, slot, handle>>
  BY <1>2, <1>4, <1>5, <1>6, <1>9, OneSessionKept
<1>11. CASE StageOf(phase) = StageOf(session[g].phase)
  <2>1. View(s) = View(session[g])
    BY <1>7, <1>8, <1>11, Known, Zenon
  <2>2. Seen' = Seen
    BY <1>10, <2>1, Known, Zenon
  <2>. QED BY <1>10, <2>2, Unseen
<1>12. CASE StageOf(phase) # StageOf(session[g].phase)
  <2>1. StageOf(phase) \in Directory!Stages
    BY DEF StageOf, Directory!Stages
  <2>2. ~(StageOf(session[g].phase) = "down" /\ StageOf(phase) = "open")
    <3> SUFFICES ASSUME StageOf(phase) = "open" PROVE StageOf(session[g].phase) # "down"
      OBVIOUS
    <3>1. phase = "Established"
      BY DEF StageOf
    <3>2. phase \in Life(g)!Follows[session[g].phase]
      BY DEF Moves
    <3>3. session[g].phase \in {"LogonSent", "Recovering"}
      BY <1>1, <3>1, <3>2, Following DEF Fit, SessionRecord
    <3>. QED BY <3>3 DEF StageOf
  <2>3. [Seen[g] EXCEPT !.stage = StageOf(phase)] = View(s)
    <3>1. PICK writing : writing = (session[g].writing = "order")
      BY Zenon
    <3>2. Seen[g] = [stage |-> StageOf(session[g].phase), alive |-> session[g].alive,
                     mail |-> WithoutPoll(session[g].mail), writing |-> writing]
      BY <1>8, <3>1, Zenon
    <3>3. View(s) = [stage |-> StageOf(phase), alive |-> session[g].alive,
                     mail |-> WithoutPoll(session[g].mail), writing |-> writing]
      BY <1>7, <3>1, Zenon
    <3>4. [Seen[g] EXCEPT !.stage = StageOf(phase)] =
            [stage |-> StageOf(phase), alive |-> session[g].alive,
             mail |-> WithoutPoll(session[g].mail), writing |-> writing]
      BY <3>2, SeenUpdated
    <3>. QED BY <3>3, <3>4
  <2>4. Seen[g].alive /\ ~Seen[g].writing /\ Seen[g].stage = StageOf(session[g].phase)
    BY <1>1, Known
  <2>5. Seen' = [Seen EXCEPT ![g].stage = StageOf(phase)]
    BY <1>10, <2>3
  <2>6. Directory!ChangesStage(g, StageOf(phase))
    BY <1>10, <1>12, <2>2, <2>4, <2>5 DEF Directory!ChangesStage, Directory!directory
  <2>. QED BY <1>10, <2>1, <2>6 DEF Directory!Next, Sessions, Directory!Sessions
<1>. QED BY <1>11, <1>12

\* The writes of a session's own are not seen.
LEMMA WritingKeeps ==
  ASSUME IInv, NEW g \in Sessions, StartsWriting(g) \/ EndsWriting(g)
  PROVE  IInv' /\ [Directory!Next]_Directory!directoryVars
<1>1. PICK w \in {"no", "admin"} :
        /\ session' = [session EXCEPT ![g].writing = w]
        /\ UNCHANGED <<mgr, latest, slot, handle, events, established, delay>>
  BY DEF StartsWriting, EndsWriting
<1>2. /\ session[g] \in SessionRecord /\ session[g].alive /\ session[g].writing # "order"
      /\ Fit(session[g], Asking(g))
  BY Known DEF StartsWriting, EndsWriting, Selects
<1> DEFINE s == [phase |-> session[g].phase, alive |-> TRUE, mail |-> session[g].mail, writing |-> w]
<1>3. s \in SessionRecord /\ Fit(s, Asking(g))
  BY <1>2 DEF SessionRecord, Fit
<1>4. [session[g] EXCEPT !.writing = w] = s
  BY <1>2, Updated
<1>5. Becomes(g, s)
  BY <1>1, <1>4 DEF Becomes
<1>6. View(s) = View(session[g])
  BY <1>2 DEF View
<1>7. events' \in Seq(Phases) /\ Len(events') <= EventCap
  BY <1>1 DEF IInv, ManagerTypeOK
<1>9. s.alive => session[g].alive
  BY <1>2
<1> HIDE DEF s
<1>10. /\ IInv' /\ Seen' = [Seen EXCEPT ![g] = View(s)]
       /\ UNCHANGED <<latest, Watched, slot, handle>>
  BY <1>1, <1>3, <1>5, <1>7, <1>9, OneSessionKept
<1>11. Seen' = Seen
  BY <1>6, <1>10, Known
<1>. QED BY <1>10, <1>11, Unseen

\* What is seen of a session that stopped.
LEMMA SeenStopped ==
  ASSUME NEW phase \in Phases
  PROVE  View(Stopped(phase)) = Directory!Stopped
BY Emptied DEF View, Stopped, Directory!Stopped

\* A session that stops: while an order is written, the order's client is
\* answered by it.
LEMMA EndsKeeps ==
  ASSUME IInv, NEW g \in Sessions, NEW phase \in Phases, Ends(g, phase)
  PROVE  IInv' /\ [Directory!Next]_Directory!directoryVars
<1>1. session[g] \in SessionRecord /\ session[g].alive /\ Fit(session[g], Asking(g))
  BY Known DEF Ends
<1>2. Stopped(phase) \in SessionRecord /\ Fit(Stopped(phase), Asking(g)) /\ ~Stopped(phase).alive
  BY Emptied DEF Asking
<1>3. Becomes(g, Stopped(phase)) /\ UNCHANGED <<established, delay>>
  BY DEF Ends, Becomes
<1>4. events' \in Seq(Phases) /\ Len(events') <= EventCap
  BY Broadcasts DEF Ends
<1>5. /\ IInv' /\ Seen' = [Seen EXCEPT ![g] = Directory!Stopped]
      /\ UNCHANGED <<latest, Watched, slot, handle>>
  BY <1>2, <1>3, <1>4, OneSessionKept, SeenStopped
<1>6. CASE session[g].writing # "order"
  <2>1. Seen[g].alive /\ ~Seen[g].writing
    BY <1>1, <1>6, Known
  <2>2. Directory!Stops(g)
    BY <1>5, <2>1 DEF Directory!Stops, Directory!directory
  <2>. QED BY <1>5, <2>2 DEF Directory!Next, Sessions, Directory!Sessions
<1>7. CASE session[g].writing = "order"
  <2>1. session[g].mail \in Seq(Callers) /\ session[g].mail # <<>> /\ Head(session[g].mail) \in Clients
    BY <1>1, <1>7 DEF Fit, SessionRecord
  <2>2. PICK c \in Clients : c = Head(session[g].mail)
    BY <2>1
  <2>3. WithoutPoll(session[g].mail) # <<>> /\ Head(WithoutPoll(session[g].mail)) = c
    BY <2>1, <2>2, ClientFirst
  <2>4. Seen[g].alive /\ Seen[g].mail # <<>> /\ Head(Seen[g].mail) = c
    BY <1>1, <2>3, Known
  <2>5. Directory!AnswersAndStops(g, c)
    BY <1>5, <2>4 DEF Directory!AnswersAndStops, Directory!IsNext, Directory!directory
  <2>. QED BY <1>5, <2>5 DEF Directory!Next, Sessions, Directory!Sessions
<1>. QED BY <1>6, <1>7

\* A session that nobody holds stops.
LEMMA AbandonedKeeps ==
  ASSUME IInv, NEW g \in Sessions, Abandoned(g)
  PROVE  IInv' /\ [Directory!Next]_Directory!directoryVars
<1>1. /\ session[g] \in SessionRecord /\ session[g].phase \in Phases
      /\ session[g].alive /\ session[g].writing = "no"
  BY Known DEF Abandoned, Selects, SessionRecord
<1>2. PICK phase \in Phases : phase = session[g].phase
  BY <1>1
<1>3. Stopped(phase) \in SessionRecord /\ Fit(Stopped(phase), Asking(g)) /\ ~Stopped(phase).alive
  BY Emptied DEF Asking
<1>4. Becomes(g, Stopped(phase)) /\ UNCHANGED <<established, delay>>
  BY <1>2 DEF Abandoned, Becomes
<1>5. events' \in Seq(Phases) /\ Len(events') <= EventCap
  BY DEF Abandoned, IInv, ManagerTypeOK
<1>6. /\ IInv' /\ Seen' = [Seen EXCEPT ![g] = Directory!Stopped]
      /\ UNCHANGED <<latest, Watched, slot, handle>>
  BY <1>3, <1>4, <1>5, OneSessionKept, SeenStopped
<1>7. Seen[g].alive /\ ~Seen[g].writing
  BY <1>1, Known
<1>8. Watched # g
  <2>1. g # 0
    BY DEF Sessions
  <2>. QED BY <2>1 DEF Abandoned, Watched
<1>9. slot # g /\ \A c \in Clients : handle[c] # g
  BY DEF Abandoned
<1>10. Directory!Abandoned(g)
  BY <1>6, <1>7, <1>8, <1>9 DEF Directory!Abandoned, Directory!directory
<1>. QED BY <1>6, <1>10 DEF Directory!Next, Sessions, Directory!Sessions

\* A client that is served: it is answered in the same phase, logs the
\* session out, or waits for its order to be written.
LEMMA ServesClientKeeps ==
  ASSUME IInv, NEW g \in Sessions, NEW c \in Clients, ServesClient(g, c)
  PROVE  IInv' /\ [Directory!Next]_Directory!directoryVars
<1>1. /\ session[g] \in SessionRecord /\ Fit(session[g], Asking(g))
      /\ session[g].alive /\ session[g].mail # <<>> /\ Head(session[g].mail) = c
      /\ session[g].mail \in Seq(Callers)
  BY Known DEF ServesClient, IsNext, SessionRecord
<1>2. /\ Tail(session[g].mail) \in Seq(Callers) /\ PolledOnce(Tail(session[g].mail))
      /\ Polled(Tail(session[g].mail)) => Asking(g)
  BY <1>1, Behind, Served DEF Fit
<1>3. /\ WithoutPoll(session[g].mail) # <<>>
      /\ Head(WithoutPoll(session[g].mail)) = c
      /\ Tail(WithoutPoll(session[g].mail)) = WithoutPoll(Tail(session[g].mail))
  BY <1>1, ClientFirst
<1>4. /\ Seen[g].alive /\ Seen[g].mail = WithoutPoll(session[g].mail)
      /\ Seen[g].stage = StageOf(session[g].phase)
      /\ Seen[g].writing <=> session[g].writing = "order"
  BY <1>1, Known
<1>5. Directory!IsNext(g, c)
  BY <1>3, <1>4 DEF Directory!IsNext
<1>6. PICK writing : writing = (session[g].writing = "order")
  BY Zenon
<1>7. Seen[g] = [stage |-> StageOf(session[g].phase), alive |-> session[g].alive,
                 mail |-> WithoutPoll(session[g].mail), writing |-> writing]
  BY <1>1, <1>6, Known, Zenon
<1>8. UNCHANGED <<mgr, latest, slot, handle, established, delay>>
  BY DEF ServesClient
<1>9. CASE /\ session' = [session EXCEPT ![g].mail = Tail(session[g].mail), ![g].writing = "no"]
           /\ UNCHANGED events
  <2> DEFINE s == [phase |-> session[g].phase, alive |-> session[g].alive,
                   mail |-> Tail(session[g].mail), writing |-> "no"]
  <2>1. s \in SessionRecord /\ Fit(s, Asking(g)) /\ (s.alive => session[g].alive)
    BY <1>1, <1>2 DEF SessionRecord, Fit
  <2>2. session' = [session EXCEPT ![g] =
                      [session[g] EXCEPT !.mail = Tail(session[g].mail), !.writing = "no"]]
    BY <1>9
  <2>3. session' = [session EXCEPT ![g] = s]
    <3>1. [session[g] EXCEPT !.mail = Tail(session[g].mail), !.writing = "no"] = s
      BY <1>1, Updated
    <3>. QED BY <2>2, <3>1
  <2>4. Becomes(g, s)
    BY <1>8, <2>3 DEF Becomes
  <2>5. events' \in Seq(Phases) /\ Len(events') <= EventCap
    BY <1>9 DEF IInv, ManagerTypeOK
  <2>6. View(s) = [stage |-> StageOf(session[g].phase), alive |-> session[g].alive,
                   mail |-> WithoutPoll(Tail(session[g].mail)), writing |-> FALSE]
    BY <1>1 DEF View
  <2> HIDE DEF s
  <2>7. /\ IInv' /\ Seen' = [Seen EXCEPT ![g] = View(s)]
        /\ UNCHANGED <<latest, Watched, slot, handle>>
    BY <1>8, <2>1, <2>4, <2>5, OneSessionKept
  <2>8. View(s) = [stage |-> Seen[g].stage, alive |-> session[g].alive,
                   mail |-> Tail(Seen[g].mail), writing |-> FALSE]
    BY <1>3, <1>4, <2>6
  <2>9. Seen' = [Seen EXCEPT ![g].mail = Tail(@), ![g].writing = FALSE, ![g].stage = Seen[g].stage]
    <3>1. PICK stage : stage = Seen[g].stage
      OBVIOUS
    <3>2. [Seen EXCEPT ![g].mail = Tail(@), ![g].writing = FALSE, ![g].stage = stage] =
          [Seen EXCEPT ![g] = [stage |-> stage, alive |-> session[g].alive,
                               mail |-> Tail(Seen[g].mail), writing |-> FALSE]]
      BY AnswerSeen
    <3>. QED BY <2>7, <2>8, <3>1, <3>2, Zenon
  <2>10. Directory!Answers(g, c, Seen[g].stage)
    BY <1>5, <2>7, <2>9 DEF Directory!Answers, Directory!directory
  <2>. QED BY <2>7, <2>10 DEF Directory!Next, Sessions, Directory!Sessions
<1>10. CASE /\ Selects(g) /\ "LogoutSent" \in Life(g)!Follows[session[g].phase]
            /\ session' = [session EXCEPT ![g].mail = Tail(session[g].mail), ![g].phase = "LogoutSent"]
            /\ Broadcast(g, "LogoutSent")
  <2> DEFINE s == [phase |-> "LogoutSent", alive |-> session[g].alive,
                   mail |-> Tail(session[g].mail), writing |-> session[g].writing]
  <2>0. session[g].writing = "no"
    BY <1>10 DEF Selects
  <2>1. s \in SessionRecord /\ Fit(s, Asking(g)) /\ (s.alive => session[g].alive)
    BY <1>1, <1>2, <2>0 DEF SessionRecord, Fit, Phases
  <2>2. session' = [session EXCEPT ![g] =
                      [session[g] EXCEPT !.mail = Tail(session[g].mail), !.phase = "LogoutSent"]]
    BY <1>10
  <2>3. session' = [session EXCEPT ![g] = s]
    <3>1. PICK phase : phase = "LogoutSent"
      OBVIOUS
    <3>2. [session[g] EXCEPT !.mail = Tail(session[g].mail), !.phase = phase] =
            [phase |-> phase, alive |-> session[g].alive,
             mail |-> Tail(session[g].mail), writing |-> session[g].writing]
      BY <1>1, UpdatedPhase
    <3>. QED BY <2>2, <3>1, <3>2
  <2>4. Becomes(g, s)
    BY <1>8, <2>3 DEF Becomes
  <2>5. events' \in Seq(Phases) /\ Len(events') <= EventCap
    BY <1>10, Broadcasts DEF Phases
  <2>6. View(s) = [stage |-> "down", alive |-> session[g].alive,
                   mail |-> WithoutPoll(Tail(session[g].mail)), writing |-> FALSE]
    BY <1>1, <2>0 DEF View, StageOf
  <2> HIDE DEF s
  <2>7. /\ IInv' /\ Seen' = [Seen EXCEPT ![g] = View(s)]
        /\ UNCHANGED <<latest, Watched, slot, handle>>
    BY <1>8, <2>1, <2>4, <2>5, OneSessionKept
  <2>8. View(s) = [stage |-> "down", alive |-> session[g].alive,
                   mail |-> Tail(Seen[g].mail), writing |-> FALSE]
    BY <1>3, <1>4, <2>6
  <2>12. Seen' = [Seen EXCEPT ![g].mail = Tail(@), ![g].writing = FALSE, ![g].stage = "down"]
    <3>1. PICK stage : stage = "down"
      OBVIOUS
    <3>2. [Seen EXCEPT ![g].mail = Tail(@), ![g].writing = FALSE, ![g].stage = stage] =
          [Seen EXCEPT ![g] = [stage |-> stage, alive |-> session[g].alive,
                               mail |-> Tail(Seen[g].mail), writing |-> FALSE]]
      BY AnswerSeen
    <3>. QED BY <2>7, <2>8, <3>1, <3>2, Zenon
  <2>9. Directory!Answers(g, c, "down")
    BY <1>5, <2>7, <2>12 DEF Directory!Answers, Directory!directory
  <2>10. ~Seen[g].writing
    BY <1>4, <2>0
  <2>11. Seen[g].stage # "down"
    <3>1. session[g].phase \in Phases /\ session[g].phase # "Blocked"
      BY <1>1 DEF SessionRecord, Fit
    <3>2. session[g].phase \in {"LogonSent", "Established", "Recovering"}
      BY <1>10, <3>1, Following
    <3>. QED BY <1>4, <3>2 DEF StageOf
  <2>. QED BY <2>7, <2>9, <2>10, <2>11 DEF Directory!Next, Sessions, Directory!Sessions
<1>11. CASE /\ Selects(g) /\ session[g].phase = "Established"
            /\ session' = [session EXCEPT ![g].writing = "order"]
            /\ UNCHANGED events
  <2> DEFINE s == [phase |-> session[g].phase, alive |-> session[g].alive,
                   mail |-> session[g].mail, writing |-> "order"]
  <2>0. session[g].writing = "no"
    BY <1>11 DEF Selects
  <2>1. s \in SessionRecord /\ Fit(s, Asking(g)) /\ (s.alive => session[g].alive)
    BY <1>1 DEF SessionRecord, Fit
  <2>2. session' = [session EXCEPT ![g] = s]
    BY <1>1, <1>11, Updated
  <2>3. Becomes(g, s)
    BY <1>8, <2>2 DEF Becomes
  <2>4. events' \in Seq(Phases) /\ Len(events') <= EventCap
    BY <1>11 DEF IInv, ManagerTypeOK
  <2>5. View(s) = [stage |-> StageOf(session[g].phase), alive |-> session[g].alive,
                   mail |-> WithoutPoll(session[g].mail), writing |-> TRUE]
    BY <1>1 DEF View
  <2> HIDE DEF s
  <2>6. /\ IInv' /\ Seen' = [Seen EXCEPT ![g] = View(s)]
        /\ UNCHANGED <<latest, Watched, slot, handle>>
    BY <1>8, <2>1, <2>3, <2>4, OneSessionKept
  <2>7. [Seen[g] EXCEPT !.writing = TRUE] = View(s)
    <3>1. PICK yes : yes = TRUE
      BY Zenon
    <3>2. [Seen[g] EXCEPT !.writing = yes] =
            [stage |-> StageOf(session[g].phase), alive |-> session[g].alive,
             mail |-> WithoutPoll(session[g].mail), writing |-> yes]
      BY <1>7, SeenUpdated
    <3>. QED BY <2>5, <3>1, <3>2, Zenon
  <2>8. Seen' = [Seen EXCEPT ![g].writing = TRUE]
    BY <2>6, <2>7
  <2>9. ~Seen[g].writing /\ Seen[g].stage = "open"
    BY <1>4, <1>11, <2>0 DEF StageOf
  <2>10. Directory!BeginsOrder(g, c)
    BY <1>5, <2>6, <2>8, <2>9 DEF Directory!BeginsOrder, Directory!directory
  <2>. QED BY <2>6, <2>10 DEF Directory!Next, Sessions, Directory!Sessions
<1>. QED BY <1>9, <1>10, <1>11 DEF ServesClient

(***************************************************************************)
(* The steps of clients.                                                   *)
(***************************************************************************)
\* A handle is taken or dropped.
LEMMA HandlesKeep ==
  ASSUME IInv, NEW c \in Clients, TakesHandle(c) \/ DropsHandle(c)
  PROVE  IInv' /\ [Directory!Next]_Directory!directoryVars
<1>1. /\ UNCHANGED <<mgr, latest, slot, session, events, established, delay>>
      /\ handle' = [handle EXCEPT ![c] = slot] \/ handle' = [handle EXCEPT ![c] = 0]
  BY DEF TakesHandle, DropsHandle
<1>2. slot \in 0..latest /\ latest \in Nat
  BY ManagerConstants DEF IInv, ManagerTypeOK
<1>3. handle' \in [Clients -> 0..latest]
  BY <1>1, <1>2 DEF IInv, ManagerTypeOK
<1>4. ManagerTypeOK'
  BY <1>1, <1>3 DEF IInv, ManagerTypeOK
<1>5. Kept'
  BY <1>1 DEF IInv, Kept, SlotFollows, Holding, Asking
<1>6. UNCHANGED <<latest, Watched, slot, Seen>>
  BY <1>1 DEF Watched, Holding, Seen
<1>7. Directory!Takes(c) \/ Directory!Drops(c)
  BY <1>1, <1>6 DEF Directory!Takes, Directory!Drops, Directory!directory
<1>. QED BY <1>4, <1>5, <1>7 DEF IInv, Directory!Next

\* A call goes to the end of the mailbox of the session whose handle is held.
LEMMA CallsKeeps ==
  ASSUME IInv, NEW c \in Clients, Calls(c)
  PROVE  IInv' /\ [Directory!Next]_Directory!directoryVars
<1>1. PICK g \in Sessions : g = handle[c] /\ handle[c] # 0
  <2>1. handle[c] \in 0..latest /\ handle[c] # 0 /\ latest \in 0..MaxSessions
    BY DEF IInv, ManagerTypeOK, Calls
  <2>2. handle[c] \in Sessions
    BY <2>1, ManagerConstants DEF Sessions
  <2>. QED BY <2>1, <2>2
<1>2. /\ session[g] \in SessionRecord /\ Fit(session[g], Asking(g)) /\ session[g].alive
      /\ session[g].mail \in Seq(Callers)
  BY <1>1, Known DEF Calls, SessionRecord
<1> DEFINE s == [phase |-> session[g].phase, alive |-> session[g].alive,
                 mail |-> Append(session[g].mail, c), writing |-> session[g].writing]
<1>3. s \in SessionRecord /\ Fit(s, Asking(g)) /\ (s.alive => session[g].alive)
  BY <1>2, CalledOnce DEF SessionRecord, Fit
<1>4. [session[g] EXCEPT !.mail = Append(session[g].mail, c)] = s
  BY <1>2, Updated
<1>5. Becomes(g, s) /\ UNCHANGED <<established, delay>>
  BY <1>1, <1>4 DEF Calls, Becomes
<1>6. events' \in Seq(Phases) /\ Len(events') <= EventCap
  BY DEF Calls, IInv, ManagerTypeOK
<1>7. View(s) = [stage |-> IF session[g].alive THEN StageOf(session[g].phase) ELSE "down",
                 alive |-> session[g].alive,
                 mail |-> Append(WithoutPoll(session[g].mail), c),
                 writing |-> session[g].writing = "order"]
  BY <1>2, Called DEF View
<1> HIDE DEF s
<1>8. /\ IInv' /\ Seen' = [Seen EXCEPT ![g] = View(s)]
      /\ UNCHANGED <<latest, Watched, slot, handle>>
  BY <1>3, <1>5, <1>6, OneSessionKept
<1>9. [Seen[g] EXCEPT !.mail = Append(Seen[g].mail, c)] = View(s)
  <2>1. PICK stage, writing, mail :
          /\ stage = IF session[g].alive THEN StageOf(session[g].phase) ELSE "down"
          /\ writing = (session[g].writing = "order")
          /\ mail = WithoutPoll(session[g].mail)
    BY Zenon
  <2>2. Seen[g] = [stage |-> stage, alive |-> session[g].alive, mail |-> mail, writing |-> writing]
    BY <2>1, Known, Zenon
  <2>3. View(s) = [stage |-> stage, alive |-> session[g].alive, mail |-> Append(mail, c),
                   writing |-> writing]
    BY <1>7, <2>1, Zenon
  <2>4. Seen[g].mail = mail
    BY <2>2
  <2>5. [Seen[g] EXCEPT !.mail = Append(mail, c)] =
          [stage |-> stage, alive |-> session[g].alive, mail |-> Append(mail, c),
           writing |-> writing]
    BY <2>2
  <2>. QED BY <2>3, <2>4, <2>5, Zenon
<1>10. Seen' = [Seen EXCEPT ![handle[c]].mail = Append(@, c)]
  BY <1>1, <1>8, <1>9
<1>11. Seen[handle[c]].alive
  BY <1>1, <1>2, Known
<1>12. Directory!Calls(c)
  BY <1>1, <1>8, <1>10, <1>11 DEF Directory!Calls, Directory!directory
<1>. QED BY <1>8, <1>12 DEF Directory!Next

(***************************************************************************)
(* The steps of run_connection_manager.                                    *)
(***************************************************************************)
\* A failed connect and a wake-up: clients see nothing of them, and the
\* back-off stays in its range.
LEMMA PausesKeep ==
  ASSUME IInv, ConnectFails \/ Wake
  PROVE  IInv' /\ [Directory!Next]_Directory!directoryVars
<1>1. /\ mgr \in {"connecting", "sleeping"} /\ mgr' \in {"connecting", "sleeping"}
      /\ UNCHANGED <<latest, slot, session, handle, events, established>>
  BY DEF ConnectFails, Wake
<1>2. delay' \in ReconnectInitial..ReconnectMax
  <2>1. delay \in ReconnectInitial..ReconnectMax /\ delay \in Nat
    BY ManagerConstants DEF IInv, ManagerTypeOK
  <2>2. CASE ConnectFails
    BY <2>1, <2>2 DEF ConnectFails
  <2>3. CASE Wake
    BY <2>1, <2>3, ManagerConstants DEF Wake
  <2>. QED BY <2>2, <2>3
<1>3. ManagerTypeOK'
  BY <1>1, <1>2 DEF IInv, ManagerTypeOK
<1>4. Kept'
  BY <1>1 DEF IInv, Kept, SlotFollows, Holding, Asking
<1>5. UNCHANGED <<latest, Watched, slot, handle>> /\ Seen' = Seen
  BY <1>1 DEF Watched, Holding, Seen
<1>. QED BY <1>3, <1>4, <1>5, Unseen DEF IInv

\* A session is started.
LEMMA SpawnKeeps ==
  ASSUME IInv, Spawn
  PROVE  IInv' /\ [Directory!Next]_Directory!directoryVars
<1> DEFINE s == [phase |-> "Connecting", alive |-> TRUE, mail |-> <<>>, writing |-> "no"]
           g == latest + 1
<1>1. /\ latest \in Nat /\ latest < MaxSessions /\ MaxSessions \in Nat
      /\ mgr = "connecting" /\ mgr' = "spawned" /\ latest' = latest + 1
      /\ session' = [session EXCEPT ![g] = s]
      /\ UNCHANGED <<slot, handle, events, established, delay>>
  BY ManagerConstants DEF IInv, ManagerTypeOK, Spawn
<1>2. g \in Sessions /\ latest' \in 0..MaxSessions /\ latest' # 0
  BY <1>1 DEF Sessions
<1>3. s \in SessionRecord /\ \A asked \in BOOLEAN : Fit(s, asked)
  BY Emptied DEF SessionRecord, Fit, Phases
<1>4. View(s) = Directory!NewSession
  BY Emptied DEF View, StageOf, Directory!NewSession
<1>5. session \in [Sessions -> SessionRecord]
  BY DEF IInv, ManagerTypeOK, SessionRecord, Callers
<1> HIDE DEF s, g
<1>6. session' \in [Sessions -> SessionRecord]
  BY <1>1, <1>2, <1>3, <1>5
<1>7. \A h \in Sessions : session'[h] = IF h = g THEN s ELSE session[h]
  BY <1>1, <1>2, <1>5
<1>8. slot = 0
  BY <1>1 DEF IInv, Kept, SlotFollows
<1>9. handle' \in [Clients -> 0..latest']
  <2>1. \A h \in 0..latest : h \in 0..latest'
    BY <1>1
  <2>. QED BY <1>1, <2>1 DEF IInv, ManagerTypeOK
<1>10. ManagerTypeOK'
  BY <1>1, <1>2, <1>6, <1>8, <1>9 DEF IInv, ManagerTypeOK, SessionRecord, Callers
<1>11. SlotFollows' /\ (Holding => latest # 0)'
  BY <1>1, <1>2, <1>8 DEF SlotFollows
<1>12. (\A h \in Sessions : Fit(session[h], Asking(h)))'
  <2>1. \A h \in Sessions : Fit(session[h], Asking(h)) /\ ~Asking(h) /\ ~Asking(h)'
    BY <1>1 DEF IInv, Kept, Asking
  <2> SUFFICES ASSUME NEW h \in Sessions PROVE Fit(session'[h], Asking(h)')
    OBVIOUS
  <2>2. CASE h = g
    BY <1>3, <1>7, <2>2 DEF Fit, Asking
  <2>3. CASE h # g
    BY <1>7, <2>1, <2>3 DEF Fit
  <2>. QED BY <2>2, <2>3
<1>13. (\A h \in Sessions : latest < h => ~session[h].alive)'
  <2>1. \A h \in Sessions : h \in Nat /\ (latest < h => ~session[h].alive)
    BY DEF IInv, Kept, Sessions
  <2>. QED BY <1>1, <1>7, <2>1 DEF g
<1>14. Seen' = [Seen EXCEPT ![g] = Directory!NewSession]
  <2>1. Seen' = [h \in Sessions |-> View(session'[h])]
    BY DEF Seen, View
  <2>2. [Seen EXCEPT ![g] = View(s)] = [h \in Sessions |-> IF h = g THEN View(s) ELSE View(session[h])]
    BY DEF Seen
  <2>3. \A h \in Sessions : View(session'[h]) = IF h = g THEN View(s) ELSE View(session[h])
    BY <1>7
  <2>. QED BY <1>4, <2>1, <2>2, <2>3
<1>15. Watched = 0 /\ Watched' = latest + 1
  BY <1>1 DEF Watched, Holding
<1>16. Directory!Start
  BY <1>1, <1>14, <1>15 DEF g, Directory!Start
<1>. QED BY <1>10, <1>11, <1>12, <1>13, <1>16 DEF IInv, Kept, Directory!Next

\* The manager subscribes, and only then the session gets into the slot.
LEMMA SubscribeKeeps ==
  ASSUME IInv, Subscribe
  PROVE  IInv' /\ [Directory!Next]_Directory!directoryVars
<1>1. /\ mgr = "spawned" /\ mgr' = "watching" /\ slot' = latest /\ events' = <<>>
      /\ established' = FALSE /\ UNCHANGED <<latest, session, handle, delay>>
  BY DEF Subscribe
<1>2. latest # 0 /\ slot = 0
  BY <1>1 DEF IInv, Kept, SlotFollows, Holding
<1>3. events' \in Seq(Phases) /\ Len(events') <= EventCap
  BY <1>1, ManagerConstants
<1>4. ManagerTypeOK'
  BY <1>1, <1>3 DEF IInv, ManagerTypeOK
<1>5. Kept'
  BY <1>1, <1>2 DEF IInv, Kept, SlotFollows, Holding, Asking
<1>6. Watched = latest /\ Watched' = latest /\ Seen' = Seen
  BY <1>1 DEF Watched, Holding, Seen
<1>7. Directory!Publish
  BY <1>1, <1>2, <1>6 DEF Directory!Publish
<1>. QED BY <1>4, <1>5, <1>7 DEF IInv, Directory!Next

\* An event is read: of the session's end, or of any other phase.
LEMMA TakeEventKeeps ==
  ASSUME IInv, TakeEvent
  PROVE  IInv' /\ [Directory!Next]_Directory!directoryVars
<1>1. /\ mgr = "watching" /\ mgr' \in {"watching", "ending"}
      /\ events # <<>> /\ events' = Tail(events)
      /\ established' = (established \/ Head(events) = "Established")
      /\ delay' \in {delay, ReconnectInitial}
      /\ UNCHANGED <<latest, slot, session, handle>>
  BY DEF TakeEvent
<1>2. events' \in Seq(Phases) /\ Len(events') <= EventCap
  <2>1. events \in Seq(Phases) /\ Len(events) <= EventCap /\ EventCap \in Nat
    BY ManagerConstants DEF IInv, ManagerTypeOK
  <2>2. Tail(events) \in Seq(Phases) /\ Len(Tail(events)) = Len(events) - 1 /\ Len(events) \in Nat
    BY <1>1, <2>1
  <2>. QED BY <1>1, <2>1, <2>2
<1>3. delay' \in ReconnectInitial..ReconnectMax
  BY <1>1, ManagerConstants DEF IInv, ManagerTypeOK
<1>4. established' \in BOOLEAN
  BY <1>1, Zenon
<1>5. ManagerTypeOK'
  BY <1>1, <1>2, <1>3, <1>4 DEF IInv, ManagerTypeOK
<1>6. Kept'
  BY <1>1 DEF IInv, Kept, SlotFollows, Holding, Asking
<1>7. UNCHANGED <<latest, Watched, slot, handle>> /\ Seen' = Seen
  BY <1>1 DEF Watched, Holding, Seen
<1>. QED BY <1>5, <1>6, <1>7, Unseen DEF IInv

\* The poll goes into the mailbox of the session that is watched.
LEMMA AsksKeeps ==
  ASSUME IInv, mgr = "watching", Asks,
         UNCHANGED <<latest, slot, handle, events, established, delay>>
  PROVE  IInv' /\ [Directory!Next]_Directory!directoryVars
<1>1. PICK g \in Sessions : g = latest
  <2>1. latest # 0 /\ latest \in 0..MaxSessions
    BY DEF IInv, ManagerTypeOK, Kept, Holding
  <2>. QED BY <2>1, ManagerConstants DEF Sessions
<1>2. /\ session[g] \in SessionRecord /\ Fit(session[g], Asking(g)) /\ session[g].alive
      /\ session[g].mail \in Seq(Callers)
  BY <1>1, Known DEF Asks, SessionRecord
<1>3. \A h \in Sessions : ~Asking(h) /\ Fit(session[h], FALSE)
  BY DEF IInv, Kept, Asking, Fit
<1>4. ~Polled(session[g].mail)
  BY <1>3 DEF Fit
<1> DEFINE s == [phase |-> session[g].phase, alive |-> session[g].alive,
                 mail |-> Append(session[g].mail, "manager"), writing |-> session[g].writing]
<1>5. s \in SessionRecord /\ Fit(s, TRUE)
  BY <1>2, <1>4, AskedOnce DEF SessionRecord, Fit
<1>6. [session[g] EXCEPT !.mail = Append(session[g].mail, "manager")] = s
  BY <1>2, Updated
<1>7. session' = [session EXCEPT ![g] = s] /\ mgr' = "polling"
  BY <1>1, <1>6 DEF Asks
<1>8. View(s) = View(session[g])
  BY <1>2, <1>4, Asked, Unpolled DEF View
<1>9. session \in [Sessions -> SessionRecord]
  BY DEF IInv, ManagerTypeOK, SessionRecord, Callers
<1> HIDE DEF s
<1>10. /\ session' \in [Sessions -> SessionRecord]
       /\ \A h \in Sessions : session'[h] = IF h = g THEN s ELSE session[h]
  BY <1>5, <1>7, <1>9
<1>11. ManagerTypeOK'
  BY <1>7, <1>10 DEF IInv, ManagerTypeOK, SessionRecord, Callers
<1>12. SlotFollows' /\ (Holding => latest # 0)'
  BY <1>7 DEF IInv, Kept, SlotFollows, Holding
<1>13. (\A h \in Sessions : Fit(session[h], Asking(h)))'
  <2> SUFFICES ASSUME NEW h \in Sessions PROVE Fit(session'[h], Asking(h)')
    OBVIOUS
  <2>1. CASE h = g
    BY <1>1, <1>5, <1>7, <1>10, <2>1 DEF Fit, Asking
  <2>2. CASE h # g
    BY <1>3, <1>10, <2>2 DEF Fit
  <2>. QED BY <2>1, <2>2
<1>14. (\A h \in Sessions : latest < h => ~session[h].alive)'
  <2>1. \A h \in Sessions : latest < h => ~session[h].alive
    BY DEF IInv, Kept
  <2>2. ~(latest < g)
    BY <1>1 DEF Sessions
  <2>. QED BY <1>10, <2>1, <2>2
<1>15. Seen' = Seen
  <2>1. Seen' = [h \in Sessions |-> View(session'[h])]
    BY DEF Seen, View
  <2>2. \A h \in Sessions : View(session'[h]) = View(session[h])
    BY <1>8, <1>10
  <2>. QED BY <2>1, <2>2 DEF Seen
<1>16. UNCHANGED <<latest, Watched, slot, handle>>
  BY <1>7 DEF Watched, Holding
<1>. QED BY <1>11, <1>12, <1>13, <1>14, <1>15, <1>16, Unseen DEF IInv, Kept

\* A step of the manager by which it goes on watching, or stops to.
LEMMA WatchKeeps ==
  ASSUME IInv, mgr \in {"watching", "polling"}, mgr' \in {"watching", "ending"},
         \A h \in Sessions : ~Polled(session[h].mail),
         UNCHANGED <<latest, slot, session, handle, events, established, delay>>
  PROVE  IInv' /\ [Directory!Next]_Directory!directoryVars
<1>1. ManagerTypeOK'
  BY DEF IInv, ManagerTypeOK
<1>2. Kept'
  <2>1. \A h \in Sessions : Fit(session[h], FALSE)
    BY DEF IInv, Kept, Fit
  <2>2. (\A h \in Sessions : Fit(session[h], Asking(h)))'
    BY <2>1 DEF Fit
  <2>3. SlotFollows' /\ (Holding => latest # 0)'
    BY DEF IInv, Kept, SlotFollows, Holding
  <2>4. (\A h \in Sessions : latest < h => ~session[h].alive)'
    BY DEF IInv, Kept
  <2>. QED BY <2>2, <2>3, <2>4 DEF Kept
<1>3. UNCHANGED <<latest, Watched, slot, handle>> /\ Seen' = Seen
  BY DEF Watched, Holding, Seen
<1>. QED BY <1>1, <1>2, <1>3, Unseen DEF IInv

\* A second without an event: the session is asked, or known to be gone.
LEMMA PollKeeps ==
  ASSUME IInv, Poll
  PROVE  IInv' /\ [Directory!Next]_Directory!directoryVars
<1>1. mgr = "watching" /\ UNCHANGED <<latest, slot, handle, events, established, delay>>
  BY DEF Poll
<1>2. CASE Asks
  BY <1>1, <1>2, AsksKeeps
<1>3. CASE UNCHANGED session /\ mgr' = "ending"
  <2>1. \A h \in Sessions : ~Polled(session[h].mail)
    BY <1>1 DEF IInv, Kept, Fit, Asking
  <2>. QED BY <1>1, <1>3, <2>1, WatchKeeps
<1>. QED BY <1>2, <1>3 DEF Poll

\* The answer of a poll is dropped with the mailbox it waited in.
LEMMA PollDroppedKeeps ==
  ASSUME IInv, PollDropped
  PROVE  IInv' /\ [Directory!Next]_Directory!directoryVars
<1>1. /\ mgr = "polling" /\ mgr' = "ending" /\ ~session[latest].alive
      /\ UNCHANGED <<latest, slot, session, handle, events, established, delay>>
  BY DEF PollDropped
<1>2. \A h \in Sessions : ~Polled(session[h].mail)
  <2> SUFFICES ASSUME NEW h \in Sessions PROVE ~Polled(session[h].mail)
    OBVIOUS
  <2>1. Fit(session[h], Asking(h))
    BY DEF IInv, Kept
  <2>2. CASE h = latest
    BY <1>1, <2>1, <2>2, Emptied DEF Fit
  <2>3. CASE h # latest
    BY <2>1, <2>3 DEF Fit, Asking
  <2>. QED BY <2>2, <2>3
<1>. QED BY <1>1, <1>2, WatchKeeps

\* The poll is answered by the session that is watched.
LEMMA PollAnsweredKeeps ==
  ASSUME IInv, NEW g \in Sessions, PollAnswered(g)
  PROVE  IInv' /\ [Directory!Next]_Directory!directoryVars
<1>1. /\ session[g] \in SessionRecord /\ Fit(session[g], Asking(g)) /\ session[g].alive
      /\ session[g].mail \in Seq(Callers) /\ session[g].mail # <<>>
      /\ Head(session[g].mail) = "manager" /\ session[g].writing = "no"
  BY Known DEF PollAnswered, IsNext, SessionRecord
<1>2. /\ session' = [session EXCEPT ![g].mail = Tail(session[g].mail)]
      /\ mgr' \in {"watching", "ending"}
      /\ UNCHANGED <<latest, slot, handle, events, established, delay>>
  BY DEF PollAnswered
<1>3. Polled(session[g].mail)
  BY <1>1, Behind DEF Polled
<1>4. mgr = "polling" /\ g = latest
  BY <1>1, <1>3 DEF Fit, Asking
<1>5. /\ ~Polled(Tail(session[g].mail)) /\ PolledOnce(Tail(session[g].mail))
      /\ WithoutPoll(session[g].mail) = WithoutPoll(Tail(session[g].mail))
      /\ Tail(session[g].mail) \in Seq(Callers)
  BY <1>1, PollFirst, Served, Behind DEF Fit
<1> DEFINE s == [phase |-> session[g].phase, alive |-> session[g].alive,
                 mail |-> Tail(session[g].mail), writing |-> session[g].writing]
<1>6. s \in SessionRecord /\ Fit(s, FALSE)
  BY <1>1, <1>5 DEF SessionRecord, Fit
<1>7. [session[g] EXCEPT !.mail = Tail(session[g].mail)] = s
  BY <1>1, Updated
<1>8. session' = [session EXCEPT ![g] = s]
  BY <1>2, <1>7
<1>9. View(s) = View(session[g])
  BY <1>5 DEF View
<1>10. session \in [Sessions -> SessionRecord]
  BY DEF IInv, ManagerTypeOK, SessionRecord, Callers
<1> HIDE DEF s
<1>11. /\ session' \in [Sessions -> SessionRecord]
       /\ \A h \in Sessions : session'[h] = IF h = g THEN s ELSE session[h]
  BY <1>6, <1>8, <1>10
<1>12. ManagerTypeOK'
  BY <1>2, <1>11 DEF IInv, ManagerTypeOK, SessionRecord, Callers
<1>13. SlotFollows' /\ (Holding => latest # 0)'
  BY <1>2, <1>4 DEF IInv, Kept, SlotFollows, Holding
<1>14. (\A h \in Sessions : Fit(session[h], Asking(h)))'
  <2> SUFFICES ASSUME NEW h \in Sessions PROVE Fit(session'[h], Asking(h)')
    OBVIOUS
  <2>1. CASE h = g
    BY <1>6, <1>11, <2>1 DEF Fit
  <2>2. CASE h # g
    <3>1. Fit(session[h], FALSE)
      BY <1>4, <2>2 DEF IInv, Kept, Asking, Fit
    <3>. QED BY <1>11, <2>2, <3>1 DEF Fit
  <2>. QED BY <2>1, <2>2
<1>15. (\A h \in Sessions : latest < h => ~session[h].alive)'
  <2>1. \A h \in Sessions : latest < h => ~session[h].alive
    BY DEF IInv, Kept
  <2>2. ~(latest < g)
    BY <1>4 DEF Sessions
  <2>. QED BY <1>2, <1>11, <2>1, <2>2
<1>16. Seen' = Seen
  <2>1. Seen' = [h \in Sessions |-> View(session'[h])]
    BY DEF Seen, View
  <2>2. \A h \in Sessions : View(session'[h]) = View(session[h])
    BY <1>9, <1>11
  <2>. QED BY <2>1, <2>2 DEF Seen
<1>17. UNCHANGED <<latest, Watched, slot, handle>>
  BY <1>2, <1>4 DEF Watched, Holding
<1>. QED BY <1>12, <1>13, <1>14, <1>15, <1>16, <1>17, Unseen DEF IInv, Kept

\* sessions.clear(): the session leaves the slot and is let go of at once.
LEMMA EndWatchKeeps ==
  ASSUME IInv, EndWatch
  PROVE  IInv' /\ [Directory!Next]_Directory!directoryVars
<1>1. /\ mgr = "ending" /\ mgr' = "sleeping" /\ slot' = 0 /\ events' = <<>>
      /\ delay' \in {delay, ReconnectInitial}
      /\ UNCHANGED <<latest, session, handle, established>>
  BY DEF EndWatch
<1>2. slot = latest /\ latest # 0
  BY <1>1 DEF IInv, Kept, SlotFollows, Holding
<1>3. events' \in Seq(Phases) /\ Len(events') <= EventCap
  BY <1>1, ManagerConstants
<1>4. delay' \in ReconnectInitial..ReconnectMax
  BY <1>1, ManagerConstants DEF IInv, ManagerTypeOK
<1>5. ManagerTypeOK'
  BY <1>1, <1>3, <1>4 DEF IInv, ManagerTypeOK
<1>6. Kept'
  BY <1>1 DEF IInv, Kept, SlotFollows, Holding, Asking
<1>7. Watched' = 0 /\ Seen' = Seen
  BY <1>1 DEF Watched, Holding, Seen
<1>8. Directory!Retire
  BY <1>1, <1>2, <1>7 DEF Directory!Retire
<1>. QED BY <1>5, <1>6, <1>8 DEF IInv, Directory!Next

(***************************************************************************)
(* The theorems.                                                           *)
(***************************************************************************)
\* Before the first connect nothing is kept, and the directory is empty.
LEMMA Initially ==
  ASSUME Init
  PROVE  IInv /\ Directory!Init
<1>1. /\ mgr = "connecting" /\ latest = 0 /\ slot = 0 /\ events = <<>>
      /\ established = FALSE /\ delay = ReconnectInitial
      /\ session = [g \in Sessions |-> Stopped("Disconnected")]
      /\ handle = [c \in Clients |-> 0]
  BY DEF Init
<1>2. /\ Stopped("Disconnected") \in SessionRecord /\ ~Stopped("Disconnected").alive
      /\ \A asked \in BOOLEAN : Fit(Stopped("Disconnected"), asked)
  BY Emptied DEF Phases
<1>3. session \in [Sessions -> SessionRecord]
  BY <1>1, <1>2
<1>4. ManagerTypeOK
  <2>1. 0 \in 0..MaxSessions /\ handle \in [Clients -> 0..0]
    BY <1>1, ManagerConstants
  <2>2. events \in Seq(Phases) /\ Len(events) <= EventCap
    BY <1>1, ManagerConstants
  <2>3. delay \in ReconnectInitial..ReconnectMax
    BY <1>1, ManagerConstants
  <2>. QED BY <1>1, <1>3, <2>1, <2>2, <2>3 DEF ManagerTypeOK, SessionRecord, Callers
<1>5. \A g \in Sessions : Fit(session[g], Asking(g)) /\ ~session[g].alive
  BY <1>1, <1>2 DEF Asking
<1>6. Kept
  BY <1>1, <1>5 DEF Kept, SlotFollows, Holding
<1>7. Seen = [g \in Directory!Sessions |-> Directory!Stopped]
  <2>1. \A g \in Sessions : View(session[g]) = Directory!Stopped
    BY <1>1, SeenStopped DEF Phases
  <2>. QED BY <2>1 DEF Seen, Sessions, Directory!Sessions
<1>8. Watched = 0
  BY <1>1 DEF Watched, Holding
<1>. QED BY <1>1, <1>4, <1>6, <1>7, <1>8 DEF IInv, Directory!Init

\* Every step keeps the invariant, and is a step of SessionDirectory or none
\* that clients see.
LEMMA StepKeeps ==
  ASSUME IInv, [Next]_vars
  PROVE  IInv' /\ [Directory!Next]_Directory!directoryVars
<1>1. CASE Manager
  BY <1>1, PausesKeep, SpawnKeeps, SubscribeKeeps, TakeEventKeeps, PollKeeps,
     PollDroppedKeeps, EndWatchKeeps DEF Manager
<1>2. ASSUME NEW g \in Sessions, NEW phase \in Phases, Moves(g, phase) \/ Ends(g, phase)
      PROVE  IInv' /\ [Directory!Next]_Directory!directoryVars
  BY <1>2, MovesKeeps, EndsKeeps
<1>3. ASSUME NEW g \in Sessions, StartsWriting(g) \/ EndsWriting(g) \/ Abandoned(g)
      PROVE  IInv' /\ [Directory!Next]_Directory!directoryVars
  BY <1>3, WritingKeeps, AbandonedKeeps
<1>4. ASSUME NEW g \in Sessions, Serves(g)
      PROVE  IInv' /\ [Directory!Next]_Directory!directoryVars
  BY <1>4, PollAnsweredKeeps, ServesClientKeeps DEF Serves
<1>5. ASSUME NEW c \in Clients, TakesHandle(c) \/ Calls(c) \/ DropsHandle(c)
      PROVE  IInv' /\ [Directory!Next]_Directory!directoryVars
  BY <1>5, HandlesKeep, CallsKeeps
<1>6. CASE UNCHANGED vars
  <2>1. UNCHANGED <<mgr, latest, slot, session, handle, events, established, delay>>
    BY <1>6 DEF vars
  <2>2. ManagerTypeOK'
    BY <2>1 DEF IInv, ManagerTypeOK
  <2>3. Kept'
    BY <2>1 DEF IInv, Kept, SlotFollows, Holding, Asking
  <2>4. UNCHANGED <<latest, Watched, slot, handle>> /\ Seen' = Seen
    BY <2>1 DEF Watched, Holding, Seen
  <2>. QED BY <2>2, <2>3, <2>4, Unseen DEF IInv
<1>. QED BY <1>1, <1>2, <1>3, <1>4, <1>5, <1>6 DEF Next

\* The invariant holds in every state of the manager and its sessions.
LEMMA Invariant == Spec => []IInv
<1>1. Init => IInv
  BY Initially
<1>2. IInv /\ [Next]_vars => IInv'
  BY StepKeeps
<1>. QED BY <1>1, <1>2, PTL DEF Spec

\* The manager and its sessions are well typed: the slot names the latest
\* session or none, no handle names a session that was never started, the
\* channel keeps inside its capacity and the back-off inside the configured
\* range, however many connections fail (run_connection_manager).
THEOREM ManagerTyped == Spec => []ManagerTypeOK
<1>1. IInv => ManagerTypeOK
  BY DEF IInv
<1>. QED BY <1>1, Invariant, PTL

\* run_connection_manager and its sessions are to ControlService what
\* SessionDirectory says, whatever the counterparty, the poll through the
\* mailbox and the lost events do: the slot never names a session that was
\* let go of, and a session with a handle left only stops by itself.
THEOREM ServesRequests == Spec => KeepsTheDirectory
<1>1. Init => Directory!Init
  BY Initially
<1>2. IInv /\ [Next]_vars => [Directory!Next]_Directory!directoryVars
  BY StepKeeps
<1>. QED BY <1>1, <1>2, Invariant, PTL DEF Spec, KeepsTheDirectory, Directory!Spec
=============================================================================
