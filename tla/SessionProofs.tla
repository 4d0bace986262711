---------------------------- MODULE SessionProofs ----------------------------
(***************************************************************************)
(* The lock of the session, the resume that relies on it, and at the end   *)
(* the security decisions of xwin-sec.                                     *)
(*                                                                         *)
(* Proofs about Lockd, for every set of clients and requests and every     *)
(* bound.  AckedDurable is not inductive: it needs to know that memory and *)
(* artifact agree except between rename and the update of memory, that a   *)
(* request of sessiond that is still alive is the last of its control      *)
(* requests in the queue, and that an acknowledged request has no control  *)
(* request behind it.                                                      *)
(***************************************************************************)
EXTENDS Lockd, Resume, Security, TLAPS

USE ClientsAssumption, BoundsAssumption, OfferedAssumption

-----------------------------------------------------------------------------
(* Type correctness *)

\* The initial state is well typed.
LEMMA InitTypeOK == Init => TypeOK
<1> SUFFICES ASSUME Init PROVE TypeOK
  OBVIOUS
<1>1. failResume \in BOOLEAN
  BY Zenon DEF Init
<1>2. backlog \in Seq(Request)
  BY DEF Init
<1>3. damage \in 0..MaxDamage
  BY DEF Init
<1> QED BY <1>1, <1>2, <1>3, Zenon DEF Init, TypeOK

\* A request whose client has gone is still a request.
LEMMA AbandonRequest == \A r \in Request, c \in Clients : Abandon(r, c) \in Request
  BY DEF Abandon, Request

\* Replacing requests of the queue by requests leaves a queue of requests.
LEMMA AbandonQueue ==
    ASSUME NEW q \in Seq(Request), NEW c \in Clients
    PROVE  /\ [i \in 1..Len(q) |-> Abandon(q[i], c)] \in Seq(Request)
           /\ Len([i \in 1..Len(q) |-> Abandon(q[i], c)]) = Len(q)
<1>1. [i \in 1..Len(q) |-> Abandon(q[i], c)] \in [1..Len(q) -> Request]
  BY AbandonRequest
<1> QED BY <1>1

\* What lockd writes is a well-formed artifact (the generation stays within u64).
LEMMA WrittenType ==
    /\ \A s \in LockStates : fresh(s) \in Persisted
    /\ InitialState \in Persisted
    /\ \A r \in Request : mem \in Persisted /\ NeedsPersist(r)
                              => Successor(r.state) \in Persisted
  BY DEF fresh, InitialState, Persisted, LockStates, Successor, NeedsPersist, Request

\* build_response always builds a response.
LEMMA ResponseType ==
    ASSUME mem \in Persisted, NEW r \in Request
    PROVE  DirectResponse(r) \in Response
  BY DEF DirectResponse, Granted, Reply, Rejected, Response, Persisted, Request, LockStates, Command

\* Every step keeps the types.
LEMMA NextTypeOK == TypeOK /\ [Next]_vars => TypeOK'
<1> SUFFICES ASSUME TypeOK, [Next]_vars PROVE TypeOK'
  OBVIOUS
<1> USE NoneAssumption, ArtifactAssumption
<1>1. ASSUME NEW m \in Offered, Connect(m) PROVE TypeOK'
  BY <1>1 DEF TypeOK, Connect, Message, Request
<1>2. ASSUME NEW c \in Clients, GiveUp(c) PROVE TypeOK'
  <2>1. backlog' \in Seq(Request)
    BY <1>2, AbandonQueue DEF TypeOK, GiveUp
  <2>2. req' \in Request \cup {None} /\ (req' # None <=> req # None)
    BY <1>2, AbandonRequest DEF TypeOK, GiveUp
  <2> QED BY <1>2, <2>1, <2>2 DEF TypeOK, GiveUp
<1>3. ASSUME NEW fail \in BOOLEAN, Start(fail) PROVE TypeOK'
  BY <1>3 DEF TypeOK, Start
<1>4. CASE LoadRecovered
  BY <1>4 DEF TypeOK, LoadRecovered
<1>5. CASE LoadInitialize
  BY <1>5, WrittenType DEF TypeOK, LoadInitialize
<1>6. CASE InitRename
  BY <1>6 DEF TypeOK, InitRename
<1>7. CASE Accept
  BY <1>7 DEF TypeOK, Accept
<1>8. CASE ReadFails
  BY <1>8 DEF TypeOK, ReadFails
<1>9. CASE Respond
  <2>1. resp' \in Response
    BY <1>9, ResponseType DEF TypeOK, Respond
  <2> QED BY <1>9, <2>1 DEF TypeOK, Respond
<1>10. CASE BeginTransition
  <2>1. next' \in Persisted
    BY <1>10, WrittenType DEF TypeOK, BeginTransition
  <2> QED BY <1>10, <2>1 DEF TypeOK, BeginTransition
<1>11. CASE PersistFails
  BY <1>11 DEF TypeOK, PersistFails, Reply, Rejected, Response, LockStates
<1>12. CASE Rename
  BY <1>12 DEF TypeOK, Rename
<1>13. CASE FinishTransition
  BY <1>13 DEF TypeOK, FinishTransition, Reply, Response, Request
<1>14. CASE Send
  BY <1>14 DEF TypeOK, Send, Response, Persisted
<1>15. CASE Crash
  BY <1>15 DEF TypeOK, Crash
<1>16. CASE Damage
  BY <1>16 DEF TypeOK, Damage
<1>17. CASE UNCHANGED vars
  BY <1>17 DEF TypeOK, vars
<1> QED
  BY <1>1, <1>2, <1>3, <1>4, <1>5, <1>6, <1>7, <1>8, <1>9, <1>10, <1>11,
     <1>12, <1>13, <1>14, <1>15, <1>16, <1>17 DEF Next, Serve

\* lockd's state is well typed in every behaviour, the generation included,
\* which never passes the largest value of its type.
THEOREM TypeCorrect == Spec => []TypeOK
  BY InitTypeOK, NextTypeOK, PTL DEF Spec

-----------------------------------------------------------------------------
(* Durability *)

\* The initial state satisfies the inductive invariant.
LEMMA InitLockdInv == Init => LockdInv
<1> SUFFICES ASSUME Init PROVE LockdInv
  OBVIOUS
<1>1. TypeOK
  BY InitTypeOK
<1>2. ArtifactInv /\ WriteInv /\ AnswerInv
  BY ArtifactAssumption DEF Init, ArtifactInv, WriteInv, AnswerInv
<1>3. QueueInv
  BY DEF Init, QueueInv
<1>4. AckedDurable /\ ReportedIsDurable
  BY DEF Init, AckedDurable, ReportedIsDurable
<1> QED BY <1>1, <1>2, <1>3, <1>4 DEF LockdInv

\* A queue that only grows at its end by a request of a client that is not
\* waiting keeps the order of control requests.
LEMMA ConnectQueue ==
    ASSUME TypeOK, QueueInv, NEW m \in Offered, Connect(m)
    PROVE  QueueInv'
<1> DEFINE r == [src |-> m.src, cmd |-> m.cmd, state |-> m.state, live |-> TRUE]
<1>1. /\ r \in Request
      /\ IsControl(r) <=> IsControl(m)
  BY DEF Message, Request, IsControl
<1> HIDE DEF r
<1>2. /\ backlog' = Append(backlog, r)
      /\ Len(backlog') = Len(backlog) + 1
      /\ \A i \in 1..Len(backlog) : backlog'[i] = backlog[i]
      /\ backlog'[Len(backlog) + 1] = r
      /\ req' = req
      /\ acked' = IF IsControl(r) THEN None ELSE acked
  BY <1>1 DEF Connect, TypeOK, r
<1>3. IsControl(r) => /\ \A i \in 1..Len(backlog) :
                              IsControl(backlog[i]) => ~backlog[i].live
                      /\ req # None /\ IsControl(req) => ~req.live
  BY <1>1 DEF Connect, Waiting, IsControl
<1>4. \A i, j \in 1..Len(backlog') :
          i < j /\ IsControl(backlog'[i]) /\ backlog'[i].live => ~IsControl(backlog'[j])
  BY <1>2, <1>3 DEF QueueInv, TypeOK
<1>5. req' # None /\ IsControl(req') /\ req'.live =>
          \A i \in 1..Len(backlog') : ~IsControl(backlog'[i])
  BY <1>2, <1>3 DEF QueueInv, TypeOK
<1>6. acked' # None => /\ req' # None => ~IsControl(req')
                       /\ \A i \in 1..Len(backlog') : ~IsControl(backlog'[i])
  BY <1>2 DEF QueueInv, TypeOK
<1> QED BY <1>4, <1>5, <1>6 DEF QueueInv, IsControl

\* Abandoning requests makes no request a control request and none alive.
LEMMA GiveUpQueue ==
    ASSUME TypeOK, QueueInv, NEW c \in Clients, GiveUp(c)
    PROVE  QueueInv'
<1>1. Len(backlog') = Len(backlog)
  BY AbandonQueue DEF GiveUp, TypeOK
<1>2. \A i \in 1..Len(backlog) : /\ IsControl(backlog'[i]) <=> IsControl(backlog[i])
                                 /\ backlog'[i].live => backlog[i].live
  BY DEF GiveUp, Abandon, IsControl
<1>3. req' # None => /\ req # None
                     /\ IsControl(req') <=> IsControl(req)
                     /\ req'.live => req.live
  BY DEF GiveUp, Abandon, IsControl
<1>4. acked' = acked
  BY DEF GiveUp
<1>5. \A i, j \in 1..Len(backlog') :
          i < j /\ IsControl(backlog'[i]) /\ backlog'[i].live => ~IsControl(backlog'[j])
  BY <1>1, <1>2 DEF QueueInv
<1>6. req' # None /\ IsControl(req') /\ req'.live =>
          \A i \in 1..Len(backlog') : ~IsControl(backlog'[i])
  BY <1>1, <1>2, <1>3 DEF QueueInv
<1>7. acked' # None => /\ req' # None => ~IsControl(req')
                       /\ \A i \in 1..Len(backlog') : ~IsControl(backlog'[i])
  BY <1>1, <1>2, <1>3, <1>4 DEF QueueInv
<1> QED BY <1>5, <1>6, <1>7 DEF QueueInv, IsControl

\* Taking the first connection keeps the order of the others.
LEMMA AcceptQueue ==
    ASSUME TypeOK, QueueInv, Accept
    PROVE  QueueInv'
<1>1. /\ Len(backlog) > 0
      /\ Len(backlog') = Len(backlog) - 1
      /\ \A i \in 1..Len(backlog') : backlog'[i] = backlog[i + 1]
      /\ req' = backlog[1]
      /\ acked' = acked
  BY DEF Accept, TypeOK
<1>2. \A i, j \in 1..Len(backlog') :
          i < j /\ IsControl(backlog'[i]) /\ backlog'[i].live => ~IsControl(backlog'[j])
  <2> TAKE i, j \in 1..Len(backlog')
  <2>1. i + 1 \in 1..Len(backlog) /\ j + 1 \in 1..Len(backlog) /\ (i < j => i + 1 < j + 1)
    BY <1>1 DEF TypeOK
  <2> QED BY <1>1, <2>1 DEF QueueInv
<1>3. IsControl(req') /\ req'.live =>
          \A i \in 1..Len(backlog') : ~IsControl(backlog'[i])
  BY <1>1 DEF QueueInv, TypeOK
<1>4. acked' # None => /\ ~IsControl(req')
                       /\ \A i \in 1..Len(backlog') : ~IsControl(backlog'[i])
  BY <1>1 DEF QueueInv, TypeOK
<1> QED BY <1>2, <1>3, <1>4 DEF QueueInv, IsControl

\* Every step preserves the inductive invariant.
LEMMA NextLockdInv == LockdInv /\ [Next]_vars => LockdInv'
<1> SUFFICES ASSUME LockdInv, [Next]_vars PROVE LockdInv'
  OBVIOUS
<1> USE DEF LockdInv
<1>0. TypeOK'
  BY NextTypeOK
<1>1. ASSUME NEW m \in Offered, Connect(m) PROVE LockdInv'
  <2>1. QueueInv'
    BY <1>1, ConnectQueue
  <2>2. ArtifactInv' /\ WriteInv' /\ AnswerInv'
    BY <1>1 DEF Connect, ArtifactInv, WriteInv, AnswerInv, IsControl, InitialState, Successor
  <2>3. AckedDurable' /\ ReportedIsDurable'
    BY <1>1 DEF Connect, AckedDurable, ReportedIsDurable, RestoredState, InitialState
  <2> QED BY <1>0, <2>1, <2>2, <2>3
<1>2. ASSUME NEW c \in Clients, GiveUp(c) PROVE LockdInv'
  <2>1. QueueInv'
    BY <1>2, GiveUpQueue
  <2>2. ArtifactInv' /\ WriteInv' /\ AnswerInv'
    BY <1>2, NoneAssumption
    DEF GiveUp, Abandon, ArtifactInv, WriteInv, AnswerInv, IsControl, InitialState,
        Successor, TypeOK
  <2>3. AckedDurable' /\ ReportedIsDurable'
    BY <1>2 DEF GiveUp, AckedDurable, ReportedIsDurable, RestoredState, InitialState
  <2> QED BY <1>0, <2>1, <2>2, <2>3
<1>3. ASSUME NEW fail \in BOOLEAN, Start(fail) PROVE LockdInv'
  <2>1. QueueInv'
    BY <1>3 DEF Start, QueueInv, IsControl, TypeOK
  <2>2. ArtifactInv'
    BY <1>3, ArtifactAssumption DEF Start, ArtifactInv, TypeOK
  <2>3. WriteInv'
    BY <1>3, ArtifactAssumption, NoneAssumption
    DEF Start, WriteInv, ArtifactInv, TypeOK, IsControl, InitialState, Successor
  <2>4. AnswerInv'
    BY <1>3, NoneAssumption DEF Start, WriteInv, AnswerInv, TypeOK, ReportedIsDurable, ArtifactInv
  <2>5. AckedDurable'
    BY <1>3, ArtifactAssumption
    DEF Start, AckedDurable, RestoredState, InitialState, fresh, TypeOK, WriteInv, QueueInv, AnswerInv, ArtifactInv
  <2>6. ReportedIsDurable'
    BY <1>3 DEF Start, ReportedIsDurable, TypeOK, WriteInv, AnswerInv, ArtifactInv
  <2> QED BY <1>0, <2>1, <2>2, <2>3, <2>4, <2>5, <2>6
<1>4. CASE LoadRecovered
  <2>1. QueueInv'
    BY <1>4 DEF LoadRecovered, QueueInv, IsControl, TypeOK
  <2>2. ArtifactInv'
    BY <1>4, ArtifactAssumption DEF LoadRecovered, ArtifactInv, TypeOK
  <2>3. WriteInv'
    BY <1>4, ArtifactAssumption, NoneAssumption
    DEF LoadRecovered, WriteInv, ArtifactInv, TypeOK, IsControl, InitialState, Successor
  <2>4. AnswerInv'
    BY <1>4, NoneAssumption DEF LoadRecovered, WriteInv, AnswerInv, TypeOK, ReportedIsDurable, ArtifactInv
  <2>5. AckedDurable'
    BY <1>4, ArtifactAssumption
    DEF LoadRecovered, AckedDurable, RestoredState, InitialState, fresh, TypeOK, WriteInv, QueueInv, AnswerInv, ArtifactInv
  <2>6. ReportedIsDurable'
    BY <1>4 DEF LoadRecovered, ReportedIsDurable, TypeOK, WriteInv, AnswerInv, ArtifactInv
  <2> QED BY <1>0, <2>1, <2>2, <2>3, <2>4, <2>5, <2>6
<1>5. CASE LoadInitialize
  <2>1. QueueInv'
    BY <1>5 DEF LoadInitialize, QueueInv, IsControl, TypeOK
  <2>2. ArtifactInv'
    BY <1>5, ArtifactAssumption DEF LoadInitialize, ArtifactInv, TypeOK
  <2>3. WriteInv'
    BY <1>5, ArtifactAssumption, NoneAssumption
    DEF LoadInitialize, WriteInv, ArtifactInv, TypeOK, IsControl, InitialState, Successor
  <2>4. AnswerInv'
    BY <1>5, NoneAssumption DEF LoadInitialize, WriteInv, AnswerInv, TypeOK, ReportedIsDurable, ArtifactInv
  <2>5. AckedDurable'
    BY <1>5, ArtifactAssumption
    DEF LoadInitialize, AckedDurable, RestoredState, InitialState, fresh, TypeOK, WriteInv, QueueInv, AnswerInv, ArtifactInv
  <2>6. ReportedIsDurable'
    BY <1>5 DEF LoadInitialize, ReportedIsDurable, TypeOK, WriteInv, AnswerInv, ArtifactInv
  <2> QED BY <1>0, <2>1, <2>2, <2>3, <2>4, <2>5, <2>6
<1>6. CASE InitRename
  <2>1. QueueInv'
    BY <1>6 DEF InitRename, QueueInv, IsControl, TypeOK
  <2>2. ArtifactInv'
    BY <1>6, ArtifactAssumption DEF InitRename, ArtifactInv, TypeOK
  <2>3. WriteInv'
    BY <1>6, ArtifactAssumption, NoneAssumption
    DEF InitRename, WriteInv, ArtifactInv, TypeOK, IsControl, InitialState, Successor
  <2>4. AnswerInv'
    BY <1>6, NoneAssumption DEF InitRename, WriteInv, AnswerInv, TypeOK, ReportedIsDurable, ArtifactInv
  <2>5. AckedDurable'
    BY <1>6, ArtifactAssumption
    DEF InitRename, AckedDurable, RestoredState, InitialState, fresh, TypeOK, WriteInv, QueueInv, AnswerInv, ArtifactInv
  <2>6. ReportedIsDurable'
    BY <1>6 DEF InitRename, ReportedIsDurable, TypeOK, WriteInv, AnswerInv, ArtifactInv
  <2> QED BY <1>0, <2>1, <2>2, <2>3, <2>4, <2>5, <2>6
<1>7. CASE Accept
  <2>1. QueueInv'
    BY <1>7, AcceptQueue
  <2>2. ArtifactInv'
    BY <1>7, ArtifactAssumption DEF Accept, ArtifactInv, TypeOK
  <2>3. WriteInv'
    BY <1>7, ArtifactAssumption, NoneAssumption
    DEF Accept, WriteInv, ArtifactInv, TypeOK, IsControl, InitialState, Successor
  <2>4. AnswerInv'
    BY <1>7, NoneAssumption DEF Accept, WriteInv, AnswerInv, TypeOK, ReportedIsDurable, ArtifactInv
  <2>5. AckedDurable'
    BY <1>7, ArtifactAssumption
    DEF Accept, AckedDurable, RestoredState, InitialState, fresh, TypeOK, WriteInv, QueueInv, AnswerInv, ArtifactInv
  <2>6. ReportedIsDurable'
    BY <1>7 DEF Accept, ReportedIsDurable, TypeOK, WriteInv, AnswerInv, ArtifactInv
  <2> QED BY <1>0, <2>1, <2>2, <2>3, <2>4, <2>5, <2>6
<1>8. CASE ReadFails
  <2>1. QueueInv'
    BY <1>8 DEF ReadFails, QueueInv, IsControl, TypeOK
  <2>2. ArtifactInv'
    BY <1>8, ArtifactAssumption DEF ReadFails, ArtifactInv, TypeOK
  <2>3. WriteInv'
    BY <1>8, ArtifactAssumption, NoneAssumption
    DEF ReadFails, WriteInv, ArtifactInv, TypeOK, IsControl, InitialState, Successor
  <2>4. AnswerInv'
    BY <1>8, NoneAssumption DEF ReadFails, WriteInv, AnswerInv, TypeOK, ReportedIsDurable, ArtifactInv
  <2>5. AckedDurable'
    BY <1>8, ArtifactAssumption
    DEF ReadFails, AckedDurable, RestoredState, InitialState, fresh, TypeOK, WriteInv, QueueInv, AnswerInv, ArtifactInv
  <2>6. ReportedIsDurable'
    BY <1>8 DEF ReadFails, ReportedIsDurable, TypeOK, WriteInv, AnswerInv, ArtifactInv
  <2> QED BY <1>0, <2>1, <2>2, <2>3, <2>4, <2>5, <2>6
<1>9. CASE Respond
  <2>1. QueueInv'
    BY <1>9 DEF Respond, QueueInv, IsControl, TypeOK
  <2>2. ArtifactInv'
    BY <1>9, ArtifactAssumption DEF Respond, ArtifactInv, TypeOK
  <2>3. WriteInv'
    BY <1>9, ArtifactAssumption, NoneAssumption
    DEF Respond, WriteInv, ArtifactInv, TypeOK, IsControl, InitialState, Successor
  <2>4. AnswerInv'
    BY <1>9, NoneAssumption DEF Respond, WriteInv, AnswerInv, TypeOK, ReportedIsDurable, ArtifactInv, DirectResponse, Granted, Reply, Rejected
  <2>5. AckedDurable'
    BY <1>9, ArtifactAssumption
    DEF Respond, AckedDurable, RestoredState, InitialState, fresh, TypeOK, WriteInv, QueueInv, AnswerInv, ArtifactInv
  <2>6. ReportedIsDurable'
    BY <1>9 DEF Respond, ReportedIsDurable, TypeOK, WriteInv, AnswerInv, ArtifactInv
  <2> QED BY <1>0, <2>1, <2>2, <2>3, <2>4, <2>5, <2>6
<1>10. CASE BeginTransition
  <2>1. QueueInv'
    BY <1>10 DEF BeginTransition, QueueInv, IsControl, TypeOK
  <2>2. ArtifactInv'
    BY <1>10, ArtifactAssumption DEF BeginTransition, ArtifactInv, TypeOK
  <2>3. WriteInv'
    BY <1>10, ArtifactAssumption, NoneAssumption
    DEF BeginTransition, WriteInv, ArtifactInv, TypeOK, IsControl, InitialState, Successor, NeedsPersist, is_control_source
  <2>4. AnswerInv'
    BY <1>10, NoneAssumption DEF BeginTransition, WriteInv, AnswerInv, TypeOK, ReportedIsDurable, ArtifactInv
  <2>5. AckedDurable'
    BY <1>10, ArtifactAssumption
    DEF BeginTransition, AckedDurable, RestoredState, InitialState, fresh, TypeOK, WriteInv, QueueInv, AnswerInv, ArtifactInv
  <2>6. ReportedIsDurable'
    BY <1>10 DEF BeginTransition, ReportedIsDurable, TypeOK, WriteInv, AnswerInv, ArtifactInv
  <2> QED BY <1>0, <2>1, <2>2, <2>3, <2>4, <2>5, <2>6
<1>11. CASE PersistFails
  <2>1. QueueInv'
    BY <1>11 DEF PersistFails, QueueInv, IsControl, TypeOK
  <2>2. ArtifactInv'
    BY <1>11, ArtifactAssumption DEF PersistFails, ArtifactInv, TypeOK
  <2>3. WriteInv'
    BY <1>11, ArtifactAssumption, NoneAssumption
    DEF PersistFails, WriteInv, ArtifactInv, TypeOK, IsControl, InitialState, Successor
  <2>4. AnswerInv'
    BY <1>11, NoneAssumption DEF PersistFails, WriteInv, AnswerInv, TypeOK, ReportedIsDurable, ArtifactInv, Reply, Rejected
  <2>5. AckedDurable'
    BY <1>11, ArtifactAssumption
    DEF PersistFails, AckedDurable, RestoredState, InitialState, fresh, TypeOK, WriteInv, QueueInv, AnswerInv, ArtifactInv
  <2>6. ReportedIsDurable'
    BY <1>11 DEF PersistFails, ReportedIsDurable, TypeOK, WriteInv, AnswerInv, ArtifactInv
  <2> QED BY <1>0, <2>1, <2>2, <2>3, <2>4, <2>5, <2>6
<1>12. CASE Rename
  <2>1. QueueInv'
    BY <1>12 DEF Rename, QueueInv, IsControl, TypeOK
  <2>2. ArtifactInv'
    BY <1>12, ArtifactAssumption DEF Rename, ArtifactInv, TypeOK
  <2>3. WriteInv'
    BY <1>12, ArtifactAssumption, NoneAssumption
    DEF Rename, WriteInv, ArtifactInv, TypeOK, IsControl, InitialState, Successor
  <2>4. AnswerInv'
    BY <1>12, NoneAssumption DEF Rename, WriteInv, AnswerInv, TypeOK, ReportedIsDurable, ArtifactInv
  <2>5. AckedDurable'
    BY <1>12, ArtifactAssumption
    DEF Rename, AckedDurable, RestoredState, InitialState, fresh, TypeOK, WriteInv, QueueInv, AnswerInv, ArtifactInv
  <2>6. ReportedIsDurable'
    BY <1>12 DEF Rename, ReportedIsDurable, TypeOK, WriteInv, AnswerInv, ArtifactInv, Persisted, Successor
  <2> QED BY <1>0, <2>1, <2>2, <2>3, <2>4, <2>5, <2>6
<1>13. CASE FinishTransition
  <2>1. QueueInv'
    BY <1>13 DEF FinishTransition, QueueInv, IsControl, TypeOK
  <2>2. ArtifactInv'
    BY <1>13, ArtifactAssumption DEF FinishTransition, ArtifactInv, TypeOK
  <2>3. WriteInv'
    BY <1>13, ArtifactAssumption, NoneAssumption
    DEF FinishTransition, WriteInv, ArtifactInv, TypeOK, IsControl, InitialState, Successor
  <2>4. AnswerInv'
    BY <1>13, NoneAssumption DEF FinishTransition, WriteInv, AnswerInv, TypeOK, ReportedIsDurable, ArtifactInv, Persisted, Reply, Successor
  <2>5. AckedDurable'
    BY <1>13, ArtifactAssumption
    DEF FinishTransition, AckedDurable, RestoredState, InitialState, fresh, TypeOK, WriteInv, QueueInv, AnswerInv, ArtifactInv
  <2>6. ReportedIsDurable'
    BY <1>13 DEF FinishTransition, ReportedIsDurable, TypeOK, WriteInv, AnswerInv, ArtifactInv
  <2> QED BY <1>0, <2>1, <2>2, <2>3, <2>4, <2>5, <2>6
<1>14. CASE Send
  <2>1. QueueInv'
    BY <1>14 DEF Send, QueueInv, IsControl, TypeOK
  <2>2. ArtifactInv'
    BY <1>14, ArtifactAssumption DEF Send, ArtifactInv, TypeOK
  <2>3. WriteInv'
    BY <1>14, ArtifactAssumption, NoneAssumption
    DEF Send, WriteInv, ArtifactInv, TypeOK, IsControl, InitialState, Successor
  <2>4. AnswerInv'
    BY <1>14, NoneAssumption DEF Send, WriteInv, AnswerInv, TypeOK, ReportedIsDurable, ArtifactInv, Persisted, Response
  <2>5. AckedDurable'
    BY <1>14, ArtifactAssumption
    DEF Send, AckedDurable, RestoredState, InitialState, fresh, TypeOK, WriteInv, QueueInv, AnswerInv, ArtifactInv
  <2>6. ReportedIsDurable'
    BY <1>14 DEF Send, ReportedIsDurable, TypeOK, WriteInv, AnswerInv, ArtifactInv, Persisted
  <2> QED BY <1>0, <2>1, <2>2, <2>3, <2>4, <2>5, <2>6
<1>15. CASE Crash
  <2>1. QueueInv'
    BY <1>15 DEF Crash, QueueInv, IsControl, TypeOK
  <2>2. ArtifactInv'
    BY <1>15, ArtifactAssumption DEF Crash, ArtifactInv, TypeOK
  <2>3. WriteInv'
    BY <1>15, ArtifactAssumption, NoneAssumption
    DEF Crash, WriteInv, ArtifactInv, TypeOK, IsControl, InitialState, Successor
  <2>4. AnswerInv'
    BY <1>15, NoneAssumption DEF Crash, WriteInv, AnswerInv, TypeOK, ReportedIsDurable, ArtifactInv
  <2>5. AckedDurable'
    BY <1>15, ArtifactAssumption
    DEF Crash, AckedDurable, RestoredState, InitialState, fresh, TypeOK, WriteInv, QueueInv, AnswerInv, ArtifactInv
  <2>6. ReportedIsDurable'
    BY <1>15 DEF Crash, ReportedIsDurable, TypeOK, WriteInv, AnswerInv, ArtifactInv
  <2> QED BY <1>0, <2>1, <2>2, <2>3, <2>4, <2>5, <2>6
<1>16. CASE Damage
  <2>1. QueueInv'
    BY <1>16 DEF Damage, QueueInv, IsControl, TypeOK
  <2>2. ArtifactInv'
    BY <1>16, ArtifactAssumption DEF Damage, ArtifactInv, TypeOK
  <2>3. WriteInv'
    BY <1>16, ArtifactAssumption, NoneAssumption
    DEF Damage, WriteInv, ArtifactInv, TypeOK, IsControl, InitialState, Successor
  <2>4. AnswerInv'
    BY <1>16, NoneAssumption DEF Damage, WriteInv, AnswerInv, TypeOK, ReportedIsDurable, ArtifactInv
  <2>5. AckedDurable'
    BY <1>16, ArtifactAssumption
    DEF Damage, AckedDurable, RestoredState, InitialState, fresh, TypeOK, WriteInv, QueueInv, AnswerInv, ArtifactInv
  <2>6. ReportedIsDurable'
    BY <1>16 DEF Damage, ReportedIsDurable, TypeOK, WriteInv, AnswerInv, ArtifactInv
  <2> QED BY <1>0, <2>1, <2>2, <2>3, <2>4, <2>5, <2>6
<1>17. CASE UNCHANGED vars
  BY <1>0, <1>17 DEF vars, ArtifactInv, WriteInv, QueueInv, AnswerInv, AckedDurable,
    ReportedIsDurable, RestoredState, InitialState, IsControl, Successor
<1> QED
  BY <1>1, <1>2, <1>3, <1>4, <1>5, <1>6, <1>7, <1>8, <1>9, <1>10, <1>11, <1>12, <1>13, <1>14, <1>15, <1>16, <1>17 DEF Next, Serve

\* The inductive invariant holds in every behaviour.
LEMMA LockdInvariant == Spec => []LockdInv
  BY InitLockdInv, NextLockdInv, PTL DEF Spec

\* An acknowledged SetLockState survives every later crash, whatever abandoned
\* requests were queued before it (transition persists before it acknowledges).
THEOREM AckedDurableHolds == Spec => []AckedDurable
<1>1. LockdInv => AckedDurable
  BY DEF LockdInv
<1> QED BY <1>1, LockdInvariant, PTL

\* A generation a client was told of is never given to another lock state.
THEOREM ReportedIsDurableHolds == Spec => []ReportedIsDurable
<1>1. LockdInv => ReportedIsDurable
  BY DEF LockdInv
<1> QED BY <1>1, LockdInvariant, PTL

\* No step but the write of a SetLockState(Unlocked) of sessiond unlocks.
LEMMA UnlockStep ==
    ASSUME LockdInv, [Next]_vars,
           RestoredState # "Unlocked", RestoredState' = "Unlocked"
    PROVE  pc = "Persist" /\ IsControl(req) /\ req.state = "Unlocked"
<1> USE DEF LockdInv
<1>1. disk' # disk
  BY DEF RestoredState, InitialState
<1>2. CASE InitRename
  BY <1>2, ArtifactAssumption DEF InitRename, WriteInv, RestoredState, InitialState, fresh, TypeOK
<1>3. CASE Rename
  BY <1>3, ArtifactAssumption DEF Rename, WriteInv, RestoredState, InitialState, Successor, TypeOK
<1>4. CASE Damage
  BY <1>4, ArtifactAssumption DEF Damage, RestoredState, InitialState, fresh
<1>5. InitRename \/ Rename \/ Damage
  BY <1>1 DEF Next, Serve, vars, Connect, GiveUp, Start, LoadRecovered, LoadInitialize,
    Accept, ReadFails, Respond, BeginTransition, PersistFails, FinishTransition, Send, Crash
<1> QED BY <1>2, <1>3, <1>4, <1>5

\* Only a SetLockState(Unlocked) of sessiond takes the session out of a locked
\* or blank state; crashes, restarts and damaged artifacts never do.
THEOREM UnlockOnlyOnRequestHolds == Spec => UnlockOnlyOnRequest
<1>1. LockdInv /\ [Next]_vars
        => [RestoredState # "Unlocked" /\ RestoredState' = "Unlocked"
              => pc = "Persist" /\ IsControl(req) /\ req.state = "Unlocked"]_vars
  BY UnlockStep
<1> QED BY <1>1, LockdInvariant, PTL DEF Spec, UnlockOnlyOnRequest

-----------------------------------------------------------------------------
(* Resume.  A resume completes only on a locked session, and a restart      *)
(* request is executed as the driver meant it, for every set of profiles,    *)
(* whatever their components, bindings and policies, and for any number of   *)
(* resumes and crashes.                                                      *)

\* What the driver has behind it when it makes a call: the resume has not
\* failed, compd has heard that the outputs are back before lockd is asked to
\* prompt, and lockd has prompted before compd hears that all is complete.
DriverInv ==
    /\ phase \in {"Lock", "Outputs", "Prompt", "Complete"} => final = "normal"
    /\ phase \in {"Begin", "Lock", "Outputs", "Prompt", "Complete"} => "complete" \notin hints
    /\ phase \in {"Prompt", "Complete"} => "outputs" \in hints
    /\ \/ phase = "Complete"
       \/ phase \in {"Restart", "Finish", "Done"} /\ final = "normal"
       \/ "complete" \in hints
       => steps["prompt"] = "success" /\ "outputs" \in hints
    /\ steps["prompt"] = "success" => lock # "Unlocked"

\* The driver asked for a restart of s under profile p.
Meant(p, s) == DriverEnabled(p, s) /\ Resolve(p, s).result = "selected"

\* What is in the recovery artifacts and in the supervisor's hands: a request
\* passed the driver's gates, and a result was computed for the profile that is
\* still managed.
RecoveryInv ==
    /\ request \in [Services -> Requests \cup {Nil}]
    /\ taken \in Requests \cup {Nil}
    /\ result \in Results \cup {Nil}
    /\ DOMAIN execution = Services
    /\ \A s \in Services : request[s] # Nil => Meant(request[s].by, s)
    /\ taken # Nil => Meant(taken.by, turn)
    /\ result # Nil =>
           \E spawned \in BOOLEAN : result.outcome = ExecuteRecovery(managed, turn, spawned)

ResumeInv == RecoveryAgrees /\ DriverInv /\ RecoveryInv

-----------------------------------------------------------------------------
(* Bindings *)

\* A component that is selected has the role of the service.
LEMMA SelectedHasRole ==
    ASSUME NEW p \in Profiles, NEW s \in Services,
           Resolve(p, s).component # Nil, ~Misbound(p, s)
    PROVE  /\ Resolve(p, s).component \in DOMAIN p.comps
           /\ p.comps[Resolve(p, s).component] = expected_component_role(s)
<1>1. p # Nil
    BY ProfilesAssumption
<1>2. CASE p.bound[s] # {} /\ ~(\E c, d \in p.bound[s] : c # d)
    BY <1>1, <1>2 DEF Resolve, ResolveBound, Resolution, Misbound
<1>3. ASSUME p.bound[s] = {}, ~(\E c, d \in p.bound[s] : c # d), s = "compd",
             \E c \in DOMAIN p.comps : WindowManagers(p) = {c}
      PROVE  /\ Resolve(p, s).component \in DOMAIN p.comps
             /\ p.comps[Resolve(p, s).component] = expected_component_role(s)
    <2>1. WindowManagers(p) # {}
        BY <1>3
    <2>2. Resolve(p, s).component \in WindowManagers(p)
        BY <1>1, <1>3, <2>1 DEF Resolve, ResolveLegacy, Resolution
    <2> QED BY <2>2, <1>3 DEF WindowManagers, expected_component_role
<1>4. (\E c, d \in p.bound[s] : c # d) => Resolve(p, s).component = Nil
    BY <1>1 DEF Resolve, Resolution
<1>5. p.bound[s] = {} /\ ~(\E c, d \in p.bound[s] : c # d) /\ s # "compd"
        => Resolve(p, s).component = Nil
    BY <1>1 DEF Resolve, Resolution
<1>6. p.bound[s] = {} /\ ~(\E c, d \in p.bound[s] : c # d) /\ s = "compd"
        /\ ~(\E c \in DOMAIN p.comps : WindowManagers(p) = {c}) => Resolve(p, s).component = Nil
    BY <1>1 DEF Resolve, ResolveLegacy, Resolution
<1> QED BY <1>2, <1>3, <1>4, <1>5, <1>6

\* Selected without a component: only lockd, and only one of the broker's own.
LEMMA OwnLockd ==
    ASSUME NEW p \in Profiles, NEW s \in Services,
           Resolve(p, s).result = "selected", Resolve(p, s).component = Nil
    PROVE  s = "lockd" /\ p.ownLockd
<1>1. p # Nil
    BY ProfilesAssumption
<1>2. ~(\E c, d \in p.bound[s] : c # d)
    BY <1>1 DEF Resolve, Resolution
<1>3. p.bound[s] = {}
    <2> SUFFICES ASSUME p.bound[s] # {} PROVE FALSE
        OBVIOUS
    <2> DEFINE c == CHOOSE c \in p.bound[s] : TRUE
    <2>1. Resolve(p, s) = ResolveBound(p, s, c)
        BY <1>1, <1>2 DEF Resolve
    <2>2. c = Nil /\ c \in DOMAIN p.comps
        BY <2>1 DEF ResolveBound, Resolution
    <2> QED BY <2>2, NilAssumption DEF Components
<1>4. ASSUME s = "compd" PROVE FALSE
    <2>1. Resolve(p, s) = ResolveLegacy(p)
        BY <1>1, <1>2, <1>3, <1>4 DEF Resolve
    <2>2. \E c \in DOMAIN p.comps : WindowManagers(p) = {c}
        BY <2>1 DEF ResolveLegacy, Resolution
    <2>3. WindowManagers(p) # {}
        BY <2>2
    <2>4. Resolve(p, s).component \in WindowManagers(p)
        BY <2>1, <2>2, <2>3 DEF ResolveLegacy, Resolution
    <2>5. Nil \in DOMAIN p.comps
        BY <2>4 DEF WindowManagers
    <2> QED BY <2>5, NilAssumption DEF Components
<1>5. s = "lockd"
    BY <1>4 DEF Services
<1> QED BY <1>1, <1>2, <1>3, <1>4, <1>5 DEF Resolve, Resolution

\* execute_recovery stops only a component of the service's own role.
LEMMA ExecutesOwnRole ==
    ASSUME NEW p \in Profiles, NEW s \in Services, NEW spawned \in BOOLEAN
    PROVE  LET out == ExecuteRecovery(p, s, spawned)
           IN  /\ out \in Outcomes
               /\ out.component # Nil => p.comps[out.component] = expected_component_role(s)
<1>1. CASE Resolve(p, s).component = Nil \/ Misbound(p, s)
    BY <1>1 DEF ExecuteRecovery, Outcomes
<1>2. CASE Resolve(p, s).component # Nil /\ ~Misbound(p, s)
    <2>1. /\ Resolve(p, s).component \in DOMAIN p.comps
          /\ p.comps[Resolve(p, s).component] = expected_component_role(s)
        BY <1>2, SelectedHasRole
    <2>2. Resolve(p, s).component \in Components
        BY <2>1 DEF Components
    <2> QED BY <2>1, <2>2 DEF ExecuteRecovery, Outcomes
<1> QED BY <1>1, <1>2

\* What passed the driver's gates under the profile that is managed passes those
\* of execute_recovery.
LEMMA GatesAgree ==
    ASSUME NEW p \in Profiles, NEW s \in Services, NEW spawned \in BOOLEAN, Meant(p, s)
    PROVE  LET out == ExecuteRecovery(p, s, spawned)
           IN  \/ out.result \in {"succeeded", "failed"}
               \/ s = "lockd" /\ p.ownLockd /\ out.result = "no-executor"
<1>1. ExecutorEnabled(p, s)
    BY ProfilesAssumption DEF Meant, DriverEnabled, ExecutorEnabled
<1>2. Resolve(p, s).result = "selected"
    BY DEF Meant
<1>3. CASE Resolve(p, s).component = Nil
    <2>1. s = "lockd" /\ p.ownLockd
        BY <1>2, <1>3, OwnLockd
    <2> QED BY <1>1, <1>2, <1>3, <2>1 DEF ExecuteRecovery, Misbound
<1>4. CASE Resolve(p, s).component # Nil
    BY <1>1, <1>2, <1>4 DEF ExecuteRecovery, Misbound
<1> QED BY <1>3, <1>4

-----------------------------------------------------------------------------
(* Steps *)

\* No call has been made and nothing was requested.
LEMMA InitResume == ResumeInit => ResumeInv
<1> SUFFICES ASSUME ResumeInit PROVE ResumeInv
    OBVIOUS
<1>1. ResumeTypeOK
    <2>1. steps \in [Steps -> Answers \cup {"absent", "skipped"}]
        BY DEF ResumeInit, NoSteps
    <2>2. 0 \in 0..MaxResumes /\ 0 \in 0..MaxCrashes
        BY ResumeBounds
    <2>3. resumes \in 0..MaxResumes /\ crashes \in 0..MaxCrashes /\ lateLock \in BOOLEAN
        BY <2>2 DEF ResumeInit
    <2> QED BY <2>1, <2>3 DEF ResumeInit, ResumeTypeOK, Services
<1>2. RestartsOwnRole /\ GateAgrees
    BY DEF ResumeInit, RestartsOwnRole, GateAgrees
<1>3. DriverInv
    BY DEF ResumeInit, DriverInv, NoSteps, Steps
<1>4. RecoveryInv
    BY DEF ResumeInit, RecoveryInv
<1> QED BY <1>1, <1>2, <1>3, <1>4 DEF ResumeInv, RecoveryAgrees

\* The driver's calls up to the decision about a restart, and what becomes of
\* lockd meanwhile, leave recovery alone.
LEMMA RecoveryUntouched ==
    ASSUME ResumeInv, UNCHANGED <<active, superVars, request, execution>>
    PROVE  RestartsOwnRole' /\ GateAgrees' /\ RecoveryInv'
<1>1. RestartsOwnRole' /\ GateAgrees'
    BY DEF ResumeInv, RecoveryAgrees, RestartsOwnRole, GateAgrees
<1>2. RecoveryInv'
    BY DEF ResumeInv, RecoveryInv, superVars
<1> QED BY <1>1, <1>2

\* The supervisor's steps leave the driver and lockd alone.
LEMMA DriverUntouched ==
    ASSUME ResumeInv, UNCHANGED <<driverVars, serviceVars>>
    PROVE  DriverInv'
BY DEF ResumeInv, DriverInv, driverVars, serviceVars

LEMMA CallStep ==
    ASSUME ResumeInv, NEW a \in Answers, Call(a)
    PROVE  ResumeInv'
<1> USE DEF ResumeInv, RecoveryAgrees
<1>1. UNCHANGED <<active, superVars, request, execution>>
    BY DEF Call, ResumeBegin, SetLockState, OutputsRecovered, AuthPrompt, Complete
<1>2. RestartsOwnRole' /\ GateAgrees' /\ RecoveryInv'
    BY <1>1, RecoveryUntouched
<1>3. ResumeTypeOK' /\ DriverInv'
    <2>1. CASE ResumeBegin(a)
        BY <2>1 DEF ResumeBegin, Proceed, ResumeTypeOK, DriverInv, Answers, superVars, serviceVars, Steps
    <2>2. CASE SetLockState(a)
        <3>1. lateLock' \in BOOLEAN
            BY <2>2 DEF SetLockState, ResumeTypeOK
        <3>2. ResumeTypeOK'
            BY <2>2, <3>1 DEF SetLockState, Proceed, ResumeTypeOK, Answers, superVars, LockdStates
        <3>3. DriverInv'
            BY <2>2 DEF SetLockState, Proceed, ResumeTypeOK, DriverInv, Answers, Steps
        <3> QED BY <3>2, <3>3
    <2>3. CASE OutputsRecovered(a)
        BY <2>3 DEF OutputsRecovered, Hint, Proceed, ResumeTypeOK, DriverInv, Answers, superVars, Steps
    <2>4. CASE AuthPrompt(a)
        <3>1. ResumeTypeOK'
            BY <2>4 DEF AuthPrompt, Proceed, ResumeTypeOK, Answers, superVars, serviceVars
        <3>2. DriverInv'
            BY <2>4 DEF AuthPrompt, Proceed, ResumeTypeOK, DriverInv, Answers, serviceVars, Steps
        <3> QED BY <3>1, <3>2
    <2>5. CASE Complete(a)
        BY <2>5 DEF Complete, Hint, Proceed, ResumeTypeOK, DriverInv, Answers, superVars, Steps
    <2> QED BY <2>1, <2>2, <2>3, <2>4, <2>5 DEF Call
<1> QED BY <1>2, <1>3

\* A request the driver makes has passed its gates.
LEMMA RequestStep ==
    ASSUME ResumeInv, NEW s \in Services, NEW a \in Answers, RequestRestart(s, a)
    PROVE  ResumeInv'
<1> USE DEF ResumeInv, RecoveryAgrees
<1>1. ResumeTypeOK' /\ DriverInv'
    BY DEF RequestRestart, ResumeTypeOK, DriverInv, Answers, superVars, serviceVars, Steps
<1>2. RestartsOwnRole' /\ GateAgrees'
    BY DEF RequestRestart, RestartsOwnRole, GateAgrees
<1>3. [id |-> resumes, by |-> seen] \in Requests
    BY DEF ResumeTypeOK, Requests
<1>4. RecoveryInv'
    <2>1. \/ request' = [request EXCEPT ![s] = [id |-> resumes, by |-> seen]]
          \/ request' = request
        BY DEF RequestRestart
    <2>2. Meant(seen, s)
        BY DEF RequestRestart, Meant
    <2> QED BY <1>3, <2>1, <2>2 DEF RequestRestart, RecoveryInv, superVars
<1> QED BY <1>1, <1>2, <1>4

\* A restart that is skipped is recorded without an executor.
LEMMA SkipStep ==
    ASSUME ResumeInv, NEW s \in Services, SkipRestart(s)
    PROVE  ResumeInv'
<1> USE DEF ResumeInv, RecoveryAgrees
<1>1. ResumeTypeOK' /\ DriverInv'
    BY DEF SkipRestart, ResumeTypeOK, DriverInv, Answers, superVars, serviceVars, Steps
<1>2. \/ execution' = execution
      \/ execution' = [execution EXCEPT ![s] = Execution(resumes, seen, Nil, "config-error", Nil)]
    BY DEF SkipRestart
<1>3. DOMAIN execution = Services
    BY DEF RecoveryInv
<1>4. RestartsOwnRole' /\ GateAgrees'
    BY <1>2, <1>3 DEF RestartsOwnRole, GateAgrees, Execution
<1>5. RecoveryInv'
    BY <1>2 DEF SkipRestart, RecoveryInv, superVars
<1> QED BY <1>1, <1>4, <1>5

\* The rest of the driver's and lockd's steps.
LEMMA QuietStep ==
    ASSUME ResumeInv,
           \/ \E p \in {active, Nil} : BeginResume(p)
           \/ Finish \/ DriverDies \/ LateLock \/ LockdFailsClosed
    PROVE  ResumeInv'
<1> USE DEF ResumeInv, RecoveryAgrees
<1>1. UNCHANGED <<active, superVars, request, execution>>
    BY DEF BeginResume, Finish, DriverDies, LateLock, LockdFailsClosed
<1>2. RestartsOwnRole' /\ GateAgrees' /\ RecoveryInv'
    BY <1>1, RecoveryUntouched
<1>3. ResumeTypeOK' /\ DriverInv'
    <2>1. ASSUME NEW p \in {active, Nil}, BeginResume(p) PROVE ResumeTypeOK' /\ DriverInv'
        BY <2>1, ResumeBounds DEF BeginResume, ResumeTypeOK, DriverInv, superVars, NoSteps, Steps, LockdStates
    <2>2. CASE Finish
        BY <2>2 DEF Finish, Blamed, ResumeTypeOK, DriverInv, superVars, serviceVars
    <2>3. CASE DriverDies
        BY <2>3, ResumeBounds DEF DriverDies, ResumeTypeOK, DriverInv, superVars, serviceVars
    <2>4. CASE LateLock
        BY <2>4 DEF LateLock, ResumeTypeOK, DriverInv, superVars, driverVars, LockdStates
    <2>5. CASE LockdFailsClosed
        BY <2>5 DEF LockdFailsClosed, ResumeTypeOK, DriverInv, superVars, driverVars, LockdStates
    <2> QED BY <2>1, <2>2, <2>3, <2>4, <2>5
<1> QED BY <1>2, <1>3

\* The supervisor comes and goes and changes its profile with nothing in its hands.
LEMMA SupervisorStep ==
    ASSUME ResumeInv,
           \/ StartSupervisor \/ Skip \/ Read \/ Remove \/ SupervisorDies
           \/ \E p \in Degraded : FallBack(p)
    PROVE  ResumeInv'
<1> USE DEF ResumeInv, RecoveryAgrees
<1>1. UNCHANGED <<driverVars, serviceVars, execution>>
    BY DEF StartSupervisor, Skip, Read, Remove, SupervisorDies, FallBack
<1>2. RestartsOwnRole' /\ GateAgrees' /\ DriverInv'
    BY <1>1, DriverUntouched DEF RestartsOwnRole, GateAgrees
<1>3. ResumeTypeOK' /\ RecoveryInv'
    <2>1. CASE StartSupervisor
        BY <2>1 DEF StartSupervisor, ResumeTypeOK, RecoveryInv, driverVars, serviceVars
    <2>2. CASE Skip
        BY <2>2 DEF Skip, Other, Services, ResumeTypeOK, RecoveryInv, driverVars, serviceVars
    <2>3. CASE Read
        BY <2>3 DEF Read, ResumeTypeOK, RecoveryInv, driverVars, serviceVars
    <2>4. CASE Remove
        BY <2>4 DEF Remove, Other, Services, ResumeTypeOK, RecoveryInv, driverVars, serviceVars
    <2>5. CASE SupervisorDies
        BY <2>5, ResumeBounds DEF SupervisorDies, Services, ResumeTypeOK, RecoveryInv, driverVars, serviceVars
    <2>6. ASSUME NEW p \in Degraded, FallBack(p) PROVE ResumeTypeOK' /\ RecoveryInv'
        BY <2>6, ProfilesAssumption DEF FallBack, ResumeTypeOK, RecoveryInv, driverVars, serviceVars
    <2> QED BY <2>1, <2>2, <2>3, <2>4, <2>5, <2>6
<1> QED BY <1>2, <1>3

\* execute_recovery runs under the managed profile.
LEMMA ExecuteStep ==
    ASSUME ResumeInv, NEW spawned \in BOOLEAN, Execute(spawned)
    PROVE  ResumeInv'
<1> USE DEF ResumeInv, RecoveryAgrees
<1>1. DriverInv' /\ RestartsOwnRole' /\ GateAgrees'
    BY DriverUntouched DEF Execute, RestartsOwnRole, GateAgrees
<1>2. managed \in Profiles /\ turn \in Services /\ taken \in Requests
    BY DEF Execute, ResumeTypeOK, RecoveryInv
<1>3. ExecuteRecovery(managed, turn, spawned) \in Outcomes
    BY <1>2, ExecutesOwnRole
<1>4. result' \in Results
    BY <1>2, <1>3 DEF Execute, RecoveryInv, Results, Requests
<1>5. ResumeTypeOK'
    BY <1>4, NilAssumption DEF Execute, ResumeTypeOK, driverVars, serviceVars
<1>6. RecoveryInv'
    BY <1>4 DEF Execute, RecoveryInv
<1> QED BY <1>1, <1>5, <1>6

\* What is recorded is what execute_recovery returned for the managed profile.
LEMMA RecordStep ==
    ASSUME ResumeInv, Record
    PROVE  ResumeInv'
<1> USE DEF ResumeInv, RecoveryAgrees
<1>1. DriverInv'
    BY DriverUntouched DEF Record
<1>2. /\ managed \in Profiles /\ turn \in Services /\ Meant(taken.by, turn)
      /\ result # Nil
    BY DEF Record, ResumeTypeOK, RecoveryInv
<1>3. PICK spawned \in BOOLEAN : result.outcome = ExecuteRecovery(managed, turn, spawned)
    BY <1>2 DEF RecoveryInv
<1> DEFINE out == result.outcome
<1>4. out.component # Nil => managed.comps[out.component] = expected_component_role(turn)
    BY <1>2, <1>3, ExecutesOwnRole
<1>5. taken.by = managed =>
        \/ out.result \in {"succeeded", "failed"}
        \/ turn = "lockd" /\ managed.ownLockd /\ out.result = "no-executor"
    BY <1>2, <1>3, GatesAgree
<1>6. execution' = [execution EXCEPT ![turn] =
          Execution(result.covers, taken.by, managed, out.result, out.component)]
    BY DEF Record
<1>7. DOMAIN execution = Services
    BY DEF RecoveryInv
<1>8. RestartsOwnRole'
    BY <1>4, <1>6, <1>7 DEF RestartsOwnRole, Execution
<1>9. GateAgrees'
    BY <1>5, <1>6, <1>7 DEF GateAgrees, Execution
<1>10. ResumeTypeOK'
    BY DEF Record, ResumeTypeOK, driverVars, serviceVars
<1>11. RecoveryInv'
    BY <1>6, <1>7 DEF Record, RecoveryInv
<1> QED BY <1>1, <1>8, <1>9, <1>10, <1>11

\* Every step keeps the invariant.
LEMMA StepKeepsResume == ResumeInv /\ [ResumeNext]_resumeVars => ResumeInv'
<1> SUFFICES ASSUME ResumeInv, [ResumeNext]_resumeVars PROVE ResumeInv'
    OBVIOUS
<1>1. ASSUME NEW a \in Answers, Call(a) PROVE ResumeInv'
    BY <1>1, CallStep
<1>2. ASSUME NEW s \in Services, SkipRestart(s) PROVE ResumeInv'
    BY <1>2, SkipStep
<1>3. ASSUME NEW s \in Services, NEW a \in Answers, RequestRestart(s, a) PROVE ResumeInv'
    BY <1>3, RequestStep
<1>4. ASSUME NEW spawned \in BOOLEAN, Execute(spawned) PROVE ResumeInv'
    BY <1>4, ExecuteStep
<1>5. CASE Record
    BY <1>5, RecordStep
<1>6. CASE UNCHANGED resumeVars
    <2>1. UNCHANGED <<driverVars, serviceVars, active, superVars, request, execution>>
        BY <1>6 DEF resumeVars
    <2>2. ResumeTypeOK'
        BY <1>6 DEF resumeVars, driverVars, serviceVars, superVars, ResumeInv, RecoveryAgrees, ResumeTypeOK
    <2> QED BY <2>1, <2>2, RecoveryUntouched, DriverUntouched DEF ResumeInv, RecoveryAgrees
<1> QED BY <1>1, <1>2, <1>3, <1>4, <1>5, <1>6, QuietStep, SupervisorStep
        DEF ResumeNext, Drive, Supervise

LEMMA ResumeInvariant == ResumeSpec => []ResumeInv
<1> QED BY InitResume, StepKeepsResume, PTL DEF ResumeSpec

-----------------------------------------------------------------------------

\* compd hears that a resume is complete, and a resume ends normal, only on a
\* locked session whose prompt lockd accepted, for any answers to the calls and
\* any crashes.
THEOREM CompletesLockedHolds == ResumeSpec => []CompletesLocked
<1>1. ResumeInv => CompletesLocked
    BY DEF ResumeInv, DriverInv, CompletesLocked
<1> QED BY <1>1, ResumeInvariant, PTL

\* Whatever profiles users write, a restart stops only a component of the role
\* that serves the request, and a request the driver found worth making is not
\* refused by a supervisor that runs the profile the driver has read.
THEOREM RecoveryAgreesHolds == ResumeSpec => []RecoveryAgrees
<1>1. ResumeInv => RecoveryAgrees
    BY DEF ResumeInv
<1> QED BY <1>1, ResumeInvariant, PTL

-----------------------------------------------------------------------------
(***************************************************************************)
(* The security decisions of xwin-sec, for any apps, surfaces, grants and  *)
(* overrides and any order of calls: what is guarded takes its own grant,  *)
(* the grant that is asked for is the one that is looked up, and the order *)
(* of the early returns of the boundaries softens nothing.                 *)
(***************************************************************************)

-----------------------------------------------------------------------------
(* The policy                                                              *)

\* What the policy answers, and where it asks, for what.
AnswerFor(d, c, cap) ==
    \/ d = Allow \/ d = Deny
    \/ \E scope \in Scopes : d = RequireUserGrant(cap, scope)

LEMMA ScopesAreScopes ==
    ASSUME NEW c \in Contexts
    PROVE  /\ App(c.app) \in Scopes /\ SelectedHandle \in Scopes /\ SessionScope \in Scopes
           /\ Compositor \in Scopes
           /\ Captured(c) # Nothing => VisibleSurface(Captured(c)) \in Scopes
BY DEF Contexts, Scopes, Captured

LEMMA DecisionsDiffer ==
    \A cap, scope : /\ RequireUserGrant(cap, scope) # Allow /\ RequireUserGrant(cap, scope) # Deny
                    /\ Allow # Deny /\ Len(Allow) = 1 /\ Len(Deny) = 1
                    /\ Len(RequireUserGrant(cap, scope)) = 2
                    /\ RequireUserGrant(cap, scope)[2] = [capability |-> cap, scope |-> scope]
BY DEF RequireUserGrant, Allow, Deny

LEMMA UserAppAnswers ==
    ASSUME NEW c \in Contexts, NEW cap \in Capabilities
    PROVE  AnswerFor(allowed_for_user_app(c, cap), c, cap)
BY ScopesAreScopes DEF allowed_for_user_app, AnswerFor, GrantOrAsk, Capabilities, Clipboard, DragAndDrop

LEMMA DecideAnswers ==
    ASSUME NEW c \in Contexts, NEW cap \in Capabilities
    PROVE  AnswerFor(decide(c, cap), c, cap)
<1>1. AnswerFor(allowed_for_user_app(c, cap), c, cap)  BY UserAppAnswers
<1>2. AnswerFor(allowed_for_hostile(c, cap), c, cap)  BY <1>1 DEF allowed_for_hostile, AnswerFor
<1>3. AnswerFor(allowed_for_trusted_system(c, cap), c, cap)
  BY <1>1, ScopesAreScopes DEF allowed_for_trusted_system, AnswerFor, GrantOrAsk
<1>4. QED  BY <1>1, <1>2, <1>3 DEF decide, AnswerFor

\* What is guarded is allowed under its grant only.
LEMMA AllowedHasGrant ==
    ASSUME NEW c \in Contexts, NEW cap \in Capabilities, cap \notin Free, decide(c, cap) = Allow
    PROVE  has_grant(c, cap, NeededScope(c, cap))
<1>1. allowed_for_user_app(c, cap) = Allow => has_grant(c, cap, NeededScope(c, cap))
  BY DecisionsDiffer
  DEF allowed_for_user_app, GrantOrAsk, Capabilities, Clipboard, DragAndDrop, NeededScope, Free
<1>2. allowed_for_hostile(c, cap) = Allow => has_grant(c, cap, NeededScope(c, cap))
  BY <1>1, DecisionsDiffer DEF allowed_for_hostile, Free
<1>3. allowed_for_trusted_system(c, cap) = Allow => has_grant(c, cap, NeededScope(c, cap))
  BY <1>1, DecisionsDiffer
  DEF allowed_for_trusted_system, GrantOrAsk, NeededScope, Clipboard, DragAndDrop
<1>4. QED  BY <1>1, <1>2, <1>3, DecisionsDiffer DEF decide

\* One more grant of the user.
WithGrant(c, g) == [c EXCEPT !.grants = @ \cup {g}]

LEMMA WithGrantFacts ==
    ASSUME NEW c \in Contexts, NEW g \in Grants
    PROVE  LET d == WithGrant(c, g)
           IN  /\ d \in Contexts /\ d.app = c.app /\ d.kind = c.kind /\ d.trust = c.trust
               /\ d.source = c.source /\ d.target = c.target /\ d.focus = c.focus
               /\ d.visible = c.visible /\ d.grants = c.grants \cup {g}
BY DEF WithGrant, Contexts

\* The grant asked for is the one the decision looks for next time.
LEMMA AskedIsEnough ==
    ASSUME NEW c \in Contexts, NEW cap \in Capabilities, NEW scope \in Scopes,
           scope \notin {SelectedHandle, SessionScope},
           decide(c, cap) = RequireUserGrant(cap, scope)
    PROVE  decide(WithGrant(c, [capability |-> cap, scope |-> scope]), cap) = Allow
<1> DEFINE g == [capability |-> cap, scope |-> scope]
           d == WithGrant(c, g)
<1>1. g \in Grants  BY DEF Grants
<1>2. /\ d \in Contexts /\ d.app = c.app /\ d.kind = c.kind /\ d.trust = c.trust
      /\ d.source = c.source /\ d.target = c.target /\ d.focus = c.focus
      /\ d.visible = c.visible /\ d.grants = c.grants \cup {g}
  BY <1>1, WithGrantFacts
<1>3. has_grant(d, cap, scope)  BY <1>2 DEF has_grant
<1>4. Captured(d) = Captured(c) /\ effective_trust(d) = effective_trust(c)
  BY <1>2 DEF Captured, effective_trust
<1>5. \A s \in Scopes : RequireUserGrant(cap, s) = RequireUserGrant(cap, scope) => s = scope
  BY DEF RequireUserGrant
<1> HIDE DEF d, g
<1>6. allowed_for_user_app(c, cap) = RequireUserGrant(cap, scope) => allowed_for_user_app(d, cap) = Allow
  BY <1>2, <1>3, <1>4, <1>5, DecisionsDiffer, ScopesAreScopes
  DEF allowed_for_user_app, GrantOrAsk, Capabilities, Clipboard, DragAndDrop
<1>7. allowed_for_hostile(c, cap) = RequireUserGrant(cap, scope) => allowed_for_hostile(d, cap) = Allow
  BY <1>6, DecisionsDiffer DEF allowed_for_hostile
<1>8. allowed_for_trusted_system(c, cap) = RequireUserGrant(cap, scope)
          => allowed_for_trusted_system(d, cap) = Allow
  BY <1>2, <1>3, <1>5, <1>6, DecisionsDiffer, ScopesAreScopes DEF allowed_for_trusted_system, GrantOrAsk
<1>9. decide(d, cap) = Allow  BY <1>2, <1>4, <1>6, <1>7, <1>8, DecisionsDiffer DEF decide
<1>10. QED  BY <1>9 DEF d, g

\* The tables are ordered as the levels of trust.
LEMMA TablesAreOrdered ==
    ASSUME NEW c \in Contexts, NEW cap \in Capabilities, NEW t \in Trusts
    PROVE  /\ decide(As(c, "Browser", t), cap) = Allow => decide(As(c, "NativeApp", "UserApp"), cap) = Allow
           /\ decide(As(c, "NativeApp", "UserApp"), cap) = Allow
                  => decide(As(c, "SystemApp", "TrustedSystem"), cap) = Allow
           /\ decide(As(c, "Unknown", t), cap) # Allow
<1> DEFINE b == As(c, "Browser", t)
           n == As(c, "NativeApp", "UserApp")
           y == As(c, "SystemApp", "TrustedSystem")
           u == As(c, "Unknown", t)
<1>1. /\ b.kind = "Browser" /\ n.kind = "NativeApp" /\ n.trust = "UserApp" /\ u.kind = "Unknown"
      /\ y.kind = "SystemApp" /\ y.trust = "TrustedSystem"
  BY DEF As, Contexts
<1>2. \A x \in {b, n, y} :
          /\ x.app = c.app /\ x.source = c.source /\ x.target = c.target /\ x.focus = c.focus
          /\ x.visible = c.visible /\ x.grants = c.grants
  BY DEF As, Contexts
<1> HIDE DEF b, n, y, u
<1>3. Captured(b) = Captured(n) /\ Captured(y) = Captured(n)  BY <1>2 DEF Captured
<1>4. /\ allowed_for_user_app(b, cap) = allowed_for_user_app(n, cap)
      /\ allowed_for_user_app(y, cap) = allowed_for_user_app(n, cap)
  BY <1>2, <1>3 DEF allowed_for_user_app, GrantOrAsk, has_grant, Capabilities, Clipboard, DragAndDrop
<1>5. allowed_for_hostile(b, cap) = Allow => allowed_for_user_app(n, cap) = Allow
  BY <1>4, DecisionsDiffer DEF allowed_for_hostile, allowed_for_user_app, Clipboard, DragAndDrop
<1>6. allowed_for_user_app(n, cap) = Allow => allowed_for_trusted_system(y, cap) = Allow
  BY <1>2, <1>4, DecisionsDiffer
  DEF allowed_for_trusted_system, allowed_for_user_app, GrantOrAsk, has_grant, Clipboard, DragAndDrop
<1>7. /\ decide(b, cap) = allowed_for_hostile(b, cap) /\ decide(n, cap) = allowed_for_user_app(n, cap)
      /\ decide(y, cap) = allowed_for_trusted_system(y, cap) /\ decide(u, cap) = Deny
  BY <1>1 DEF decide, effective_trust
<1>8. QED  BY <1>5, <1>6, <1>7, DecisionsDiffer DEF b, n, y, u

-----------------------------------------------------------------------------
(* The boundaries                                                          *)

LEMMA BrowserActionIsAction == \A s : browser_action(s) \in Actions
BY DEF browser_action, Actions

LEMMA AgeActionIsAction == \A s : age_action(s) \in Actions
BY DEF age_action, Actions

LEMMA ActionIsAction ==
    ASSUME NEW c, NEW sub \in {"browser", "age", "ai", "dev"}
    PROVE  ActionOf(sub, c) \in Actions
<1>1. CASE sub = "browser"  BY <1>1, BrowserActionIsAction DEF ActionOf
<1>2. CASE sub = "age"  BY <1>2, AgeActionIsAction DEF ActionOf
<1>3. CASE sub = "ai"  BY <1>3 DEF ActionOf, evaluate_xwin_privileged_ai_surface_boundary, Actions
<1>4. CASE sub = "dev"  BY <1>4 DEF ActionOf, evaluate_xwin_developer_tool_surface_boundary, Actions
<1>5. QED  BY <1>1, <1>2, <1>3, <1>4

\* A browser that is known worse of.
LEMMA BrowserRisk ==
    ASSUME NEW c \in BrowserContexts, NEW p \in Postures
    PROVE  LET worse == ActionOf("browser", [c EXCEPT !.posture = p])
           IN  /\ Distrust(p) >= Distrust(c.posture) =>
                      Strictness(worse) >= Strictness(ActionOf("browser", c))
               /\ p = "KairoFailClosed" => worse = "FailClosed"
<1> DEFINE d == [c EXCEPT !.posture = p]
<1>1. /\ d.posture = p /\ d.family = c.family /\ d.role = c.role /\ d.state = c.state
      /\ d.clipboard = c.clipboard /\ d.file = c.file /\ d.input = c.input /\ d.gpu = c.gpu
      /\ d.native = c.native /\ d.overrides = c.overrides /\ c.posture \in Postures
  BY DEF BrowserContexts
<1> HIDE DEF d
<1>2. /\ is_browser_surface(d) = is_browser_surface(c)
      /\ is_sensitive_clipboard_request(d) = is_sensitive_clipboard_request(c)
      /\ is_file_boundary_request(d) = is_file_boundary_request(c)
      /\ is_input_capture_request(d) = is_input_capture_request(c)
      /\ is_native_messaging_request_without_override(d) = is_native_messaging_request_without_override(c)
      /\ is_gpu_high_risk_request(d) = is_gpu_high_risk_request(c)
      /\ request_is_explicit_high_risk(d) = request_is_explicit_high_risk(c)
  BY <1>1 DEF is_browser_surface, is_sensitive_clipboard_request, is_file_boundary_request,
      is_input_capture_request, is_native_messaging_request_without_override, is_native_messaging_request,
      is_gpu_high_risk_request, request_is_explicit_high_risk
<1>3. Distrust(p) >= Distrust(c.posture) => Strictness(ActionOf("browser", d)) >= Strictness(ActionOf("browser", c))
  <2>1. CASE p = "KairoFailClosed"
    <3>1. ActionOf("browser", d) = "FailClosed"
      BY <2>1, <1>1 DEF ActionOf, browser_action, evaluate_browser_surface_boundary
    <3>2. ActionOf("browser", c) \in Actions  BY ActionIsAction
    <3>3. QED  BY <3>1, <3>2 DEF Actions, Strictness
  <2>2. CASE p = c.posture
    <3>1. evaluate_browser_surface_boundary(d) = evaluate_browser_surface_boundary(c)
      BY <2>2, <1>1, <1>2 DEF evaluate_browser_surface_boundary, is_unknown_high_risk, allow_surface_conditions_met
    <3>2. ActionOf("browser", d) = ActionOf("browser", c)  BY <3>1 DEF ActionOf
    <3>3. ActionOf("browser", c) \in Actions  BY ActionIsAction
    <3>4. QED  BY <3>2, <3>3 DEF Actions, Strictness
  <2>3. CASE p \in Constrained /\ c.posture \in {"KairoAllowed", "KairoObserve", "KairoQuarantine"}
    <3> DEFINE e == evaluate_browser_surface_boundary(c)
               f == evaluate_browser_surface_boundary(d)
    <3>1. ~is_unknown_high_risk(c) /\ ~allow_surface_conditions_met(d)
      BY <2>3, <1>1 DEF is_unknown_high_risk, allow_surface_conditions_met, Constrained
    <3>2. \/ f = "UnknownFailClosed"
          \/ f \in {e, "InputCaptureFailClosed", "NativeMessagingFailClosed", "GpuSurfaceFailClosed"}
                 /\ (e \in {"ClipboardQuarantine", "FileBoundaryQuarantine"} => f = e)
          \/ e = "AllowSurface" /\ f = "ConstrainSurface"
      BY <2>3, <1>1, <1>2, <3>1 DEF evaluate_browser_surface_boundary, Constrained
    <3>3. ActionOf("browser", c) = browser_action(e) /\ ActionOf("browser", d) = browser_action(f)
      BY DEF ActionOf
    <3> HIDE DEF e, f
    <3>4. QED  BY <3>2, <3>3, BrowserActionIsAction DEF browser_action, Strictness, Actions
  <2>4. CASE ~(p = "KairoFailClosed") /\ ~(p = c.posture)
               /\ ~(p \in Constrained /\ c.posture \in {"KairoAllowed", "KairoObserve", "KairoQuarantine"})
    BY <2>4, <1>1 DEF Distrust, Postures, Constrained
  <2>5. QED  BY <2>1, <2>2, <2>3, <2>4
<1>4. p = "KairoFailClosed" => ActionOf("browser", d) = "FailClosed"
  BY <1>1 DEF ActionOf, browser_action, evaluate_browser_surface_boundary
<1>5. QED  BY <1>3, <1>4 DEF d

\* An age-assurance surface whose runtime is known worse of.
LEMMA AgeRisk ==
    ASSUME NEW c \in AgeContexts, NEW p \in Postures
    PROVE  LET worse == ActionOf("age", [c EXCEPT !.posture = p])
           IN  /\ Distrust(p) >= Distrust(c.posture) =>
                      Strictness(worse) >= Strictness(ActionOf("age", c))
               /\ p = "KairoFailClosed" => worse = "FailClosed"
<1> DEFINE d == [c EXCEPT !.posture = p]
<1>1. /\ d.posture = p /\ d.family = c.family /\ d.role = c.role /\ d.state = c.state
      /\ d.clipboard = c.clipboard /\ d.file = c.file /\ d.gpu = c.gpu
      /\ d.native = c.native /\ d.overrides = c.overrides /\ c.posture \in Postures
  BY DEF AgeContexts
<1> HIDE DEF d
<1>2. /\ is_browser_surface(d) = is_browser_surface(c)
      /\ is_clipboard_request(d) = is_clipboard_request(c)
      /\ is_file_boundary_request(d) = is_file_boundary_request(c)
      /\ is_native_messaging_request(d) = is_native_messaging_request(c)
      /\ is_screen_capture_or_gpu_request(d) = is_screen_capture_or_gpu_request(c)
  BY <1>1 DEF is_browser_surface, is_clipboard_request, is_file_boundary_request,
      is_native_messaging_request, is_screen_capture_or_gpu_request
<1>3. \A o, v : Unless(d, o, v) = Unless(c, o, v)  BY <1>1 DEF Unless
<1> DEFINE e == evaluate_age_assurance_browser_surface_boundary(c)
           f == evaluate_age_assurance_browser_surface_boundary(d)
<1>4. ActionOf("age", c) = age_action(e) /\ ActionOf("age", d) = age_action(f)  BY DEF ActionOf
<1>5. Distrust(p) >= Distrust(c.posture) => Strictness(age_action(f)) >= Strictness(age_action(e))
  <2>1. CASE p = "KairoFailClosed"
    <3>1. age_action(f) = "FailClosed"
      BY <2>1, <1>1 DEF age_action, evaluate_age_assurance_browser_surface_boundary
    <3>2. age_action(e) \in Actions  BY AgeActionIsAction
    <3> HIDE DEF e, f
    <3>3. QED  BY <3>1, <3>2 DEF Actions, Strictness
  <2>2. CASE p = c.posture
    <3>1. age_surface_decision(d) = age_surface_decision(c)
      BY <2>2, <1>1, <1>2
      DEF age_surface_decision, age_signal_observe_conditions_met, age_allow_surface_conditions_met
    <3>2. age_request_decision(d) = age_request_decision(c)
      BY <1>1, <1>2, <1>3, <3>1 DEF age_request_decision
    <3>3. age_is_unknown_high_risk(d) = age_is_unknown_high_risk(c)
      BY <2>2, <1>1 DEF age_is_unknown_high_risk
    <3>4. f = e
      BY <2>2, <1>1, <1>2, <1>3, <3>2, <3>3 DEF evaluate_age_assurance_browser_surface_boundary
    <3>5. age_action(e) \in Actions  BY AgeActionIsAction
    <3> HIDE DEF e, f
    <3>6. QED  BY <3>4, <3>5 DEF Actions, Strictness
  <2>3. CASE /\ p \in Constrained /\ c.posture \in {"KairoAllowed", "KairoObserve", "KairoQuarantine"}
             /\ p = "KairoObserve" => c.posture = "KairoAllowed"
    <3>1. /\ ~age_is_unknown_high_risk(c) /\ ~age_allow_surface_conditions_met(d)
          /\ age_signal_observe_conditions_met(d) => age_signal_observe_conditions_met(c)
      BY <2>3, <1>1, <1>2
      DEF age_is_unknown_high_risk, age_allow_surface_conditions_met,
          age_signal_observe_conditions_met, Constrained
    <3>2. \/ age_surface_decision(d) = age_surface_decision(c)
          \/ age_surface_decision(d) = "ConstrainSurface"
                 /\ age_surface_decision(c) \in {"AllowSurface", "AgeSignalObserve"}
      BY <3>1, <1>1 DEF age_surface_decision
    <3>3. \/ age_request_decision(d) = age_request_decision(c)
          \/ age_request_decision(d) = "ConstrainSurface"
                 /\ age_request_decision(c) \in {"AllowSurface", "AgeSignalObserve"}
      BY <3>2, <1>1, <1>2, <1>3 DEF age_request_decision
    <3>4. \/ f = "UnknownFailClosed" \/ f = e
          \/ f = "ConstrainSurface" /\ e \in {"AllowSurface", "AgeSignalObserve"}
      BY <2>3, <1>1, <1>2, <1>3, <3>1, <3>3
      DEF evaluate_age_assurance_browser_surface_boundary, Constrained
    <3>5. age_action(e) \in Actions  BY AgeActionIsAction
    <3> HIDE DEF e, f
    <3>6. CASE f = "UnknownFailClosed"
      BY <3>5, <3>6 DEF age_action, Strictness, Actions
    <3>7. CASE f = e  BY <3>5, <3>7 DEF Strictness, Actions
    <3>8. CASE f = "ConstrainSurface" /\ e \in {"AllowSurface", "AgeSignalObserve"}
      BY <3>8 DEF age_action, Strictness
    <3>9. QED  BY <3>4, <3>6, <3>7, <3>8
  <2>4. CASE ~(Distrust(p) >= Distrust(c.posture))  BY <2>4
  <2>5. QED  BY <2>1, <2>2, <2>3, <2>4, <1>1 DEF Distrust, Postures, Constrained
<1>6. p = "KairoFailClosed" => age_action(f) = "FailClosed"
  BY <1>1 DEF age_action, evaluate_age_assurance_browser_surface_boundary
<1>7. QED  BY <1>4, <1>5, <1>6 DEF d

\* One more fact about the situation.
LEMMA AiRisk ==
    ASSUME NEW c \in AiContexts, NEW s
    PROVE  /\ Strictness(ActionOf("ai", [c EXCEPT !.situation = @ \cup {s}])) >= Strictness(ActionOf("ai", c))
           /\ ActionOf("ai", [c EXCEPT !.verdict = "fail_closed"]) = "FailClosed"
<1> DEFINE d == [c EXCEPT !.situation = @ \cup {s}]
           k == [c EXCEPT !.verdict = "fail_closed"]
<1>1. /\ d.verdict = c.verdict /\ d.propagated = c.propagated /\ d.present = c.present
      /\ d.requested = c.requested /\ d.situation # {} /\ k.verdict = "fail_closed"
  BY DEF AiContexts
<1> HIDE DEF d, k
<1>2. Told(d, "fail_closed") = Told(c, "fail_closed") /\ Told(d, "quarantine") = Told(c, "quarantine")
      /\ Told(k, "fail_closed")
  BY <1>1 DEF Told
<1>3. Strictness(ActionOf("ai", d)) >= Strictness(ActionOf("ai", c))
  BY <1>1, <1>2 DEF ActionOf, evaluate_xwin_privileged_ai_surface_boundary, Strictness
<1>4. ActionOf("ai", k) = "FailClosed"
  BY <1>2 DEF ActionOf, evaluate_xwin_privileged_ai_surface_boundary
<1>5. QED  BY <1>3, <1>4 DEF d, k

LEMMA DevRisk ==
    ASSUME NEW c \in DevContexts, NEW s
    PROVE  /\ Strictness(ActionOf("dev", [c EXCEPT !.situation = @ \cup {s}])) >= Strictness(ActionOf("dev", c))
           /\ ActionOf("dev", [c EXCEPT !.verdict = "fail_closed"]) = "FailClosed"
<1> DEFINE d == [c EXCEPT !.situation = @ \cup {s}]
           k == [c EXCEPT !.verdict = "fail_closed"]
<1>1. /\ d.verdict = c.verdict /\ d.propagated = c.propagated /\ d.present = c.present
      /\ d.requested = c.requested /\ k.verdict = "fail_closed"
      /\ \A x : x \in c.situation => x \in d.situation
  BY DEF DevContexts
<1> HIDE DEF d, k
<1>2. Told(d, "fail_closed") = Told(c, "fail_closed") /\ Told(d, "quarantine") = Told(c, "quarantine")
      /\ Told(k, "fail_closed")
  BY <1>1 DEF Told
<1> DEFINE e == evaluate_xwin_developer_tool_surface_boundary(c)
           f == evaluate_xwin_developer_tool_surface_boundary(d)
<1>3. Strictness(ActionOf("dev", d)) >= Strictness(ActionOf("dev", c))
  <2>1. e = "FailClosed" => f = "FailClosed"
    BY <1>1, <1>2 DEF evaluate_xwin_developer_tool_surface_boundary
  <2>2. e = "Quarantine" => f \in {"FailClosed", "Quarantine"}
    BY <1>1, <1>2 DEF evaluate_xwin_developer_tool_surface_boundary
  <2>3. e = "Constrain" => f \in {"FailClosed", "Quarantine", "Constrain"}
    BY <1>1, <1>2 DEF evaluate_xwin_developer_tool_surface_boundary
  <2>4. e = "Observe" => f # "Allow"
    BY <1>1, <1>2 DEF evaluate_xwin_developer_tool_surface_boundary
  <2>5. ActionOf("dev", c) = e /\ ActionOf("dev", d) = f  BY DEF ActionOf
  <2>6. e \in Actions /\ f \in Actions  BY <2>5, ActionIsAction
  <2> HIDE DEF e, f
  <2>7. QED  BY <2>1, <2>2, <2>3, <2>4, <2>5, <2>6 DEF Strictness, Actions
<1>4. ActionOf("dev", k) = "FailClosed"
  BY <1>2 DEF ActionOf, evaluate_xwin_developer_tool_surface_boundary
<1>5. QED  BY <1>3, <1>4 DEF d, k

\* An override whose request is not pending.
LEMMA BrowserOverrideIsScoped ==
    ASSUME NEW c \in BrowserContexts, NEW o \in c.overrides, ~Pending("browser", c, o)
    PROVE  ActionOf("browser", [c EXCEPT !.overrides = @ \ {o}]) = ActionOf("browser", c)
<1> DEFINE d == [c EXCEPT !.overrides = @ \ {o}]
<1>1. /\ d.posture = c.posture /\ d.family = c.family /\ d.role = c.role /\ d.state = c.state
      /\ d.clipboard = c.clipboard /\ d.file = c.file /\ d.input = c.input /\ d.gpu = c.gpu
      /\ d.native = c.native /\ d.overrides = c.overrides \ {o}
      /\ o \in {"clipboard", "file_picker", "native_messaging"}
  BY DEF BrowserContexts, BrowserOverrides
<1> HIDE DEF d
<1>2. /\ o = "clipboard" => c.clipboard # "Sensitive"
      /\ o = "file_picker" => c.file # "Requested"
      /\ o = "native_messaging" => c.native \notin {"NativeMessaging", "ExternalProtocol"}
  BY <1>1 DEF Pending
<1>3. /\ is_sensitive_clipboard_request(d) = is_sensitive_clipboard_request(c)
      /\ is_native_messaging_request_without_override(d) = is_native_messaging_request_without_override(c)
      /\ (is_file_boundary_request(d) /\ "file_picker" \notin d.overrides)
             = (is_file_boundary_request(c) /\ "file_picker" \notin c.overrides)
  BY <1>1, <1>2 DEF is_sensitive_clipboard_request, is_native_messaging_request_without_override,
      is_native_messaging_request, is_file_boundary_request
<1>4. /\ is_browser_surface(d) = is_browser_surface(c) /\ is_unknown_high_risk(d) = is_unknown_high_risk(c)
      /\ is_input_capture_request(d) = is_input_capture_request(c)
      /\ is_gpu_high_risk_request(d) = is_gpu_high_risk_request(c)
  BY <1>1 DEF is_browser_surface, is_unknown_high_risk, is_input_capture_request, is_gpu_high_risk_request
<1>5. allow_surface_conditions_met(d) = allow_surface_conditions_met(c)
  BY <1>1, <1>3, <1>4 DEF allow_surface_conditions_met, request_is_explicit_high_risk
<1>6. evaluate_browser_surface_boundary(d) = evaluate_browser_surface_boundary(c)
  BY <1>1, <1>3, <1>4, <1>5 DEF evaluate_browser_surface_boundary
<1>7. QED  BY <1>6 DEF ActionOf, d

LEMMA AgeOverrideIsScoped ==
    ASSUME NEW c \in AgeContexts, NEW o \in c.overrides, ~Pending("age", c, o)
    PROVE  ActionOf("age", [c EXCEPT !.overrides = @ \ {o}]) = ActionOf("age", c)
<1> DEFINE d == [c EXCEPT !.overrides = @ \ {o}]
<1>1. /\ d.posture = c.posture /\ d.family = c.family /\ d.role = c.role /\ d.state = c.state
      /\ d.clipboard = c.clipboard /\ d.file = c.file /\ d.gpu = c.gpu
      /\ d.native = c.native /\ d.overrides = c.overrides \ {o}
      /\ o \in {"clipboard", "file_picker", "native_messaging", "external_protocol", "age_signal",
                "identity_upload", "biometric"}
  BY DEF AgeContexts, AgeOverrides, BrowserOverrides
<1> HIDE DEF d
<1>2. /\ o = "clipboard" => ~is_clipboard_request(c)
      /\ o = "file_picker" => ~is_file_boundary_request(c)
      /\ o = "native_messaging" => c.native # "NativeMessaging"
      /\ o = "external_protocol" => c.native # "ExternalProtocol"
      /\ o = "age_signal" => c.state # "AgeSignal"
      /\ o = "identity_upload" => c.state # "IdentityUpload"
      /\ o = "biometric" => c.state # "Biometric"
  BY <1>1 DEF Pending, is_clipboard_request, is_file_boundary_request
<1>3. /\ is_browser_surface(d) = is_browser_surface(c)
      /\ is_clipboard_request(d) = is_clipboard_request(c)
      /\ is_file_boundary_request(d) = is_file_boundary_request(c)
      /\ is_native_messaging_request(d) = is_native_messaging_request(c)
      /\ is_screen_capture_or_gpu_request(d) = is_screen_capture_or_gpu_request(c)
      /\ age_is_unknown_high_risk(d) = age_is_unknown_high_risk(c)
  BY <1>1 DEF is_browser_surface, is_clipboard_request, is_file_boundary_request,
      is_native_messaging_request, is_screen_capture_or_gpu_request, age_is_unknown_high_risk
<1>4. \A x, v : x # o => Unless(d, x, v) = Unless(c, x, v)  BY <1>1 DEF Unless
<1>5. age_surface_decision(d) = age_surface_decision(c)
  BY <1>1, <1>2, <1>3
  DEF age_surface_decision, age_signal_observe_conditions_met, age_allow_surface_conditions_met
<1>6. age_request_decision(d) = age_request_decision(c)
  BY <1>1, <1>2, <1>3, <1>4, <1>5 DEF age_request_decision
<1>7. evaluate_age_assurance_browser_surface_boundary(d) = evaluate_age_assurance_browser_surface_boundary(c)
  BY <1>1, <1>2, <1>3, <1>4, <1>6 DEF evaluate_age_assurance_browser_surface_boundary
<1>8. QED  BY <1>7 DEF ActionOf, d

\* A request that nothing answers is held.
LEMMA BrowserUnresolvedIsHeld ==
    ASSUME NEW c \in BrowserContexts, is_browser_surface(c), Unresolved("browser", c)
    PROVE  ActionOf("browser", c) \in {"Quarantine", "FailClosed"}
<1>1. \/ is_sensitive_clipboard_request(c)
      \/ is_file_boundary_request(c) /\ "file_picker" \notin c.overrides
      \/ is_native_messaging_request_without_override(c)
      \/ c.posture \in Constrained /\ (is_input_capture_request(c) \/ is_gpu_high_risk_request(c))
  BY DEF Unresolved, Pending, BrowserOverrides, is_sensitive_clipboard_request, is_file_boundary_request,
      is_native_messaging_request_without_override, is_native_messaging_request,
      is_input_capture_request, is_gpu_high_risk_request
<1>2. evaluate_browser_surface_boundary(c) \notin {"NotApplicable", "AllowSurface", "ConstrainSurface"}
  BY <1>1 DEF evaluate_browser_surface_boundary
<1>3. QED  BY <1>2 DEF ActionOf, browser_action

LEMMA AgeUnresolvedIsHeld ==
    ASSUME NEW c \in AgeContexts, is_browser_surface(c), Unresolved("age", c),
           \A o \in c.overrides : ~Pending("age", c, o)
    PROVE  ActionOf("age", c) \in {"Quarantine", "FailClosed"}
<1>1. /\ is_clipboard_request(c) => "clipboard" \notin c.overrides
      /\ is_file_boundary_request(c) => "file_picker" \notin c.overrides
      /\ c.native = "NativeMessaging" => "native_messaging" \notin c.overrides
      /\ c.native = "ExternalProtocol" => "external_protocol" \notin c.overrides
      /\ c.state = "IdentityUpload" => "identity_upload" \notin c.overrides
      /\ c.state = "Biometric" => "biometric" \notin c.overrides
  BY DEF Pending, is_clipboard_request, is_file_boundary_request
<1>2. \/ is_clipboard_request(c) \/ is_file_boundary_request(c)
      \/ c.native \in {"NativeMessaging", "ExternalProtocol"}
      \/ c.state \in {"IdentityUpload", "Biometric"}
      \/ is_screen_capture_or_gpu_request(c)
  <2>1. CASE \E o \in AgeOverrides \ {"age_signal"} : o \notin c.overrides /\ Pending("age", c, o)
    BY <2>1 DEF Pending, AgeOverrides, BrowserOverrides, is_clipboard_request, is_file_boundary_request
  <2>2. CASE c.state = "Capture" \/ c.gpu = "HighRisk"
    BY <2>2 DEF is_screen_capture_or_gpu_request
  <2>3. QED  BY <2>1, <2>2 DEF Unresolved
<1>3. evaluate_age_assurance_browser_surface_boundary(c)
          \notin {"NotApplicable", "AllowSurface", "AgeSignalObserve", "ConstrainSurface"}
  BY <1>1, <1>2 DEF evaluate_age_assurance_browser_surface_boundary, age_request_decision, Unless
<1>4. QED  BY <1>3 DEF ActionOf, age_action

-----------------------------------------------------------------------------
(* The state machine                                                       *)

\* An answer is that of the present context: every change of it takes the answer back.
DecisionInv ==
    answer # NoAnswer =>
        IF subject = "client"
        THEN \E cap \in Capabilities \cup {Nothing} : answer = <<cap, decide_optional(ctx, cap)>>
        ELSE answer = <<subject, <<ActionOf(subject, ctx)>>>>

SubjectInv ==
    \/ subject = "client" /\ ctx \in Contexts
    \/ subject = "browser" /\ ctx \in BrowserContexts
    \/ subject = "age" /\ ctx \in AgeContexts
    \/ subject = "ai" /\ ctx \in AiContexts
    \/ subject = "dev" /\ ctx \in DevContexts

SecurityInv == SubjectInv /\ DecisionInv

LEMMA InvInit == SecurityInit => SecurityInv
<1> SUFFICES ASSUME SecurityInit PROVE SecurityInv  OBVIOUS
<1>1. DecisionInv  BY DEF SecurityInit, DecisionInv
<1>2. CASE subject = "client" /\ \E a \in Apps, k \in Kinds, t \in Trusts : ctx = NewClient(a, k, t)
  BY <1>1, <1>2 DEF SecurityInv, SubjectInv, NewClient, Contexts
<1>3. CASE subject = "browser" /\ \E f \in {"Browser", "Unknown"}, p \in Postures,
                r \in BrowserValues.role : ctx = NewBrowser(f, p, r)
  <2>1. BrowserValues.role \subseteq {"Window", "Kiosk", "Other", "Unknown"}
    BY ValuesAssumption DEF Browsers
  <2>2. PICK f \in {"Browser", "Unknown"}, p \in Postures, r \in BrowserValues.role : ctx = NewBrowser(f, p, r)
    BY <1>3
  <2>3. ctx \in BrowserContexts  BY <2>1, <2>2 DEF NewBrowser, BrowserContexts
  <2>4. QED  BY <1>1, <1>3, <2>3 DEF SecurityInv, SubjectInv
<1>4. CASE subject = "age" /\ \E f \in {"Browser", "Unknown"}, p \in Postures,
                r \in AgeValues.role : ctx = NewAge(f, p, r)
  <2>1. AgeValues.role \subseteq {"Window", "Kiosk", "Other", "Unknown"}
    BY ValuesAssumption DEF Ages
  <2>2. PICK f \in {"Browser", "Unknown"}, p \in Postures, r \in AgeValues.role : ctx = NewAge(f, p, r)
    BY <1>4
  <2>3. ctx \in AgeContexts  BY <2>1, <2>2 DEF NewAge, AgeContexts
  <2>4. QED  BY <1>1, <1>4, <2>3 DEF SecurityInv, SubjectInv
<1>5. CASE subject \in {"ai", "dev"} /\ ctx = NoMarkers
  BY <1>1, <1>5 DEF SecurityInv, SubjectInv, NoMarkers, AiContexts, DevContexts, Verdicts
<1>6. QED  BY <1>2, <1>3, <1>4, <1>5 DEF SecurityInit

\* The builder of a browser context sets a field to a member of its enumeration.
LEMMA BrowserField ==
    ASSUME NEW c \in BrowserContexts, NEW f \in DOMAIN BrowserValues, NEW v \in BrowserValues[f]
    PROVE  [c EXCEPT ![f] = v] \in BrowserContexts
<1>1. BrowserValues \in Browsers  BY ValuesAssumption
<1>2. f \in {"role", "state", "clipboard", "file", "input", "gpu", "native"}  BY <1>1 DEF Browsers
<1>3. CASE f = "role"  BY <1>1, <1>3 DEF Browsers, BrowserContexts
<1>4. CASE f = "state"  BY <1>1, <1>4 DEF Browsers, BrowserContexts
<1>5. CASE f = "clipboard"  BY <1>1, <1>5 DEF Browsers, BrowserContexts
<1>6. CASE f = "file"  BY <1>1, <1>6 DEF Browsers, BrowserContexts
<1>7. CASE f = "input"  BY <1>1, <1>7 DEF Browsers, BrowserContexts
<1>8. CASE f = "gpu"  BY <1>1, <1>8 DEF Browsers, BrowserContexts
<1>9. CASE f = "native"  BY <1>1, <1>9 DEF Browsers, BrowserContexts
<1>10. QED  BY <1>2, <1>3, <1>4, <1>5, <1>6, <1>7, <1>8, <1>9

LEMMA AgeField ==
    ASSUME NEW c \in AgeContexts, NEW f \in DOMAIN AgeValues, NEW v \in AgeValues[f]
    PROVE  [c EXCEPT ![f] = v] \in AgeContexts
<1>1. AgeValues \in Ages  BY ValuesAssumption
<1>2. f \in {"role", "state", "clipboard", "file", "gpu", "native"}  BY <1>1 DEF Ages
<1>3. CASE f = "role"  BY <1>1, <1>3 DEF Ages, AgeContexts
<1>4. CASE f = "state"  BY <1>1, <1>4 DEF Ages, AgeContexts
<1>5. CASE f = "clipboard"  BY <1>1, <1>5 DEF Ages, AgeContexts
<1>6. CASE f = "file"  BY <1>1, <1>6 DEF Ages, AgeContexts
<1>7. CASE f = "gpu"  BY <1>1, <1>7 DEF Ages, AgeContexts
<1>8. CASE f = "native"  BY <1>1, <1>8 DEF Ages, AgeContexts
<1>9. QED  BY <1>2, <1>3, <1>4, <1>5, <1>6, <1>7, <1>8

\* One more marker, or a verdict.
LEMMA AiMarker ==
    ASSUME NEW c \in AiContexts, NEW d,
           \/ \E f \in {"propagated", "situation", "requested"} :
                 \E v \in MarkerValues["ai"][f] : d = [c EXCEPT ![f] = @ \cup {v}]
           \/ d = [c EXCEPT !.present = TRUE]
           \/ \E v \in Verdicts : d = [c EXCEPT !.verdict = v]
    PROVE  d \in AiContexts
<1>1. MarkerValues["ai"].propagated \subseteq {"quarantine", "fail_closed"}
  BY ValuesAssumption DEF Markers
<1>2. \A v \in MarkerValues["ai"].situation : [c EXCEPT !.situation = @ \cup {v}] \in AiContexts
  BY ValuesAssumption DEF Markers, AiContexts
<1>3. \A v \in MarkerValues["ai"].requested : [c EXCEPT !.requested = @ \cup {v}] \in AiContexts
  BY ValuesAssumption DEF Markers, AiContexts
<1>4. \A v \in {"quarantine", "fail_closed"} : [c EXCEPT !.propagated = @ \cup {v}] \in AiContexts
  BY DEF AiContexts
<1>5. [c EXCEPT !.present = TRUE] \in AiContexts  BY DEF AiContexts
<1>6. \A v \in Verdicts : [c EXCEPT !.verdict = v] \in AiContexts  BY DEF AiContexts
<1>7. ASSUME NEW f \in {"propagated", "situation", "requested"}, NEW v \in MarkerValues["ai"][f],
             d = [c EXCEPT ![f] = @ \cup {v}]
      PROVE  d \in AiContexts
  <2>1. CASE f = "propagated"  BY <1>1, <1>4, <1>7, <2>1
  <2>2. CASE f = "situation"  BY <1>2, <1>7, <2>2
  <2>3. CASE f = "requested"  BY <1>3, <1>7, <2>3
  <2>4. QED  BY <1>7, <2>1, <2>2, <2>3
<1>8. QED  BY <1>5, <1>6, <1>7

LEMMA DevMarker ==
    ASSUME NEW c \in DevContexts, NEW d,
           \/ \E f \in {"propagated", "situation", "requested"} :
                 \E v \in MarkerValues["dev"][f] : d = [c EXCEPT ![f] = @ \cup {v}]
           \/ d = [c EXCEPT !.present = TRUE]
           \/ \E v \in Verdicts : d = [c EXCEPT !.verdict = v]
    PROVE  d \in DevContexts
<1>1. MarkerValues["dev"].propagated \subseteq {"quarantine", "fail_closed"}
  BY ValuesAssumption DEF Markers
<1>2. \A v \in MarkerValues["dev"].situation : [c EXCEPT !.situation = @ \cup {v}] \in DevContexts
  BY ValuesAssumption DEF Markers, DevContexts
<1>3. \A v \in MarkerValues["dev"].requested : [c EXCEPT !.requested = @ \cup {v}] \in DevContexts
  BY ValuesAssumption DEF Markers, DevContexts
<1>4. \A v \in {"quarantine", "fail_closed"} : [c EXCEPT !.propagated = @ \cup {v}] \in DevContexts
  BY DEF DevContexts
<1>5. [c EXCEPT !.present = TRUE] \in DevContexts  BY DEF DevContexts
<1>6. \A v \in Verdicts : [c EXCEPT !.verdict = v] \in DevContexts  BY DEF DevContexts
<1>7. ASSUME NEW f \in {"propagated", "situation", "requested"}, NEW v \in MarkerValues["dev"][f],
             d = [c EXCEPT ![f] = @ \cup {v}]
      PROVE  d \in DevContexts
  <2>1. CASE f = "propagated"  BY <1>1, <1>4, <1>7, <2>1
  <2>2. CASE f = "situation"  BY <1>2, <1>7, <2>2
  <2>3. CASE f = "requested"  BY <1>3, <1>7, <2>3
  <2>4. QED  BY <1>7, <2>1, <2>2, <2>3
<1>8. QED  BY <1>5, <1>6, <1>7

\* What the user is asked for, when asked.
LEMMA AskedFor ==
    ASSUME SecurityInv, subject = "client", Asked
    PROVE  \E cap \in Capabilities, scope \in Scopes :
               /\ answer = <<cap, RequireUserGrant(cap, scope)>>
               /\ decide(ctx, cap) = RequireUserGrant(cap, scope) /\ cap # Nothing
               /\ answer[1] = cap
               /\ answer[2][2] = [capability |-> cap, scope |-> scope]
<1>1. ctx \in Contexts  BY DEF SecurityInv, SubjectInv
<1>2. PICK cap \in Capabilities \cup {Nothing} : answer = <<cap, decide_optional(ctx, cap)>>
  BY DEF SecurityInv, DecisionInv, Asked
<1>3. answer[2] = decide_optional(ctx, cap) /\ Len(answer[2]) = 2  BY <1>2 DEF Asked
<1>4. cap # Nothing /\ cap \in Capabilities  BY <1>2, <1>3, DecisionsDiffer DEF decide_optional
<1>5. answer[2] = decide(ctx, cap)  BY <1>3, <1>4 DEF decide_optional
<1>6. PICK scope \in Scopes : decide(ctx, cap) = RequireUserGrant(cap, scope)
  BY <1>1, <1>3, <1>4, <1>5, DecideAnswers, DecisionsDiffer DEF AnswerFor
<1>7. answer[2][2] = [capability |-> cap, scope |-> scope]  BY <1>5, <1>6, DecisionsDiffer
<1>8. answer = <<cap, RequireUserGrant(cap, scope)>> /\ answer[1] = cap
  BY <1>2, <1>4, <1>6 DEF decide_optional
<1>9. QED  BY <1>4, <1>6, <1>7, <1>8

LEMMA InvNext == SecurityInv /\ [SecurityNext]_securityVars => SecurityInv'
<1> SUFFICES ASSUME SecurityInv, [SecurityNext]_securityVars PROVE SecurityInv'  OBVIOUS
<1> USE DEF SecurityInv
<1>1. CASE WithSurface
  <2>1. subject = "client" /\ ctx \in Contexts /\ subject' = subject /\ answer' = NoAnswer
    BY <1>1 DEF WithSurface, SubjectInv
  <2>2. PICK f \in {"source", "target", "focus", "visible"}, s \in Surfaces : ctx' = [ctx EXCEPT ![f] = s]
    BY <1>1 DEF WithSurface
  <2>3. ctx' \in Contexts
    <3>1. CASE f = "source"  BY <2>1, <2>2, <3>1 DEF Contexts
    <3>2. CASE f = "target"  BY <2>1, <2>2, <3>2 DEF Contexts
    <3>3. CASE f = "focus"  BY <2>1, <2>2, <3>3 DEF Contexts
    <3>4. CASE f = "visible"  BY <2>1, <2>2, <3>4 DEF Contexts
    <3>5. QED  BY <3>1, <3>2, <3>3, <3>4
  <2>4. QED  BY <2>1, <2>3 DEF SubjectInv, DecisionInv
<1>2. CASE Decide
  <2>1. subject' = "client" /\ ctx' = ctx /\ SubjectInv' /\ subject = "client"
    BY <1>2 DEF Decide, SubjectInv
  <2>2. PICK cap \in Capabilities \cup {Nothing} : answer' = <<cap, decide_optional(ctx, cap)>>
    BY <1>2 DEF Decide
  <2>3. QED  BY <2>1, <2>2 DEF DecisionInv
<1>3. CASE WithGrantAsked
  <2>1. PICK cap \in Capabilities, scope \in Scopes :
            /\ answer[1] = cap /\ answer[2][2] = [capability |-> cap, scope |-> scope]
    BY <1>3, AskedFor DEF WithGrantAsked
  <2>2. ctx \in Contexts /\ subject = "client" /\ subject' = subject  BY <1>3 DEF WithGrantAsked, SubjectInv
  <2>3. /\ ctx' = WithGrant(ctx, answer[2][2]) /\ answer' = <<answer[1], decide_optional(ctx', answer[1])>>
    BY <1>3 DEF WithGrantAsked, WithGrant
  <2>4. answer[2][2] \in Grants  BY <2>1 DEF Grants
  <2>5. ctx' \in Contexts  BY <2>2, <2>3, <2>4, WithGrantFacts
  <2>6. QED  BY <2>1, <2>2, <2>3, <2>5 DEF SubjectInv, DecisionInv
<1>4. CASE subject = "browser" /\ With(BrowserValues)
  <2>1. ctx \in BrowserContexts /\ subject' = "browser" /\ answer' = NoAnswer  BY <1>4 DEF With, SubjectInv
  <2>2. ctx' \in BrowserContexts  BY <1>4, <2>1, BrowserField DEF With
  <2>3. QED  BY <2>1, <2>2 DEF SubjectInv, DecisionInv
<1>5. CASE subject = "browser" /\ WithOverride(BrowserOverrides)
  <2>1. ctx \in BrowserContexts /\ subject' = "browser" /\ answer' = NoAnswer
    BY <1>5 DEF WithOverride, SubjectInv
  <2>2. ctx' \in BrowserContexts  BY <1>5, <2>1 DEF WithOverride, BrowserContexts
  <2>3. QED  BY <2>1, <2>2 DEF SubjectInv, DecisionInv
<1>6. CASE subject = "age" /\ With(AgeValues)
  <2>1. ctx \in AgeContexts /\ subject' = "age" /\ answer' = NoAnswer  BY <1>6 DEF With, SubjectInv
  <2>2. ctx' \in AgeContexts  BY <1>6, <2>1, AgeField DEF With
  <2>3. QED  BY <2>1, <2>2 DEF SubjectInv, DecisionInv
<1>7. CASE subject = "age" /\ WithOverride(AgeOverrides)
  <2>1. ctx \in AgeContexts /\ subject' = "age" /\ answer' = NoAnswer
    BY <1>7 DEF WithOverride, SubjectInv
  <2>2. ctx' \in AgeContexts  BY <1>7, <2>1 DEF WithOverride, AgeContexts
  <2>3. QED  BY <2>1, <2>2 DEF SubjectInv, DecisionInv
<1>8. CASE WithMarker
  <2>1. subject \in {"ai", "dev"} /\ subject' = subject /\ answer' = NoAnswer  BY <1>8 DEF WithMarker
  <2>2. CASE subject = "ai"
    <3>1. ctx \in AiContexts  BY <2>2 DEF SubjectInv
    <3>3. \/ \E f \in {"propagated", "situation", "requested"} :
                \E v \in MarkerValues["ai"][f] : ctx' = [ctx EXCEPT ![f] = @ \cup {v}]
          \/ ctx' = [ctx EXCEPT !.present = TRUE]
          \/ \E v \in Verdicts : ctx' = [ctx EXCEPT !.verdict = v]
      BY <1>8, <2>2 DEF WithMarker
    <3>4. ctx' \in AiContexts  BY <3>1, <3>3, AiMarker
    <3>5. QED  BY <2>1, <2>2, <3>4 DEF SubjectInv, DecisionInv
  <2>3. CASE subject = "dev"
    <3>1. ctx \in DevContexts  BY <2>3 DEF SubjectInv
    <3>3. \/ \E f \in {"propagated", "situation", "requested"} :
                \E v \in MarkerValues["dev"][f] : ctx' = [ctx EXCEPT ![f] = @ \cup {v}]
          \/ ctx' = [ctx EXCEPT !.present = TRUE]
          \/ \E v \in Verdicts : ctx' = [ctx EXCEPT !.verdict = v]
      BY <1>8, <2>3 DEF WithMarker
    <3>4. ctx' \in DevContexts  BY <3>1, <3>3, DevMarker
    <3>5. QED  BY <2>1, <2>3, <3>4 DEF SubjectInv, DecisionInv
  <2>4. QED  BY <2>1, <2>2, <2>3
<1>9. CASE Evaluate
  BY <1>9 DEF Evaluate, SubjectInv, DecisionInv
<1>10. CASE UNCHANGED securityVars
  BY <1>10 DEF securityVars, SubjectInv, DecisionInv
<1>11. QED
  BY <1>1, <1>2, <1>3, <1>4, <1>5, <1>6, <1>7, <1>8, <1>9, <1>10 DEF SecurityNext

\* The contexts are well formed and every answer is that of the present one.
THEOREM AnswersAreCurrent == SecuritySpec => []SecurityInv
<1>1. QED  BY InvInit, InvNext, PTL DEF SecuritySpec

LEMMA PolicyFollows == SecurityInv => PolicyHolds
<1> SUFFICES ASSUME SecurityInv PROVE PolicyHolds  OBVIOUS
<1>1. CASE subject # "client"
  <2>1. subject \in {"browser", "age", "ai", "dev"}  BY <1>1 DEF SecurityInv, SubjectInv
  <2>2. answer # NoAnswer => answer[2][1] \in Actions
    <3> SUFFICES ASSUME answer # NoAnswer PROVE answer[2][1] \in Actions  OBVIOUS
    <3>1. answer = <<subject, <<ActionOf(subject, ctx)>>>>  BY <1>1 DEF SecurityInv, DecisionInv
    <3>2. answer[2][1] = ActionOf(subject, ctx)  BY <3>1
    <3>3. QED  BY <2>1, <3>2, ActionIsAction
  <2>3. SecurityTypeOK  BY <1>1, <2>2 DEF SecurityTypeOK, SecurityInv, SubjectInv
  <2>4. QED  BY <1>1, <2>3 DEF PolicyHolds, NothingWithoutAGrant, TrustOnlyAdds
<1>2. CASE subject = "client"
  <2>1. ctx \in Contexts  BY <1>2 DEF SecurityInv, SubjectInv
  <2>2. answer # NoAnswer => answer[2][1] \in {"Allow", "Deny", "RequireUserGrant"}
    <3> SUFFICES ASSUME answer # NoAnswer PROVE answer[2][1] \in {"Allow", "Deny", "RequireUserGrant"}
      OBVIOUS
    <3>1. PICK cap \in Capabilities \cup {Nothing} : answer = <<cap, decide_optional(ctx, cap)>>
      BY <1>2 DEF SecurityInv, DecisionInv
    <3>2. answer[2] = decide_optional(ctx, cap)  BY <3>1
    <3>3. CASE cap = Nothing  BY <3>2, <3>3 DEF decide_optional, Deny
    <3>4. CASE cap # Nothing
      BY <2>1, <3>1, <3>2, <3>4, DecideAnswers DEF decide_optional, AnswerFor, Allow, Deny, RequireUserGrant
    <3>5. QED  BY <3>3, <3>4
  <2>3. SecurityTypeOK  BY <1>2, <2>1, <2>2 DEF SecurityTypeOK
  <2>4. NothingWithoutAGrant
    <3> SUFFICES ASSUME answer # NoAnswer, answer[2] = Allow, answer[1] \notin Free
                 PROVE  has_grant(ctx, answer[1], NeededScope(ctx, answer[1]))
      BY DEF NothingWithoutAGrant, has_grant
    <3>1. PICK cap \in Capabilities \cup {Nothing} : answer = <<cap, decide_optional(ctx, cap)>>
      BY <1>2 DEF SecurityInv, DecisionInv
    <3>2. answer[1] = cap /\ decide_optional(ctx, cap) = Allow  BY <3>1
    <3>3. cap # Nothing /\ decide(ctx, cap) = Allow  BY <3>2, DecisionsDiffer DEF decide_optional
    <3>4. QED  BY <2>1, <3>1, <3>2, <3>3, AllowedHasGrant
  <2>5. TrustOnlyAdds  BY <2>1, TablesAreOrdered DEF TrustOnlyAdds
  <2>6. QED  BY <2>3, <2>4, <2>5 DEF PolicyHolds
<1>3. QED  BY <1>1, <1>2

\* Nothing that is guarded is allowed to a client without a grant for this very
\* capability and scope, and the tables of decision.rs are ordered as the levels of
\* trust, for any apps, surfaces and collection of grants.
THEOREM PolicyHoldsAlways == SecuritySpec => []PolicyHolds
<1>1. QED  BY AnswersAreCurrent, PolicyFollows, PTL

\* The user is not asked twice: the grant a decision names is the one the next one
\* looks for (policy.rs), in every context a client can have.
THEOREM GivenGrantIsEnoughHolds == SecuritySpec => GivenGrantIsEnough
<1> DEFINE Enough == WithGrantAsked /\ answer[2][2].scope \notin {SelectedHandle, SessionScope}
                         => answer'[2] = Allow
<1>1. ASSUME SecurityInv, [SecurityNext]_securityVars  PROVE Enough
  <2> SUFFICES ASSUME WithGrantAsked, answer[2][2].scope \notin {SelectedHandle, SessionScope}
               PROVE  answer'[2] = Allow
    OBVIOUS
  <2>1. PICK cap \in Capabilities, scope \in Scopes :
            /\ decide(ctx, cap) = RequireUserGrant(cap, scope) /\ cap # Nothing
            /\ answer[1] = cap /\ answer[2][2] = [capability |-> cap, scope |-> scope]
    BY <1>1, AskedFor DEF WithGrantAsked
  <2>2. ctx \in Contexts  BY <1>1 DEF WithGrantAsked, SecurityInv, SubjectInv
  <2>3. scope \notin {SelectedHandle, SessionScope}  BY <2>1
  <2>4. answer'[2] = decide_optional(WithGrant(ctx, [capability |-> cap, scope |-> scope]), cap)
    BY <2>1 DEF WithGrantAsked, WithGrant
  <2>5. QED  BY <2>1, <2>2, <2>3, <2>4, AskedIsEnough DEF decide_optional
<1>2. SecurityInv /\ [SecurityNext]_securityVars => [Enough]_securityVars  BY <1>1
<1> HIDE DEF Enough
<1>3. SecuritySpec => [][Enough]_securityVars  BY <1>2, AnswersAreCurrent, PTL DEF SecuritySpec
<1>4. QED  BY <1>3 DEF GivenGrantIsEnough, Enough

LEMMA BoundariesFollow == SecurityInv => BoundariesHold
<1> SUFFICES ASSUME SecurityInv PROVE BoundariesHold  OBVIOUS
<1>1. RiskNeverSoftens
  <2>1. CASE subject = "client"  BY <2>1 DEF RiskNeverSoftens
  <2>2. CASE subject = "browser"
    BY <2>2, BrowserRisk DEF RiskNeverSoftens, SecurityInv, SubjectInv
  <2>3. CASE subject = "age"
    BY <2>3, AgeRisk DEF RiskNeverSoftens, SecurityInv, SubjectInv
  <2>4. CASE subject = "ai"
    BY <2>4, AiRisk DEF RiskNeverSoftens, SecurityInv, SubjectInv
  <2>5. CASE subject = "dev"
    BY <2>5, DevRisk DEF RiskNeverSoftens, SecurityInv, SubjectInv
  <2>6. QED  BY <2>1, <2>2, <2>3, <2>4, <2>5 DEF SecurityInv, SubjectInv
<1>2. OverridesAreScoped
  BY BrowserOverrideIsScoped, AgeOverrideIsScoped DEF OverridesAreScoped, SecurityInv, SubjectInv
<1>3. UnresolvedIsHeld
  BY BrowserUnresolvedIsHeld, AgeUnresolvedIsHeld DEF UnresolvedIsHeld, SecurityInv, SubjectInv
<1>4. QED  BY <1>1, <1>2, <1>3 DEF BoundariesHold

\* The boundaries of xwin-sec: no mix of requests, risks and overrides makes an early
\* return soften what a worse one calls for, lets an override reach past its own request
\* or an unanswered request slip through, on every context there is.
THEOREM BoundariesHoldAlways == SecuritySpec => []BoundariesHold
<1>1. QED  BY AnswersAreCurrent, BoundariesFollow, PTL
=============================================================================
