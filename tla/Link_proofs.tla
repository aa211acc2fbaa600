----------------------------- MODULE Link_proofs -----------------------------
(***************************************************************************)
(* Proofs about Link, for any users, proxy clients, lamp contents, sizes   *)
(* of a schedule and numbers of attempts:                                  *)
(*   TypeCorrect           the type invariant: what decodeState accepts is *)
(*                         a state of a lamp                               *)
(*   OneConnectionCorrect  whoever has a connection has the gate, also at  *)
(*                         the end of a proxied session                    *)
(*   CompleteIsReadCorrect an answer that is all there and ends with the   *)
(*                         frame is read                                   *)
(*   MisreadOnlyThere      a read returns what the lamp holds unless the   *)
(*                         level of its third channel is the slot count    *)
(*   ReadIsCurrentCorrect  so without such contents every read is right    *)
(***************************************************************************)
EXTENDS Link, SequenceTheorems, WellFoundedInduction, TLAPS

Locals == [pc : UserPoints, op : Ops, try : 0..Attempts, stream : Seq(Level),
           got : Nat, res : Program \cup {None}]

\* The bytes of frames and of what may come before them.
LEMMA Bytes ==
  /\ RespMagic \in Seq(Level) /\ Ack \in Seq(Level)
  /\ Name \in Seq(Level) /\ Echo \in Seq(Level)
  BY DEF RespMagic, Ack, Name, Echo, PktEnd, Level

\* The slots are a number of bytes.
LEMMA Sizes == Slots \in Level /\ Slots * Columns \in Nat
<1>1. Slots \in Nat /\ Columns \in Nat /\ Slots \in 1..24
  BY LinkAssumption
<1> QED  BY <1>1 DEF Level

\* A function on 1..n is a sequence of length n.
LEMMA Listed ==
  ASSUME NEW S, NEW n \in Nat, NEW f \in [1..n -> S]
  PROVE  f \in Seq(S) /\ Len(f) = n
  BY IsASeq, LenProperties

\* Two sequences of bytes one after the other.
LEMMA Joined ==
  ASSUME NEW s \in Seq(Level), NEW t \in Seq(Level)
  PROVE  s \o t \in Seq(Level) /\ Len(s \o t) = Len(s) + Len(t)
         /\ Len(s) \in Nat /\ Len(t) \in Nat
  BY ConcatProperties, LenProperties

\* A frame is bytes, more of them than the cut one has.
LEMMA FrameBytes ==
  ASSUME NEW p \in Program
  PROVE  Frame(p) \in Seq(Level) /\ Len(Frame(p)) >= 12
<1> DEFINE N == Slots * Columns
           m == p.manual  s == p.sched
           start == <<16, 8>>  count == <<Slots>>  mode == <<p.auto>>  end == <<PktEnd>>
<1>1. m \in [1..6 -> Level] /\ s \in [1..N -> Level] /\ N \in Nat /\ p.auto \in Level
  BY Sizes DEF Program, Channels, Level
<1>2. /\ start \in Seq(Level) /\ count \in Seq(Level) /\ mode \in Seq(Level)
      /\ end \in Seq(Level) /\ RespMagic \in Seq(Level) /\ Name \in Seq(Level)
  BY <1>1, Sizes, Bytes DEF PktEnd, Level
<1>3. /\ Len(start) = 2 /\ Len(count) = 1 /\ Len(mode) = 1 /\ Len(RespMagic) = 2
      /\ Len(Name) = 2 /\ Len(end) = 1
  BY DEF RespMagic, Name
<1>4. Frame(p) = RespMagic \o start \o m \o count \o s \o mode \o Name \o end
  BY DEF Frame
<1> HIDE DEF N, m, s, start, count, mode, end
<1>5. m \in Seq(Level) /\ Len(m) = 6
  <2>1. PICK n \in Nat : n = 6
    OBVIOUS
  <2> QED  BY <1>1, <2>1, Listed
<1>6. s \in Seq(Level)
  BY <1>1, Listed
<1>7. RespMagic \o start \in Seq(Level) /\ Len(RespMagic \o start) = 4
  <2>1. RespMagic \o start \in Seq(Level) /\ Len(RespMagic \o start) = Len(RespMagic) + Len(start)
    BY <1>2, <1>3, Joined
  <2> QED  BY <1>2, <1>3, <2>1
<1>8. RespMagic \o start \o m \in Seq(Level) /\ Len(RespMagic \o start \o m) = 10
  <2>1. (RespMagic \o start) \o m \in Seq(Level) /\ Len((RespMagic \o start) \o m) = Len((RespMagic \o start)) + Len(m)
    BY <1>5, <1>7, Joined
  <2> QED  BY <1>5, <1>7, <2>1
<1>9. /\ RespMagic \o start \o m \o count \in Seq(Level)
      /\ Len(RespMagic \o start \o m \o count) = 11
  <2>1. (RespMagic \o start \o m) \o count \in Seq(Level) /\ Len((RespMagic \o start \o m) \o count) = Len((RespMagic \o start \o m)) + Len(count)
    BY <1>2, <1>3, <1>8, Joined
  <2> QED  BY <1>2, <1>3, <1>8, <2>1
<1>10. /\ RespMagic \o start \o m \o count \o s \in Seq(Level)
       /\ Len(RespMagic \o start \o m \o count \o s) >= 11
  BY <1>6, <1>9, Joined
<1>11. /\ RespMagic \o start \o m \o count \o s \o mode \in Seq(Level)
       /\ Len(RespMagic \o start \o m \o count \o s \o mode) >= 12
  <2>1. (RespMagic \o start \o m \o count \o s) \o mode \in Seq(Level) /\ Len((RespMagic \o start \o m \o count \o s) \o mode) = Len((RespMagic \o start \o m \o count \o s)) + Len(mode)
    BY <1>2, <1>3, <1>10, Joined
  <2> QED  BY <1>2, <1>3, <1>10, <2>1
<1>12. /\ RespMagic \o start \o m \o count \o s \o mode \o Name \in Seq(Level)
       /\ Len(RespMagic \o start \o m \o count \o s \o mode \o Name) >= 12
  BY <1>2, <1>11, Joined
<1> QED  BY <1>2, <1>4, <1>12, Joined

\* Everything the lamp answers is bytes.
LEMMA AnswerBytes == \A p \in Program : Answers(p) \subseteq Seq(Level)
<1> SUFFICES ASSUME NEW p \in Program, NEW a \in Answers(p) PROVE a \in Seq(Level)
  OBVIOUS
<1>1. Frame(p) \in Seq(Level) /\ Len(Frame(p)) >= 12
  BY FrameBytes
<1>2. SubSeq(Frame(p), 1, 12) \in Seq(Level)
  <2>1. \A i \in 1..12 : Frame(p)[i] \in Level
    BY <1>1, ElementOfSeq
  <2> QED  BY <2>1, SubSeqProperties
<1>3. Echo \o Ack \in Seq(Level) /\ <<>> \in Seq(Level)
  BY Bytes
<1>4. \A before \in Seq(Level) : before \o Frame(p) \in Seq(Level)
  BY <1>1
<1> QED  BY <1>2, <1>3, <1>4, Bytes DEF Answers

\* The values at the places of a frame.
Meant(b) == [manual |-> [i \in 1..Channels |-> b[4 + i]],
             sched  |-> [i \in 1..Slots * Columns |-> b[5 + Channels + i]],
             auto   |-> IF b[ModeAt] = 0 THEN 0 ELSE 1]

\* Of enough bytes they are a state of a lamp.
LEMMA MeantType ==
  ASSUME NEW b \in Seq(Level), Len(b) > ModeAt
  PROVE  Meant(b) \in Program
<1> DEFINE N == Slots * Columns
<1>1. N \in Nat /\ Len(b) \in Nat /\ Len(b) > 12 + N
  <2>1. ModeAt = 12 + N /\ N \in Nat
    BY Sizes DEF ModeAt, Channels
  <2> QED  BY <2>1
<1>2. \A i \in 1..Len(b) : b[i] \in Level
  BY ElementOfSeq
<1> HIDE DEF N
<1>3. [i \in 1..Channels |-> b[4 + i]] \in [1..Channels -> Level]
  BY <1>1, <1>2 DEF Channels
<1>4. [i \in 1..N |-> b[5 + Channels + i]] \in [1..N -> Level]
  <2>1. \A i \in 1..N : 5 + Channels + i \in 1..Len(b)
    BY <1>1 DEF Channels
  <2> QED  BY <2>1, <1>2
<1> QED  BY <1>3, <1>4 DEF Program, Meant, N

\* What decodeState makes of bytes is a state of a lamp or an error.
LEMMA DecodedType == \A b \in Seq(Level) : DecodeState(b) \in Program \cup {None}
  BY MeantType DEF DecodeState, Meant

\* The first of several places.
LEMMA LeastNatural ==
  ASSUME NEW S \in SUBSET Nat, S # {}
  PROVE  \E i \in S : \A j \in S : i <= j
<1> DEFINE R == OpToRel(<, Nat)
<1>1. IsWellFoundedOn(R, Nat)
  BY NatLessThanWellFounded
<1>2. \A x, y \in Nat : x < y => <<x, y>> \in R
  BY DEF OpToRel
<1> HIDE DEF R
<1>3. PICK x \in S : \A y \in S : ~(<<y, x>> \in R)
  BY <1>1, WFMin
<1>4. \A y \in S : x <= y
  <2> TAKE y \in S
  <2>1. x \in Nat /\ y \in Nat
    OBVIOUS
  <2>2. ~(y < x)
    BY <2>1, <1>2, <1>3
  <2> QED  BY <2>1, <2>2
<1> QED  BY <1>4

\* What an attempt makes of the first n bytes of an answer is a program or an error.
LEMMA ReadType ==
  ASSUME NEW s \in Seq(Level), NEW n \in 1..Len(s)
  PROVE  Decoded(SubSeq(s, 1, n)) \in Program \cup {None}
<1> DEFINE b == SubSeq(s, 1, n)
<1>1. b \in Seq(Level)
  <2>1. Len(s) \in Nat /\ n \in Int /\ \A i \in 1..n : s[i] \in Level
    BY ElementOfSeq, LenProperties
  <2> QED  BY <2>1, SubSeqProperties
<1> HIDE DEF b
<1>2. FrameIn(b) \in Seq(Level)
  <2>1. CASE FrameStarts(b) = {}
    BY <2>1 DEF FrameIn
  <2>2. CASE FrameStarts(b) # {}
    <3> DEFINE first(i) == \A j \in FrameStarts(b) : i <= j
    <3>1. FrameIn(b) = SubSeq(b, CHOOSE i \in FrameStarts(b) : first(i), Len(b))
      BY <2>2 DEF FrameIn
    <3>2. \E i \in FrameStarts(b) : first(i)
      <4>1. FrameStarts(b) \subseteq Nat
        BY <1>1, LenProperties DEF FrameStarts
      <4> QED  BY <4>1, <2>2, LeastNatural
    <3> HIDE DEF first
    <3>3. PICK k \in FrameStarts(b) : k = CHOOSE i \in FrameStarts(b) : first(i)
      BY <3>2
    <3>4. k \in 1..Len(b) /\ Len(b) \in Nat
      BY <1>1, LenProperties DEF FrameStarts
    <3>5. \A i \in k..Len(b) : b[i] \in Level
      BY <3>4, <1>1, ElementOfSeq
    <3>6. SubSeq(b, k, Len(b)) \in Seq(Level)
      BY <3>4, <3>5, SubSeqProperties
    <3> QED  BY <3>1, <3>3, <3>6
  <2> QED  BY <2>1, <2>2
<1> QED  BY <1>2, DecodedType DEF Decoded, b

-----------------------------------------------------------------------------
(* Types                                                                     *)

\* An attempt that has not read yet has nothing of an answer.
NothingYet == \A u \in Users : user[u].pc \in {"lock", "dial", "send"} => user[u].got = 0

TypeInv == TypeOK /\ NothingYet

\* A goroutine that does nothing has locals of their types.
LEMMA IdleType == IdleUser \in Locals /\ IdleUser.got = 0 /\ Len(IdleUser.stream) = 0
<1>1. <<>> \in Seq(Level) /\ Len(<<>>) = 0
  OBVIOUS
<1>2. 0 \in 0..Attempts
  BY LinkAssumption
<1> QED  BY <1>1, <1>2 DEF IdleUser, Locals, UserPoints, Ops

\* The types hold at the start.
LEMMA TInit == Init => TypeInv
<1> SUFFICES ASSUME Init PROVE TypeInv
  OBVIOUS
<1>1. user \in [Users -> Locals]
  BY IdleType DEF Init
<1>2. \A u \in Users : user[u].got = 0 /\ Len(user[u].stream) = 0
  BY IdleType DEF Init
<1>3. /\ gate \in Users \cup Clients \cup {None} /\ conns \subseteq Users \cup Clients
      /\ lamp \in Programs /\ sem \in Clients \cup {None} /\ stopped \in BOOLEAN
      /\ fresh \in BOOLEAN /\ client \in [Clients -> ClientPoints]
  BY DEF Init, ClientPoints
<1>4. asks \in 0..MaxAsks
  BY LinkAssumption DEF Init
<1> QED  BY <1>1, <1>2, <1>3, <1>4 DEF TypeInv, TypeOK, NothingYet, Locals

\* What is to be shown of a step of user u: the others stay as they are.
LEMMA UserType ==
  ASSUME TypeInv, NEW u \in Users, NEW v \in Locals,
         v.got <= Len(v.stream), v.pc \in {"lock", "dial", "send"} => v.got = 0,
         user' = [user EXCEPT ![u] = v]
  PROVE  /\ user' \in [Users -> Locals]
         /\ \A w \in Users : user'[w].got <= Len(user'[w].stream)
         /\ NothingYet'
<1>1. user \in [Users -> Locals]
  BY DEF TypeInv, TypeOK, Locals
<1>2. \A w \in Users : user'[w] = IF w = u THEN v ELSE user[w]
  BY <1>1
<1> QED  BY <1>1, <1>2 DEF TypeInv, TypeOK, NothingYet

\* Everything but the users.
OthersType ==
  /\ gate \in Users \cup Clients \cup {None} /\ conns \subseteq Users \cup Clients
  /\ lamp \in Programs /\ client \in [Clients -> ClientPoints]
  /\ sem \in Clients \cup {None} /\ stopped \in BOOLEAN
  /\ fresh \in BOOLEAN /\ asks \in 0..MaxAsks

UsersType ==
  /\ user \in [Users -> Locals]
  /\ \A w \in Users : user[w].got <= Len(user[w].stream)
  /\ NothingYet

\* The types in two parts, for the steps that touch one of them.
LEMMA Parts == TypeInv <=> OthersType /\ UsersType
  BY DEF TypeInv, TypeOK, OthersType, UsersType, Locals

\* Every step leaves the users in their types, Recv the one that decodes.
LEMMA TUsers == TypeInv /\ [Next]_vars => UsersType'
<1> SUFFICES ASSUME TypeInv, [Next]_vars PROVE UsersType'
  OBVIOUS
<1> USE DEF UsersType
<1>0. OthersType /\ UsersType
  BY Parts
<1>1. \A w \in Users : /\ user[w] \in Locals /\ user[w].got \in Nat
                       /\ user[w].stream \in Seq(Level) /\ Len(user[w].stream) \in Nat
                       /\ user[w].got <= Len(user[w].stream)
                       /\ user[w].try \in 0..Attempts
  BY <1>0, LenProperties DEF Locals
<1>2. CASE UNCHANGED user
  BY <1>0, <1>2 DEF NothingYet
<1>3. ASSUME NEW u \in Users, NEW op \in Ops, Ask(u, op) PROVE UsersType'
  <2> DEFINE v == [IdleUser EXCEPT !.pc = "lock", !.op = op]
  <2>1. v \in Locals /\ v.got = 0 /\ Len(v.stream) = 0
    BY IdleType DEF Locals, UserPoints
  <2>2. user' = [user EXCEPT ![u] = v]
    BY <1>3 DEF Ask
  <2> HIDE DEF v
  <2>3. v.got <= Len(v.stream)
    BY <2>1
  <2> QED  BY <2>1, <2>2, <2>3, UserType
<1>4. ASSUME NEW u \in Users, Lock(u) PROVE UsersType'
  <2> DEFINE pc == IF user[u].op = "health" THEN "unlock" ELSE "dial"
             v == [user[u] EXCEPT !.pc = pc, !.try = 1]
  <2>1. user[u].got = 0
    BY <1>4 DEF Lock, TypeInv, NothingYet
  <2>2. pc \in UserPoints /\ 1 \in 0..Attempts
    BY LinkAssumption DEF UserPoints
  <2>3. v \in Locals /\ v.got = user[u].got /\ v.stream = user[u].stream
    BY <1>1, <2>2 DEF Locals
  <2>4. user' = [user EXCEPT ![u] = v]
    BY <1>0, <1>4 DEF Lock
  <2> HIDE DEF v
  <2> QED  BY <1>1, <2>1, <2>3, <2>4, UserType
\* Steps that only move on.
<1>5. ASSUME NEW u \in Users, NEW pc \in UserPoints, UserGoes(u, pc),
             pc \in {"lock", "dial", "send"} => user[u].got = 0
      PROVE  UsersType'
  <2> DEFINE v == [user[u] EXCEPT !.pc = pc]
  <2>1. v \in Locals /\ v.got = user[u].got /\ v.stream = user[u].stream /\ v.pc = pc
    BY <1>1 DEF Locals
  <2>2. user' = [user EXCEPT ![u] = v]
    BY <1>0, <1>5 DEF UserGoes
  <2> HIDE DEF v
  <2> QED  BY <1>1, <1>5, <2>1, <2>2, UserType
<1>6. ASSUME NEW u \in Users, Dial(u) PROVE UsersType'
  <2>1. user[u].got = 0 /\ "send" \in UserPoints
    BY <1>6 DEF Dial, TypeInv, NothingYet, UserPoints
  <2> QED  BY <1>5, <1>6, <2>1 DEF Dial
<1>7. ASSUME NEW u \in Users, UserGoes(u, "close") PROVE UsersType'
  <2>1. "close" \in UserPoints
    BY DEF UserPoints
  <2> QED  BY <1>5, <1>7, <2>1
<1>8. ASSUME NEW u \in Users, NextTry(u) PROVE UsersType'
  <2> DEFINE pc == IF Again(u) THEN "dial" ELSE "unlock"
             try == IF Again(u) THEN user[u].try + 1 ELSE user[u].try
             v == [user[u] EXCEPT !.pc = pc, !.try = try, !.stream = <<>>, !.got = 0]
  <2>1. pc \in UserPoints
    BY DEF UserPoints
  <2>2. try \in 0..Attempts
    BY <1>1, LinkAssumption DEF Again
  <2>3. <<>> \in Seq(Level) /\ Len(<<>>) = 0
    OBVIOUS
  <2> HIDE DEF pc, try
  <2>4. v \in Locals /\ v.got = 0 /\ v.stream = <<>>
    BY <1>1, <2>1, <2>2, <2>3 DEF Locals
  <2>5. user' = [user EXCEPT ![u] = v]
    BY <1>0, <1>8 DEF NextTry, pc, try
  <2> HIDE DEF v
  <2>6. v.got <= Len(v.stream)
    BY <2>3, <2>4
  <2> QED  BY <2>4, <2>5, <2>6, UserType
<1>9. ASSUME NEW u \in Users, SendRead(u) PROVE UsersType'
  <2>1. PICK answer \in Answers(lamp) :
          user' = [user EXCEPT ![u].pc = "recv", ![u].stream = answer]
    BY <1>9 DEF SendRead
  <2>2. answer \in Seq(Level) /\ Len(answer) \in Nat
    <3>1. lamp \in Program
      BY <1>0, LinkAssumption DEF OthersType
    <3> QED  BY <3>1, AnswerBytes, LenProperties
  <2>3. user[u].got = 0
    BY <1>9 DEF SendRead, TypeInv, NothingYet
  <2> DEFINE v == [user[u] EXCEPT !.pc = "recv", !.stream = answer]
  <2>4. v \in Locals /\ v.got = 0 /\ v.stream = answer
    BY <1>1, <2>2, <2>3 DEF Locals, UserPoints
  <2>5. user' = [user EXCEPT ![u] = v]
    BY <1>0, <2>1
  <2> HIDE DEF v
  <2>6. v.got <= Len(v.stream)
    BY <2>2, <2>4
  <2> QED  BY <2>4, <2>5, <2>6, UserType
<1>10. ASSUME NEW u \in Users, NEW n \in 1..Len(user[u].stream), Recv(u, n)
       PROVE  UsersType'
  <2> DEFINE res == Decoded(SubSeq(user[u].stream, 1, n))
             pc == IF res = None THEN "recv" ELSE "close"
             v == [user[u] EXCEPT !.got = n, !.res = res, !.pc = pc]
  <2>1. res \in Program \cup {None}
    BY <1>1, ReadType
  <2>2. pc \in UserPoints /\ pc \notin {"lock", "dial", "send"}
    BY DEF UserPoints
  <2>3. user' = [user EXCEPT ![u] = v]
    BY <1>0, <1>10 DEF Recv
  <2> HIDE DEF res, pc
  <2>4. n \in Nat /\ n <= Len(user[u].stream)
    BY <1>1
  <2>5. v \in Locals /\ v.got = n /\ v.stream = user[u].stream /\ v.pc = pc
    BY <1>1, <2>1, <2>2, <2>4 DEF Locals
  <2> HIDE DEF v
  <2> QED  BY <2>2, <2>3, <2>4, <2>5, UserType
<1>11. ASSUME NEW u \in Users, Unlock(u) PROVE UsersType'
  <2>1. user' = [user EXCEPT ![u] = IdleUser]
    BY <1>11 DEF Unlock
  <2>2. IdleUser.got <= Len(IdleUser.stream)
    BY IdleType
  <2> QED  BY <2>1, <2>2, IdleType, UserType
<1>12. ASSUME NEW u \in Users, UserStep(u) PROVE UsersType'
  <2>1. CASE Dial(u)
    BY <2>1, <1>6
  <2>2. CASE SendCommand(u) \/ SendFail(u) \/ RecvEnd(u)
    BY <2>2, <1>7 DEF SendCommand, SendFail, RecvEnd
  <2>3. CASE DialFail(u) \/ Close(u)
    BY <2>3, <1>8 DEF DialFail, Close
  <2> QED  BY <2>1, <2>2, <2>3, <1>9, <1>10, <1>11, <1>12 DEF UserStep
<1>13. ASSUME NEW c \in Clients,
              Accept(c) \/ ProxyLock(c) \/ Talk(c) \/ SessionEnd(c) \/ ProxyStep(c)
       PROVE  UNCHANGED user
  BY <1>13 DEF Accept, ProxyLock, Talk, ProxyStep, ProxyDial, Silence, SessionEnd, ProxyClose,
               ProxyUnlock, Leave
<1>14. Stop \/ UNCHANGED vars => UNCHANGED user
  BY DEF Stop, vars
<1> QED  BY <1>2, <1>3, <1>4, <1>12, <1>13, <1>14 DEF Next

\* Every step leaves the rest in its types.
LEMMA TOthers == TypeInv /\ [Next]_vars => OthersType'
<1> SUFFICES ASSUME TypeInv, [Next]_vars PROVE OthersType'
  OBVIOUS
<1> USE DEF OthersType
<1>0. OthersType
  BY Parts
<1>1. CASE UNCHANGED vars
  BY <1>0, <1>1 DEF vars
<1>2. ASSUME NEW u \in Users, NEW op \in Ops, Ask(u, op) PROVE OthersType'
  <2>1. asks' \in 0..MaxAsks
    BY <1>0, <1>2, LinkAssumption DEF Ask
  <2> QED  BY <1>0, <1>2, <2>1 DEF Ask
<1>3. ASSUME NEW u \in Users, Lock(u) PROVE OthersType'
  BY <1>0, <1>3 DEF Lock
<1>4. ASSUME NEW u \in Users, UserStep(u) PROVE OthersType'
  BY <1>0, <1>4 DEF UserStep, Dial, DialFail, SendCommand, SendRead, SendFail, Recv,
                    RecvEnd, Close, Unlock
<1>5. ASSUME NEW c \in Clients, NEW pc \in ClientPoints, ClientGoes(c, pc)
      PROVE  client' \in [Clients -> ClientPoints]
  BY <1>0, <1>5 DEF ClientGoes
<1>6. {"away", "lock", "dial", "session", "close", "unlock", "leave"} \subseteq ClientPoints
  BY DEF ClientPoints
<1>7. ASSUME NEW c \in Clients, Accept(c) PROVE OthersType'
  BY <1>0, <1>5, <1>6, <1>7 DEF Accept
<1>8. ASSUME NEW c \in Clients, ProxyLock(c) PROVE OthersType'
  BY <1>0, <1>5, <1>6, <1>8 DEF ProxyLock
<1>9. ASSUME NEW c \in Clients, Talk(c) PROVE OthersType'
  BY <1>0, <1>9 DEF Talk
<1>10. ASSUME NEW c \in Clients, SessionEnd(c) PROVE OthersType'
  BY <1>0, <1>5, <1>6, <1>10 DEF SessionEnd
<1>11. ASSUME NEW c \in Clients, ProxyStep(c) PROVE OthersType'
  <2>1. CASE ProxyDial(c)
    BY <1>0, <1>5, <1>6, <2>1 DEF ProxyDial
  <2>2. CASE Silence(c)
    BY <1>0, <2>2 DEF Silence
  <2>3. CASE ProxyClose(c)
    BY <1>0, <1>5, <1>6, <2>3 DEF ProxyClose
  <2>4. CASE ProxyUnlock(c)
    BY <1>0, <1>5, <1>6, <2>4 DEF ProxyUnlock
  <2>5. CASE Leave(c)
    BY <1>0, <1>5, <1>6, <2>5 DEF Leave
  <2> QED  BY <1>11, <2>1, <2>2, <2>3, <2>4, <2>5 DEF ProxyStep
<1>12. CASE Stop
  BY <1>0, <1>12 DEF Stop
<1> QED  BY <1>1, <1>2, <1>3, <1>4, <1>7, <1>8, <1>9, <1>11, <1>12, <1>10 DEF Next

\* Every field stays in its type: what any cut of any answer is read as is a
\* program or an error, the tries are counted, and no more is read than came.
THEOREM TypeCorrect == Spec => []TypeOK
<1>1. Init => TypeInv
  BY TInit
<1>2. TypeInv /\ [Next]_vars => TypeInv'
  <2>1. TypeInv' <=> OthersType' /\ UsersType'
    BY DEF TypeInv, TypeOK, NothingYet, OthersType, UsersType, Locals
  <2> QED  BY <2>1, TUsers, TOthers
<1>3. TypeInv => TypeOK
  BY DEF TypeInv
<1> QED  BY <1>1, <1>2, <1>3, PTL DEF Spec

-----------------------------------------------------------------------------
(* One connection                                                            *)

\* Between Lock and Unlock the gate is theirs, and only there; within that
\* they have a connection exactly between the dial and the close.
UserPlace(u) ==
  /\ user[u].pc \in {"dial", "send", "recv", "close", "unlock"} <=> gate = u
  /\ u \in conns <=> user[u].pc \in {"send", "recv", "close"}

ClientPlace(c) ==
  /\ client[c] \in {"dial", "session", "close", "unlock"} <=> gate = c
  /\ c \in conns <=> client[c] \in {"session", "close"}

Places ==
  /\ \A u \in Users : UserPlace(u)
  /\ \A c \in Clients : ClientPlace(c)
  /\ conns \subseteq Users \cup Clients

\* Nobody has the gate or a connection at the start.
LEMMA PInit == Init => Places
  BY LinkAssumption DEF Init, Places, UserPlace, ClientPlace, IdleUser

\* What is to be shown of a step of user u.
LEMMA UserMoves ==
  ASSUME TypeInv, Places, NEW u \in Users, NEW pc,
         \A w \in Users : user'[w].pc = IF w = u THEN pc ELSE user[w].pc,
         UNCHANGED client,
         \/ gate' = gate
         \/ gate = None /\ gate' = u
         \/ gate = u /\ gate' = None,
         conns' \in {conns, conns \cup {u}, conns \ {u}},
         pc \in {"dial", "send", "recv", "close", "unlock"} <=> gate' = u,
         u \in conns' <=> pc \in {"send", "recv", "close"}
  PROVE  Places'
<1>1. \A w \in Users : w # u => UserPlace(w)'
  BY LinkAssumption DEF Places, UserPlace
<1>2. UserPlace(u)'
  BY DEF UserPlace
<1>3. \A c \in Clients : ClientPlace(c)'
  BY LinkAssumption DEF Places, ClientPlace
<1>4. conns' \subseteq Users \cup Clients
  BY DEF Places
<1> QED  BY <1>1, <1>2, <1>3, <1>4 DEF Places

\* The same of a step of client c.
LEMMA ClientMoves ==
  ASSUME TypeInv, Places, NEW c \in Clients, NEW pc, ClientGoes(c, pc),
         UNCHANGED user,
         \/ gate' = gate
         \/ gate = None /\ gate' = c
         \/ gate = c /\ gate' = None,
         conns' \in {conns, conns \cup {c}, conns \ {c}},
         pc \in {"dial", "session", "close", "unlock"} <=> gate' = c,
         c \in conns' <=> pc \in {"session", "close"}
  PROVE  Places'
<1>0. \A d \in Clients : client'[d] = IF d = c THEN pc ELSE client[d]
  BY DEF ClientGoes, TypeInv, TypeOK
<1>1. \A d \in Clients : d # c => ClientPlace(d)'
  BY <1>0, LinkAssumption DEF Places, ClientPlace
<1>2. ClientPlace(c)'
  BY <1>0 DEF ClientPlace
<1>3. \A u \in Users : UserPlace(u)'
  BY LinkAssumption DEF Places, UserPlace
<1>4. conns' \subseteq Users \cup Clients
  BY DEF Places
<1> QED  BY <1>1, <1>2, <1>3, <1>4 DEF Places

\* Every step leaves everybody in place: one step per action.
LEMMA PNext == TypeInv /\ Places /\ [Next]_vars => Places'
<1> SUFFICES ASSUME TypeInv, Places, [Next]_vars PROVE Places'
  OBVIOUS
<1>0. /\ \A u \in Users : UserPlace(u)
      /\ \A c \in Clients : ClientPlace(c)
      /\ conns \subseteq Users \cup Clients
  BY DEF Places
<1>t. user \in [Users -> Locals] /\ client \in [Clients -> ClientPoints]
  BY Parts DEF OthersType, UsersType
<1>1. CASE UNCHANGED <<gate, conns, user, client>>
  BY <1>1, <1>0 DEF Places, UserPlace, ClientPlace
\* The point of a user's step, whatever else it does to the locals.
<1>p. ASSUME NEW u \in Users, NEW v \in Locals, user' = [user EXCEPT ![u] = v]
      PROVE  \A w \in Users : user'[w].pc = IF w = u THEN v.pc ELSE user[w].pc
  BY <1>t, <1>p
<1>q. ASSUME NEW u \in Users, NEW pc, UserGoes(u, pc)
      PROVE  \A w \in Users : user'[w].pc = IF w = u THEN pc ELSE user[w].pc
  BY <1>t, <1>q DEF UserGoes, Locals
<1>r. ASSUME NEW u \in Users, NextTry(u)
      PROVE  \A w \in Users : user'[w].pc =
               IF w = u THEN IF Again(u) THEN "dial" ELSE "unlock" ELSE user[w].pc
  BY <1>t, <1>r DEF NextTry, Locals
<1>2. ASSUME NEW u \in Users, NEW op \in Ops, Ask(u, op) PROVE Places'
  <2>1. \A w \in Users : user'[w].pc = IF w = u THEN "lock" ELSE user[w].pc
    BY <1>t, <1>2 DEF Ask, IdleUser
  <2>2. UNCHANGED <<gate, conns, client>> /\ user[u].pc = "idle"
    BY <1>2 DEF Ask
  <2> QED  BY <1>0, <2>1, <2>2, UserMoves DEF UserPlace
<1>3. ASSUME NEW u \in Users, Lock(u) PROVE Places'
  <2> DEFINE pc == IF user[u].op = "health" THEN "unlock" ELSE "dial"
  <2>1. \A w \in Users : user'[w].pc = IF w = u THEN pc ELSE user[w].pc
    BY <1>t, <1>3 DEF Lock, Locals
  <2>2. UNCHANGED <<conns, client>> /\ user[u].pc = "lock" /\ gate = None /\ gate' = u
    BY <1>3 DEF Lock
  <2> QED  BY <1>0, <2>1, <2>2, UserMoves DEF UserPlace
<1>4. ASSUME NEW u \in Users, Dial(u) PROVE Places'
  BY <1>0, <1>q, <1>4, UserMoves DEF Dial, UserPlace
<1>5. ASSUME NEW u \in Users, DialFail(u) PROVE Places'
  BY <1>0, <1>r, <1>5, UserMoves DEF DialFail, UserPlace
<1>6. ASSUME NEW u \in Users, SendCommand(u) \/ SendFail(u) \/ RecvEnd(u) PROVE Places'
  <2>1. /\ UNCHANGED <<gate, conns, client>> /\ user[u].pc \in {"send", "recv"}
        /\ UserGoes(u, "close")
    BY <1>6 DEF SendCommand, SendFail, RecvEnd
  <2> QED  BY <1>0, <1>q, <2>1, UserMoves DEF UserPlace
<1>7. ASSUME NEW u \in Users, SendRead(u) PROVE Places'
  <2>1. UNCHANGED <<gate, conns, client>> /\ user[u].pc = "send"
    BY <1>7 DEF SendRead
  <2>2. \A w \in Users : user'[w].pc = IF w = u THEN "recv" ELSE user[w].pc
    BY <1>t, <1>7 DEF SendRead, Locals
  <2> QED  BY <1>0, <2>1, <2>2, UserMoves DEF UserPlace
<1>8. ASSUME NEW u \in Users, NEW n \in 1..Len(user[u].stream), Recv(u, n) PROVE Places'
  <2> DEFINE pc == IF Decoded(SubSeq(user[u].stream, 1, n)) = None THEN "recv" ELSE "close"
  <2>1. UNCHANGED <<gate, conns, client>> /\ user[u].pc = "recv"
    BY <1>8 DEF Recv
  <2>2. \A w \in Users : user'[w].pc = IF w = u THEN pc ELSE user[w].pc
    BY <1>t, <1>8 DEF Recv, Locals
  <2> QED  BY <1>0, <2>1, <2>2, UserMoves DEF UserPlace
<1>9. ASSUME NEW u \in Users, Close(u) PROVE Places'
  BY <1>0, <1>r, <1>9, UserMoves DEF Close, UserPlace
<1>10. ASSUME NEW u \in Users, Unlock(u) PROVE Places'
  <2>1. \A w \in Users : user'[w].pc = IF w = u THEN "idle" ELSE user[w].pc
    BY <1>t, <1>10 DEF Unlock, IdleUser
  <2>2. UNCHANGED <<conns, client>> /\ user[u].pc = "unlock" /\ gate' = None
    BY <1>10 DEF Unlock
  <2> QED  BY <1>0, <2>1, <2>2, UserMoves, LinkAssumption DEF UserPlace
<1>11. ASSUME NEW c \in Clients, Accept(c) PROVE Places'
  <2>1. CASE UNCHANGED client
    BY <1>1, <1>11, <2>1 DEF Accept
  <2>2. CASE ClientGoes(c, "lock")
    BY <1>0, <1>11, <2>2, ClientMoves DEF Accept, ClientPlace
  <2> QED  BY <1>11, <2>1, <2>2 DEF Accept
<1>12. ASSUME NEW c \in Clients, ProxyLock(c) PROVE Places'
  BY <1>0, <1>12, ClientMoves DEF ProxyLock, ClientPlace
<1>13. ASSUME NEW c \in Clients, ProxyDial(c) PROVE Places'
  <2>1. CASE conns' = {c} /\ conns = {} /\ ClientGoes(c, "session")
    BY <1>0, <1>13, <2>1, ClientMoves DEF ProxyDial, ClientPlace
  <2>2. CASE UNCHANGED conns /\ ClientGoes(c, "unlock")
    BY <1>0, <1>13, <2>2, ClientMoves DEF ProxyDial, ClientPlace
  <2> QED  BY <1>13, <2>1, <2>2 DEF ProxyDial
<1>14. ASSUME NEW c \in Clients, SessionEnd(c) PROVE Places'
  BY <1>0, <1>14, ClientMoves DEF SessionEnd, ClientPlace
<1>15. ASSUME NEW c \in Clients, ProxyClose(c) PROVE Places'
  BY <1>0, <1>15, ClientMoves DEF ProxyClose, ClientPlace
<1>16. ASSUME NEW c \in Clients, ProxyUnlock(c) PROVE Places'
  BY <1>0, <1>16, ClientMoves, LinkAssumption DEF ProxyUnlock, ClientPlace
<1>17. ASSUME NEW c \in Clients, Leave(c) PROVE Places'
  BY <1>0, <1>17, ClientMoves DEF Leave, ClientPlace
<1>18. (\E c \in Clients : Talk(c) \/ Silence(c)) \/ Stop \/ UNCHANGED vars => Places'
  BY <1>1 DEF Talk, Silence, Stop, vars
<1> QED  BY <1>2, <1>3, <1>4, <1>5, <1>6, <1>7, <1>8, <1>9, <1>10, <1>11, <1>12, <1>13,
            <1>14, <1>15, <1>16, <1>17, <1>18 DEF Next, UserStep, ProxyStep

\* Who has a connection to the lamp has the gate, so no two have one: for any
\* number of goroutines, proxy clients, retries and answers of the lamp.
THEOREM OneConnectionCorrect == Spec => []OneConnection
<1> DEFINE Inv == TypeInv /\ Places
<1>1. Init => Inv
  BY TInit, PInit
<1>2. Inv /\ [Next]_vars => Inv'
  <2>1. TypeInv' <=> OthersType' /\ UsersType'
    BY DEF TypeInv, TypeOK, NothingYet, OthersType, UsersType, Locals
  <2> QED  BY <2>1, TUsers, TOthers, PNext
<1>3. Inv => OneConnection
  BY DEF Places, UserPlace, ClientPlace, OneConnection
<1> QED  BY <1>1, <1>2, <1>3, PTL DEF Spec

-----------------------------------------------------------------------------
(* Where the bytes of a frame are                                            *)

\* A byte of two sequences in a row is a byte of the one or of the other.
LEMMA JoinedAt ==
  ASSUME NEW s \in Seq(Level), NEW t \in Seq(Level)
  PROVE  /\ s \o t \in Seq(Level) /\ Len(s \o t) = Len(s) + Len(t)
         /\ \A i \in 1..Len(s) : (s \o t)[i] = s[i]
         /\ \A i \in 1..Len(t) : (s \o t)[Len(s) + i] = t[i]
<1>1. Len(s) \in Nat /\ Len(t) \in Nat
  BY LenProperties
<1>2. \A i \in 1..Len(s) + Len(t) :
        (s \o t)[i] = IF i <= Len(s) THEN s[i] ELSE t[i - Len(s)]
  BY ConcatProperties
<1>3. \A i \in 1..Len(s) : (s \o t)[i] = s[i]
  BY <1>1, <1>2
<1>4. ASSUME NEW i \in 1..Len(t) PROVE (s \o t)[Len(s) + i] = t[i]
  <2>1. /\ Len(s) + i \in 1..Len(s) + Len(t) /\ ~(Len(s) + i <= Len(s))
        /\ (Len(s) + i) - Len(s) = i
    BY <1>1
  <2> QED  BY <2>1, <1>2
<1> QED  BY <1>3, <1>4, ConcatProperties

\* A frame f of p with N bytes of slots: the magic bytes, the manual values from 5,
\* the count of slots at 11, the slots from 12, the mode at ModeAt, the name, the end.
Layout(f, p, N) ==
  /\ f \in Seq(Level) /\ Len(f) = 15 + N /\ ModeAt = 12 + N
  /\ f[1] = 171 /\ f[2] = 170 /\ f[3] = 16
  /\ \A i \in 1..6 : f[4 + i] = p.manual[i]
  /\ f[11] = Slots
  /\ \A i \in 1..N : f[11 + i] = p.sched[i]
  /\ f[12 + N] = p.auto
  /\ f[13 + N] = 75 /\ f[14 + N] = 55 /\ f[15 + N] = 187

\* That is what Frame makes.
LEMMA FrameLayout ==
  \A p \in Program : \E N \in Nat : N = Slots * Columns /\ Layout(Frame(p), p, N)
<1> SUFFICES ASSUME NEW p \in Program, NEW N \in Nat, N = Slots * Columns
             PROVE  Layout(Frame(p), p, N)
  BY Sizes
<1> DEFINE m == p.manual  s == p.sched
           start == <<16, 8>>  count == <<Slots>>  mode == <<p.auto>>  end == <<PktEnd>>
           A == RespMagic \o start   B == A \o m   C == B \o count
           D == C \o s   E == D \o mode   F == E \o Name   G == F \o end
<1>1. m \in [1..6 -> Level] /\ s \in [1..N -> Level] /\ p.auto \in Level /\ ModeAt = 12 + N
  BY DEF Program, Channels, Level, ModeAt
<1>2. /\ start \in Seq(Level) /\ count \in Seq(Level) /\ mode \in Seq(Level)
      /\ end \in Seq(Level) /\ RespMagic \in Seq(Level) /\ Name \in Seq(Level)
  BY <1>1, Sizes, Bytes DEF PktEnd, Level
<1>3. /\ Len(start) = 2 /\ start[1] = 16 /\ start[2] = 8
      /\ Len(count) = 1 /\ count[1] = Slots
      /\ Len(mode) = 1 /\ mode[1] = p.auto
      /\ Len(RespMagic) = 2 /\ RespMagic[1] = 171 /\ RespMagic[2] = 170
      /\ Len(Name) = 2 /\ Name[1] = 75 /\ Name[2] = 55
      /\ Len(end) = 1 /\ end[1] = 187
  BY DEF RespMagic, Name, PktEnd
<1>4. Frame(p) = G
  BY DEF Frame
<1> HIDE DEF m, s, start, count, mode, end
<1>5. m \in Seq(Level) /\ Len(m) = 6
  <2>1. PICK n \in Nat : n = 6
    OBVIOUS
  <2> QED  BY <1>1, <2>1, Listed
<1>6. s \in Seq(Level) /\ Len(s) = N
  BY <1>1, Listed
<1>a. A \in Seq(Level) /\ Len(A) = 4 /\ A[1] = 171 /\ A[2] = 170 /\ A[3] = 16
  <2>1. /\ A \in Seq(Level) /\ Len(A) = Len(RespMagic) + Len(start)
        /\ \A i \in 1..Len(RespMagic) : A[i] = RespMagic[i]
        /\ \A i \in 1..Len(start) : A[Len(RespMagic) + i] = start[i]
    BY <1>2, JoinedAt
  <2> HIDE DEF A
  <2>2. Len(RespMagic) = 2 /\ Len(start) = 2
    BY <1>3
  <2>3. 1 \in 1..2 /\ 2 \in 1..2 /\ 2 + 1 = 3
    OBVIOUS
  <2>4. A[1] = RespMagic[1] /\ A[2] = RespMagic[2] /\ A[2 + 1] = start[1]
    BY <2>1, <2>2, <2>3
  <2> QED  BY <2>1, <2>2, <2>3, <2>4, <1>3
<1> HIDE DEF A
<1>b. /\ B \in Seq(Level) /\ Len(B) = 10
      /\ \A i \in 1..4 : B[i] = A[i]
      /\ \A i \in 1..6 : B[4 + i] = m[i]
  <2>1. /\ B \in Seq(Level) /\ Len(B) = Len(A) + Len(m)
        /\ \A i \in 1..Len(A) : B[i] = A[i]
        /\ \A i \in 1..Len(m) : B[Len(A) + i] = m[i]
    <3>1. A \in Seq(Level) /\ m \in Seq(Level)
      BY <1>a, <1>5
    <3> QED  BY <3>1, JoinedAt
  <2> HIDE DEF B
  <2> QED  BY <2>1, <1>a, <1>5
<1> HIDE DEF B
<1>c. /\ C \in Seq(Level) /\ Len(C) = 11
      /\ \A i \in 1..10 : C[i] = B[i]
      /\ C[11] = Slots
  <2>1. /\ C \in Seq(Level) /\ Len(C) = Len(B) + Len(count)
        /\ \A i \in 1..Len(B) : C[i] = B[i]
        /\ \A i \in 1..Len(count) : C[Len(B) + i] = count[i]
    <3>1. B \in Seq(Level) /\ count \in Seq(Level)
      BY <1>b, <1>2
    <3> QED  BY <3>1, JoinedAt
  <2>2. Len(count) = 1 /\ count[1] = Slots /\ Len(B) = 10
    BY <1>3, <1>b
  <2> HIDE DEF C
  <2> QED  BY <2>1, <2>2
<1> HIDE DEF C
<1>d. /\ D \in Seq(Level) /\ Len(D) = 11 + N
      /\ \A i \in 1..11 : D[i] = C[i]
      /\ \A i \in 1..N : D[11 + i] = s[i]
  <2>1. /\ D \in Seq(Level) /\ Len(D) = Len(C) + Len(s)
        /\ \A i \in 1..Len(C) : D[i] = C[i]
        /\ \A i \in 1..Len(s) : D[Len(C) + i] = s[i]
    <3>1. C \in Seq(Level) /\ s \in Seq(Level)
      BY <1>c, <1>6
    <3> QED  BY <3>1, JoinedAt
  <2> HIDE DEF D
  <2> QED  BY <2>1, <1>c, <1>6
<1> HIDE DEF D
<1>e. /\ E \in Seq(Level) /\ Len(E) = 12 + N
      /\ \A i \in 1..11 + N : E[i] = D[i]
      /\ E[12 + N] = p.auto
  <2>1. /\ E \in Seq(Level) /\ Len(E) = Len(D) + Len(mode)
        /\ \A i \in 1..Len(D) : E[i] = D[i]
        /\ \A i \in 1..Len(mode) : E[Len(D) + i] = mode[i]
    <3>1. D \in Seq(Level) /\ mode \in Seq(Level)
      BY <1>d, <1>2
    <3> QED  BY <3>1, JoinedAt
  <2>2. Len(mode) = 1 /\ mode[1] = p.auto /\ Len(D) = 11 + N
    BY <1>3, <1>d
  <2>3. 1 \in 1..1 /\ (11 + N) + 1 = 12 + N
    OBVIOUS
  <2> HIDE DEF E
  <2> QED  BY <2>1, <2>2, <2>3
<1> HIDE DEF E
<1>f. /\ F \in Seq(Level) /\ Len(F) = 14 + N
      /\ \A i \in 1..12 + N : F[i] = E[i]
      /\ F[13 + N] = 75 /\ F[14 + N] = 55
  <2>1. /\ F \in Seq(Level) /\ Len(F) = Len(E) + Len(Name)
        /\ \A i \in 1..Len(E) : F[i] = E[i]
        /\ \A i \in 1..Len(Name) : F[Len(E) + i] = Name[i]
    <3>1. E \in Seq(Level) /\ Name \in Seq(Level)
      BY <1>e, <1>2
    <3> QED  BY <3>1, JoinedAt
  <2>2. Len(Name) = 2 /\ Name[1] = 75 /\ Name[2] = 55 /\ Len(E) = 12 + N
    BY <1>3, <1>e
  <2>3. 1 \in 1..2 /\ 2 \in 1..2 /\ (12 + N) + 1 = 13 + N /\ (12 + N) + 2 = 14 + N
    OBVIOUS
  <2> HIDE DEF F
  <2> QED  BY <2>1, <2>2, <2>3
<1> HIDE DEF F
<1>g. /\ G \in Seq(Level) /\ Len(G) = 15 + N
      /\ \A i \in 1..14 + N : G[i] = F[i]
      /\ G[15 + N] = 187
  <2>1. /\ G \in Seq(Level) /\ Len(G) = Len(F) + Len(end)
        /\ \A i \in 1..Len(F) : G[i] = F[i]
        /\ \A i \in 1..Len(end) : G[Len(F) + i] = end[i]
    <3>1. F \in Seq(Level) /\ end \in Seq(Level)
      BY <1>f, <1>2
    <3> QED  BY <3>1, JoinedAt
  <2>2. Len(end) = 1 /\ end[1] = 187 /\ Len(F) = 14 + N
    BY <1>3, <1>f
  <2>3. 1 \in 1..1 /\ (14 + N) + 1 = 15 + N
    OBVIOUS
  <2> HIDE DEF G
  <2> QED  BY <2>1, <2>2, <2>3
<1> HIDE DEF G
\* A byte of a part is that byte of the whole.
<1>h. \A i \in 1..11 : G[i] = C[i]
  <2> TAKE i \in 1..11
  <2>1. i \in 1..11 + N /\ i \in 1..12 + N /\ i \in 1..14 + N
    OBVIOUS
  <2>2. G[i] = F[i] /\ F[i] = E[i] /\ E[i] = D[i] /\ D[i] = C[i]
    BY <2>1, <1>g, <1>f, <1>e, <1>d
  <2> QED  BY <2>2
<1>i. \A i \in 1..N : G[11 + i] = s[i]
  <2> TAKE i \in 1..N
  <2>1. 11 + i \in 1..11 + N /\ 11 + i \in 1..12 + N /\ 11 + i \in 1..14 + N
    OBVIOUS
  <2>2. G[11 + i] = F[11 + i] /\ F[11 + i] = E[11 + i] /\ E[11 + i] = D[11 + i]
    BY <2>1, <1>g, <1>f, <1>e
  <2>3. D[11 + i] = s[i]
    BY <1>d
  <2> QED  BY <2>2, <2>3
<1>j. G[12 + N] = p.auto /\ G[13 + N] = 75 /\ G[14 + N] = 55
  <2>1. 12 + N \in 1..12 + N /\ {12 + N, 13 + N, 14 + N} \subseteq 1..14 + N
    OBVIOUS
  <2>2. G[12 + N] = F[12 + N] /\ F[12 + N] = E[12 + N]
    BY <2>1, <1>g, <1>f
  <2>3. G[13 + N] = F[13 + N] /\ G[14 + N] = F[14 + N]
    BY <2>1, <1>g
  <2> QED  BY <2>2, <2>3, <1>f, <1>e
<1>k. /\ G[1] = 171 /\ G[2] = 170 /\ G[3] = 16 /\ G[11] = Slots
      /\ \A i \in 1..6 : G[4 + i] = m[i]
  <2>1. /\ \A i \in 1..4 : G[i] = A[i]
        /\ \A i \in 1..6 : G[4 + i] = B[4 + i]
        /\ G[11] = C[11]
    BY <1>h, <1>c, <1>b
  <2>2. \A i \in 1..6 : B[4 + i] = m[i]
    BY <1>b
  <2> QED  BY <2>1, <2>2, <1>c, <1>a
<1> QED  BY <1>1, <1>4, <1>g, <1>i, <1>j, <1>k DEF m, s, Layout

-----------------------------------------------------------------------------
(* What is read of an answer                                                 *)

\* A frame by itself is read as what the lamp holds.
LEMMA DecodeFrame == \A p \in Program : DecodeState(Frame(p)) = p
<1> SUFFICES ASSUME NEW p \in Program PROVE DecodeState(Frame(p)) = p
  OBVIOUS
<1> DEFINE f == Frame(p)
<1>1. PICK N \in Nat : N = Slots * Columns /\ Layout(f, p, N)
  BY FrameLayout
<1>2. /\ Len(f) = 15 + N /\ ModeAt = 12 + N
      /\ f[1] = 171 /\ f[2] = 170 /\ f[11] = Slots /\ f[15 + N] = 187
      /\ \A i \in 1..6 : f[4 + i] = p.manual[i]
      /\ \A i \in 1..N : f[11 + i] = p.sched[i]
      /\ f[12 + N] = p.auto
  BY <1>1 DEF Layout
<1> HIDE DEF f
<1>3. /\ p.manual \in [1..Channels -> Level] /\ p.sched \in [1..Slots * Columns -> Level]
      /\ p.auto \in 0..1
      /\ p = [manual |-> p.manual, sched |-> p.sched, auto |-> p.auto]
  BY DEF Program
<1>4. [i \in 1..Channels |-> f[4 + i]] = p.manual
  <2>1. \A i \in 1..Channels : f[4 + i] = p.manual[i]
    BY <1>2 DEF Channels
  <2> QED  BY <2>1, <1>3
<1>5. [i \in 1..Slots * Columns |-> f[5 + Channels + i]] = p.sched
  <2>1. \A i \in 1..Slots * Columns : f[5 + Channels + i] = p.sched[i]
    <3>1. \A i \in 1..N : f[5 + Channels + i] = p.sched[i]
      BY <1>2 DEF Channels
    <3> QED  BY <3>1, <1>1
  <2> QED  BY <2>1, <1>3
<1>6. (IF f[ModeAt] = 0 THEN 0 ELSE 1) = p.auto
  BY <1>2, <1>3
<1>7. /\ Len(f) > ModeAt /\ f[1] = RespMagic[1] /\ f[2] = RespMagic[2]
      /\ f[Len(f)] = PktEnd /\ f[5 + Channels] = Slots
  BY <1>2 DEF RespMagic, PktEnd, Channels
<1> QED  BY <1>3, <1>4, <1>5, <1>6, <1>7 DEF DecodeState, f

\* The first place where a frame may start is the one that is taken.
LEMMA FirstFrame ==
  ASSUME NEW b \in Seq(Level), NEW k \in FrameStarts(b),
         \A j \in FrameStarts(b) : k <= j
  PROVE  /\ Decoded(b) = DecodeState(SubSeq(b, k, Len(b)))
         /\ SubSeq(b, k, Len(b)) \in Seq(Level)
         /\ Len(SubSeq(b, k, Len(b))) = Len(b) - k + 1
         /\ \A i \in 1..Len(b) - k + 1 : SubSeq(b, k, Len(b))[i] = b[k + i - 1]
<1> DEFINE first(i) == \A j \in FrameStarts(b) : i <= j
           c == CHOOSE i \in FrameStarts(b) : first(i)
           f == SubSeq(b, k, Len(b))
<1>1. Len(b) \in Nat /\ FrameStarts(b) \subseteq 1..Len(b)
  BY LenProperties DEF FrameStarts
<1>2. c \in FrameStarts(b) /\ first(c)
  <2>1. \E i \in FrameStarts(b) : first(i)
    OBVIOUS
  <2> HIDE DEF first
  <2> QED  BY <2>1
<1>3. c = k
  BY <1>1, <1>2
<1>4. FrameIn(b) = SubSeq(b, c, Len(b))
  BY DEF FrameIn
<1> HIDE DEF c
<1>5. /\ f \in Seq(Level) /\ Len(f) = Len(b) - k + 1
      /\ \A i \in 1..Len(b) - k + 1 : f[i] = b[k + i - 1]
  <2>1. k \in Int /\ Len(b) \in Int /\ k <= Len(b) /\ \A i \in k..Len(b) : b[i] \in Level
    BY <1>1, ElementOfSeq
  <2> QED  BY <2>1, SubSeqProperties
<1> HIDE DEF f
<1>6. f # <<>>
  <2>1. Len(<<>>) = 0 /\ Len(f) > 0
    BY <1>1, <1>5
  <2> QED  BY <2>1
<1>7. FrameIn(b) = f
  BY <1>3, <1>4 DEF f
<1> QED  BY <1>5, <1>6, <1>7 DEF Decoded, f

\* The first n bytes of bytes.
LEMMA Prefix ==
  ASSUME NEW a \in Seq(Level), NEW n \in 1..Len(a)
  PROVE  /\ SubSeq(a, 1, n) \in Seq(Level) /\ Len(SubSeq(a, 1, n)) = n
         /\ \A i \in 1..n : SubSeq(a, 1, n)[i] = a[i]
<1>1. n \in Int /\ 1 <= n /\ \A i \in 1..n : a[i] \in Level
  BY LenProperties, ElementOfSeq
<1>2. /\ SubSeq(a, 1, n) \in Seq(Level)
      /\ Len(SubSeq(a, 1, n)) = IF 1 <= n THEN n - 1 + 1 ELSE 0
      /\ \A i \in 1..n - 1 + 1 : SubSeq(a, 1, n)[i] = a[1 + i - 1]
  BY <1>1, SubSeqProperties
<1> QED  BY <1>1, <1>2

\* Before a frame there is no place that looks like the start of one.
Unlike(a, m) == \A i \in 1..m : a[i] # 171 \/ a[i + 1] # 170 \/ a[i + 10] # Slots

\* A frame after bytes that do not look like one is read when all of it is there,
\* and nothing is read before: of the bytes after the mode only the last ends it.
LEMMA ReadsFrame ==
  ASSUME NEW p \in Program, NEW s \in Seq(Level), NEW a, a = s \o Frame(p),
         Unlike(a, Len(s)), NEW n \in 1..Len(a)
  PROVE  Decoded(SubSeq(a, 1, n)) \in {p, None}
<1> DEFINE F == Frame(p)  b == SubSeq(a, 1, n)  L == Len(s)
<1>1. PICK N \in Nat : Layout(F, p, N)
  BY FrameLayout
<1>2. /\ F \in Seq(Level) /\ Len(F) = 15 + N /\ ModeAt = 12 + N
      /\ F[1] = 171 /\ F[2] = 170 /\ F[11] = Slots
      /\ F[13 + N] = 75 /\ F[14 + N] = 55 /\ F[15 + N] = 187
  BY <1>1 DEF Layout
<1> HIDE DEF F
<1>3. /\ a \in Seq(Level) /\ Len(a) = L + 15 + N /\ L \in Nat
      /\ \A i \in 1..15 + N : a[L + i] = F[i]
  <2>1. L \in Nat
    BY LenProperties
  <2>2. /\ a \in Seq(Level) /\ Len(a) = L + Len(F)
        /\ \A i \in 1..Len(F) : a[L + i] = F[i]
    <3>1. F \in Seq(Level) /\ s \in Seq(Level) /\ a = s \o F
      BY <1>2 DEF F
    <3> QED  BY <3>1, JoinedAt
  <2> QED  BY <1>2, <2>1, <2>2
<1>u. Unlike(a, L) /\ n \in 1..Len(a)
  OBVIOUS
<1>4. b \in Seq(Level) /\ Len(b) = n /\ \A i \in 1..n : b[i] = a[i]
  BY <1>3, <1>u, Prefix
<1>5. n \in Nat /\ 1 <= n /\ n <= L + 15 + N
  BY <1>3, <1>u
<1> HIDE DEF b, L
<1>6. \A i \in FrameStarts(b) : i \in Nat /\ L + 1 <= i /\ i + 10 <= n
  <2> SUFFICES ASSUME NEW i \in FrameStarts(b) PROVE i \in Nat /\ L + 1 <= i /\ i + 10 <= n
    OBVIOUS
  <2>1. /\ i \in 1..n /\ i + 10 <= n /\ b[i] = 171 /\ b[i + 1] = 170 /\ b[i + 10] = Slots
    BY <1>4 DEF FrameStarts, RespMagic
  <2>2. i \in 1..n /\ i + 1 \in 1..n /\ i + 10 \in 1..n
    BY <2>1, <1>5
  <2>3. a[i] = 171 /\ a[i + 1] = 170 /\ a[i + 10] = Slots
    BY <2>1, <2>2, <1>4
  <2>4. i \notin 1..L
    BY <2>3, <1>u DEF Unlike
  <2> QED  BY <2>1, <2>4, <1>3, <1>5
<1>7. CASE n < L + 11
  <2>1. FrameStarts(b) = {}
    BY <1>6, <1>7, <1>3, <1>5
  <2>2. Decoded(b) = None
    BY <2>1 DEF FrameIn, Decoded
  <2> QED  BY <2>2 DEF b
<1>8. CASE L + 11 <= n
  <2> DEFINE k == L + 1  f == SubSeq(b, k, Len(b))
  <2>1. a[L + 1] = 171 /\ a[L + 2] = 170 /\ a[L + 11] = Slots
    <3>1. 1 \in 1..15 + N /\ 2 \in 1..15 + N /\ 11 \in 1..15 + N
      OBVIOUS
    <3>2. a[L + 1] = F[1] /\ a[L + 2] = F[2] /\ a[L + 11] = F[11]
      BY <3>1, <1>3
    <3> QED  BY <3>2, <1>2
  <2>2. b[k] = 171 /\ b[k + 1] = 170 /\ b[k + 10] = Slots
    <3>1. L + 1 \in 1..n /\ L + 2 \in 1..n /\ L + 11 \in 1..n
      BY <1>3, <1>5, <1>8
    <3>2. b[L + 1] = a[L + 1] /\ b[L + 2] = a[L + 2] /\ b[L + 11] = a[L + 11]
      BY <3>1, <1>4
    <3>3. k + 1 = L + 2 /\ k + 10 = L + 11
      BY <1>3
    <3> QED  BY <2>1, <3>2, <3>3
  <2>3. k \in FrameStarts(b) /\ \A j \in FrameStarts(b) : k <= j
    <3>1. k \in 1..Len(b) /\ k + 10 <= Len(b)
      BY <1>3, <1>4, <1>5, <1>8
    <3> QED  BY <2>2, <3>1, <1>6 DEF FrameStarts, RespMagic
  <2>4. /\ Decoded(b) = DecodeState(f) /\ f \in Seq(Level)
        /\ Len(f) = n - L /\ \A i \in 1..n - L : f[i] = b[L + i]
    <3>1. /\ Decoded(b) = DecodeState(f) /\ f \in Seq(Level)
          /\ Len(f) = Len(b) - k + 1
          /\ \A i \in 1..Len(b) - k + 1 : f[i] = b[k + i - 1]
      BY <2>3, <1>4, FirstFrame
    <3>2. Len(b) - k + 1 = n - L /\ \A i \in Nat : k + i - 1 = L + i
      BY <1>3, <1>4, <1>5
    <3> HIDE DEF f, k
    <3>3. \A i \in 1..n - L : i \in Nat
      BY <1>3, <1>5
    <3> QED  BY <3>1, <3>2, <3>3
  <2> HIDE DEF f, k
  <2>5. \A i \in 1..n - L : f[i] = F[i]
    <3> TAKE i \in 1..n - L
    <3>1. L + i \in 1..n /\ i \in 1..15 + N
      BY <1>3, <1>5
    <3> QED  BY <3>1, <2>4, <1>3, <1>4
  <2>6. CASE n = L + 15 + N
    <3>1. f = F
      <4>1. n - L = 15 + N
        BY <2>6, <1>3
      <4> QED  BY <4>1, <2>4, <2>5, <1>2, SeqEqual
    <3>2. Decoded(b) = p
      BY <3>1, <2>4, DecodeFrame DEF F
    <3> QED  BY <3>2 DEF b
  <2>7. CASE n # L + 15 + N
    <3>1. Len(f) > 12 + N => f[Len(f)] # 187
      <4> HAVE Len(f) > 12 + N
      <4>1. n - L = 13 + N \/ n - L = 14 + N
        BY <2>4, <2>7, <1>3, <1>5
      <4>2. n - L \in 1..n - L
        BY <4>1
      <4>3. f[n - L] = 75 \/ f[n - L] = 55
        BY <4>1, <4>2, <2>5, <1>2
      <4> QED  BY <4>3, <2>4
    <3>2. Decoded(b) = None
      BY <3>1, <2>4, <1>2 DEF DecodeState, PktEnd
    <3> QED  BY <3>2 DEF b
  <2> QED  BY <2>6, <2>7
<1> QED  BY <1>7, <1>8, <1>3, <1>5

\* What may come before a frame does not look like one: it would, if the level of
\* the third channel were the number of slots, or that number were 16.
LEMMA BeforeUnlike ==
  ASSUME NEW p \in Program, p.manual[3] # Slots, Slots # 16,
         NEW s \in {<<>>, Ack, Echo, Echo \o Ack}
  PROVE  s \in Seq(Level) /\ Unlike(s \o Frame(p), Len(s))
<1> DEFINE F == Frame(p)  a == s \o F
<1>1. PICK N \in Nat : Layout(F, p, N)
  BY FrameLayout
<1>2. /\ F \in Seq(Level) /\ Len(F) = 15 + N /\ F[3] = 16 /\ F[7] # Slots
      /\ F[1] = 171 /\ F[2] = 170
  <2>1. F[4 + 3] = p.manual[3]
    BY <1>1 DEF Layout
  <2> QED  BY <1>1, <2>1 DEF Layout
<1> HIDE DEF F
<1>3. s \in Seq(Level)
  <2>1. <<>> \in Seq(Level) /\ Echo \o Ack \in Seq(Level)
    BY Bytes
  <2> QED  BY <2>1, Bytes
<1>4. /\ \A i \in 1..Len(s) : a[i] = s[i]
      /\ \A i \in 1..Len(F) : a[Len(s) + i] = F[i]
  BY <1>2, <1>3, JoinedAt
<1> HIDE DEF a
<1>5. Slots \in 1..24
  BY LinkAssumption
<1>6. Unlike(a, Len(s))
  <2>1. CASE s = <<>>
    <3>1. Len(s) = 0
      BY <2>1
    <3> QED  BY <3>1 DEF Unlike
  <2>2. CASE s = Ack
    <3>1. /\ Len(s) = 4
          /\ s[2] # 171 /\ s[3] # 171 /\ s[4] # 171
      BY <2>2 DEF Ack, RespMagic
    <3>2. a[2] # 171 /\ a[3] # 171 /\ a[4] # 171
      BY <3>1, <1>4
    <3>3. a[1 + 10] # Slots
      <4>1. 7 \in 1..Len(F) /\ 4 + 7 = 1 + 10
        BY <1>2
      <4> QED  BY <4>1, <3>1, <1>4, <1>2
    <3> QED  BY <3>1, <3>2, <3>3 DEF Unlike
  <2>3. CASE s = Echo
    <3>1. /\ Len(s) = 8
          /\ s[2] # 171 /\ s[3] # 171 /\ s[4] # 171 /\ s[5] # 171
          /\ s[6] # 171 /\ s[7] # 171 /\ s[8] # 171
      BY <2>3 DEF Echo, Name, RespMagic, PktEnd
    <3>2. \A i \in 2..8 : a[i] # 171
      BY <3>1, <1>4
    <3>3. a[1 + 10] # Slots
      <4>1. 3 \in 1..Len(F) /\ 8 + 3 = 1 + 10
        BY <1>2
      <4>2. a[8 + 3] = F[3]
        BY <4>1, <3>1, <1>4
      <4> QED  BY <4>1, <4>2, <1>2
    <3> QED  BY <3>1, <3>2, <3>3 DEF Unlike
  <2>4. CASE s = Echo \o Ack
    <3>1. /\ Len(s) = 12
          /\ s[2] # 171 /\ s[3] # 171 /\ s[4] # 171 /\ s[5] # 171
          /\ s[6] # 171 /\ s[7] # 171 /\ s[8] # 171 /\ s[10] # 171
          /\ s[11] = 165 /\ s[12] # 171
      BY <2>4 DEF Echo, Ack, Name, RespMagic, PktEnd
    <3>2. \A i \in {2, 3, 4, 5, 6, 7, 8, 10, 12} : a[i] # 171
      BY <3>1, <1>4
    <3>3. a[11] = 165
      BY <3>1, <1>4
    <3>4. a[9 + 10] # Slots
      <4>1. 7 \in 1..Len(F) /\ 12 + 7 = 9 + 10
        BY <1>2
      <4>2. a[12 + 7] = F[7]
        BY <4>1, <3>1, <1>4
      <4> QED  BY <4>1, <4>2, <1>2
    <3>5. a[1 + 10] # Slots /\ a[11] # 171
      BY <3>3, <1>5
    <3>6. \A i \in 1..12 : i = 1 \/ i = 9 \/ i = 11 \/ i \in {2, 3, 4, 5, 6, 7, 8, 10, 12}
      OBVIOUS
    <3> QED  BY <3>1, <3>2, <3>4, <3>5, <3>6 DEF Unlike
  <2> QED  BY <2>1, <2>2, <2>3, <2>4
<1> QED  BY <1>3, <1>6 DEF a, F

\* Of an answer, cut wherever, either nothing is read or what the lamp holds.
LEMMA Reading ==
  ASSUME NEW p \in Program, p.manual[3] # Slots, Slots # 16, NEW a \in Answers(p),
         NEW n \in 1..Len(a)
  PROVE  Decoded(SubSeq(a, 1, n)) \in {p, None}
<1>1. CASE \E s \in {<<>>, Ack, Echo, Echo \o Ack} : a = s \o Frame(p)
  <2>1. PICK s \in {<<>>, Ack, Echo, Echo \o Ack} : a = s \o Frame(p)
    BY <1>1
  <2>2. s \in Seq(Level) /\ Unlike(a, Len(s))
    BY <2>1, BeforeUnlike
  <2> QED  BY <2>1, <2>2, ReadsFrame
<1>2. CASE a = Ack
  <2> DEFINE b == SubSeq(a, 1, n)
  <2>1. a \in Seq(Level) /\ Len(a) = 4
    <3>1. Len(a) = 4
      BY <1>2 DEF Ack, RespMagic
    <3> QED  BY <1>2, <3>1, Bytes
  <2>2. Len(b) = n
    BY <2>1, Prefix
  <2> HIDE DEF b
  <2>3. FrameStarts(b) = {}
    BY <2>1, <2>2 DEF FrameStarts
  <2>4. Decoded(b) = None
    BY <2>3 DEF Decoded, FrameIn
  <2> QED  BY <2>4 DEF b
<1>3. CASE a = SubSeq(Frame(p), 1, 12)
  <2> DEFINE F == Frame(p)
  <2>1. PICK N \in Nat : Layout(F, p, N)
    BY FrameLayout
  <2>2. F \in Seq(Level) /\ Len(F) = 15 + N /\ 12 \in 1..Len(F) /\ 1 \in 1..Len(F)
    BY <2>1 DEF Layout
  <2> HIDE DEF F
  <2>3. a = SubSeq(F, 1, 12)
    BY <1>3 DEF F
  <2>4. Len(a) = 12
    BY <2>2, <2>3, Prefix
  <2>5. SubSeq(a, 1, n) = SubSeq(F, 1, n)
    <3>1. 1 \in 1..12 - 1 + 1 /\ n \in 1..12 - 1 + 1
      BY <2>4
    <3>2. SubSeq(SubSeq(F, 1, 12), 1, n) = SubSeq(F, 1 + 1 - 1, 1 + n - 1)
      BY <3>1, <2>2, SubSeqOfSubSeq
    <3>3. 1 + 1 - 1 = 1 /\ 1 + n - 1 = n
      BY <3>1
    <3> QED  BY <3>2, <3>3, <2>3
  <2>6. F = <<>> \o Frame(p) /\ <<>> \in Seq(Level) /\ Len(<<>>) = 0
    BY <2>2, ConcatEmptySeq DEF F
  <2>7. Unlike(F, Len(<<>>)) /\ n \in 1..Len(F)
    BY <2>2, <2>4, <2>6 DEF Unlike
  <2> QED  BY <2>5, <2>6, <2>7, ReadsFrame
<1> QED  BY <1>1, <1>2, <1>3 DEF Answers

\* Bytes that end with a frame are read as something, whatever comes before it.
LEMMA EndsWithFrame ==
  ASSUME NEW p \in Program, NEW a \in Seq(Level), Len(a) >= Len(Frame(p)),
         SubSeq(a, Len(a) - Len(Frame(p)) + 1, Len(a)) = Frame(p)
  PROVE  Decoded(a) # None
<1> DEFINE F == Frame(p)  z == Len(a) - Len(F)
<1>1. PICK N \in Nat : Layout(F, p, N)
  BY FrameLayout
<1>2. /\ F \in Seq(Level) /\ Len(F) = 15 + N /\ ModeAt = 12 + N
      /\ F[1] = 171 /\ F[2] = 170 /\ F[11] = Slots /\ F[15 + N] = 187
  BY <1>1 DEF Layout
<1>3. SubSeq(a, z + 1, Len(a)) = F /\ Len(a) >= Len(F)
  OBVIOUS
<1> HIDE DEF F, z
<1>4. Len(a) \in Nat /\ z \in Nat /\ Len(a) = z + 15 + N
  BY <1>2, <1>3, LenProperties DEF z
<1>5. \A i \in 1..15 + N : a[z + i] = F[i]
  <2>1. \A i \in z + 1..Len(a) : a[i] \in Level
    BY <1>4, ElementOfSeq
  <2>2. \A i \in 1..Len(a) - (z + 1) + 1 : F[i] = a[(z + 1) + i - 1]
    BY <2>1, <1>3, <1>4, SubSeqProperties
  <2>3. Len(a) - (z + 1) + 1 = 15 + N /\ \A i \in 1..15 + N : (z + 1) + i - 1 = z + i
    BY <1>4
  <2> QED  BY <2>2, <2>3
<1>6. z + 1 \in FrameStarts(a)
  <2>1. a[z + 1] = F[1] /\ a[z + 2] = F[2] /\ a[z + 11] = F[11]
    <3>1. {1, 2, 11} \subseteq 1..15 + N
      OBVIOUS
    <3> QED  BY <3>1, <1>5
  <2>2. (z + 1) + 1 = z + 2 /\ (z + 1) + 10 = z + 11 /\ z + 1 \in 1..Len(a)
        /\ (z + 1) + 10 <= Len(a)
    BY <1>4
  <2> QED  BY <2>1, <2>2, <1>2 DEF FrameStarts, RespMagic
<1>7. PICK k \in FrameStarts(a) : \A j \in FrameStarts(a) : k <= j
  <2>1. FrameStarts(a) \subseteq Nat /\ FrameStarts(a) # {}
    BY <1>6 DEF FrameStarts
  <2> QED  BY <2>1, LeastNatural
<1> DEFINE f == SubSeq(a, k, Len(a))
<1>8. /\ Decoded(a) = DecodeState(f) /\ f \in Seq(Level) /\ Len(f) = Len(a) - k + 1
      /\ \A i \in 1..Len(a) - k + 1 : f[i] = a[k + i - 1]
  BY <1>7, FirstFrame
<1> HIDE DEF f
<1>9. /\ k \in 1..Len(a) /\ k <= z + 1
      /\ a[k] = 171 /\ a[k + 1] = 170 /\ a[k + 10] = Slots
  BY <1>6, <1>7 DEF FrameStarts, RespMagic
<1>10. Len(f) \in Nat /\ Len(f) > 12 + N /\ k + Len(f) - 1 = z + (15 + N)
  BY <1>4, <1>8, <1>9
<1>11. f[1] = 171 /\ f[2] = 170 /\ f[11] = Slots /\ f[Len(f)] = 187
  <2>1. {1, 2, 11, Len(f)} \subseteq 1..Len(a) - k + 1
    BY <1>8, <1>10
  <2>2. k + 1 - 1 = k /\ k + 2 - 1 = k + 1 /\ k + 11 - 1 = k + 10
    BY <1>9
  <2>3. f[1] = a[k] /\ f[2] = a[k + 1] /\ f[11] = a[k + 10]
    BY <2>1, <2>2, <1>8
  <2>4. f[Len(f)] = a[z + (15 + N)]
    BY <2>1, <1>8, <1>10
  <2>5. a[z + (15 + N)] = 187
    <3>1. 15 + N \in 1..15 + N
      OBVIOUS
    <3> QED  BY <3>1, <1>2, <1>5
  <2> QED  BY <2>3, <2>4, <2>5, <1>9
<1>12. DecodeState(f) = Meant(f)
  BY <1>2, <1>10, <1>11 DEF DecodeState, Meant, RespMagic, PktEnd, Channels
<1>13. Meant(f) \in Program
  BY <1>2, <1>8, <1>10, MeantType
<1> QED  BY <1>8, <1>12, <1>13, LinkAssumption

-----------------------------------------------------------------------------
(* What a read returns                                                       *)

\* While an attempt goes on nothing has been read of what has come.
Unread ==
  \A u \in Users : user[u].pc = "recv" /\ user[u].got > 0
                     => Decoded(SubSeq(user[u].stream, 1, user[u].got)) = None

\* Nothing has been read at the start.
LEMMA CInit == Init => Unread
  BY DEF Init, IdleUser, Unread

\* Only Recv goes on with an attempt, and only when it has read nothing.
LEMMA CNext == TypeInv /\ Unread /\ [Next]_vars => Unread'
<1> SUFFICES ASSUME TypeInv, Unread, [Next]_vars, NEW w \in Users,
                    user'[w].pc = "recv", user'[w].got > 0
             PROVE  Decoded(SubSeq(user'[w].stream, 1, user'[w].got)) = None
  BY DEF Unread
<1>t. user \in [Users -> Locals]
  BY Parts DEF UsersType
<1>1. CASE user'[w] = user[w]
  BY <1>1 DEF Unread
<1>2. ASSUME NEW u \in Users, NEW op \in Ops, Ask(u, op), user'[w] # user[w] PROVE FALSE
  BY <1>t, <1>2 DEF Ask, IdleUser
<1>3. ASSUME NEW u \in Users, Lock(u), user'[w] # user[w] PROVE FALSE
  BY <1>t, <1>3 DEF Lock, Locals
<1>4. ASSUME NEW u \in Users, NEW pc, UserGoes(u, pc), pc # "recv", user'[w] # user[w]
      PROVE  FALSE
  BY <1>t, <1>4 DEF UserGoes, Locals
<1>5. ASSUME NEW u \in Users, NextTry(u), user'[w] # user[w] PROVE FALSE
  BY <1>t, <1>5 DEF NextTry, Locals
<1>6. ASSUME NEW u \in Users, SendRead(u), user'[w] # user[w] PROVE FALSE
  <2>1. user[u].got = 0
    BY <1>6 DEF SendRead, TypeInv, NothingYet
  <2>2. w = u /\ user'[u].got = user[u].got
    BY <1>t, <1>6 DEF SendRead, Locals
  <2> QED  BY <2>1, <2>2
<1>7. ASSUME NEW u \in Users, NEW n \in 1..Len(user[u].stream), Recv(u, n),
             user'[w] # user[w]
      PROVE  Decoded(SubSeq(user'[w].stream, 1, user'[w].got)) = None
  <2> DEFINE res == Decoded(SubSeq(user[u].stream, 1, n))
  <2>1. /\ w = u /\ user'[u].stream = user[u].stream /\ user'[u].got = n
        /\ user'[u].pc = IF res = None THEN "recv" ELSE "close"
    BY <1>t, <1>7 DEF Recv, Locals
  <2> QED  BY <2>1
<1>8. ASSUME NEW u \in Users, Unlock(u), user'[w] # user[w] PROVE FALSE
  BY <1>t, <1>8 DEF Unlock, IdleUser
<1>9. ASSUME NEW u \in Users, UserStep(u), user'[w] # user[w]
      PROVE  Decoded(SubSeq(user'[w].stream, 1, user'[w].got)) = None
  BY <1>9, <1>4, <1>5, <1>6, <1>7, <1>8
     DEF UserStep, Dial, DialFail, SendCommand, SendFail, RecvEnd, Close
<1>10. ASSUME NEW c \in Clients,
              Accept(c) \/ ProxyLock(c) \/ Talk(c) \/ SessionEnd(c) \/ ProxyStep(c)
       PROVE  UNCHANGED user
  BY <1>10 DEF Accept, ProxyLock, Talk, ProxyStep, ProxyDial, Silence, SessionEnd, ProxyClose,
               ProxyUnlock, Leave
<1>11. Stop \/ UNCHANGED vars => UNCHANGED user
  BY DEF Stop, vars
<1> QED  BY <1>1, <1>2, <1>3, <1>9, <1>10, <1>11 DEF Next

\* A read does not fail for what surrounds the frame: for every size of a schedule
\* and content of the lamp, an attempt that has a whole answer that ends with the
\* frame has read it, in whatever segments it came (readAllAttempt).
THEOREM CompleteIsReadCorrect == Spec => []CompleteIsRead
<1>1. Init => TypeInv /\ Unread
  BY TInit, CInit
<1>2. TypeInv /\ Unread /\ [Next]_vars => TypeInv' /\ Unread'
  <2>1. TypeInv' <=> OthersType' /\ UsersType'
    BY DEF TypeInv, TypeOK, NothingYet, OthersType, UsersType, Locals
  <2> QED  BY <2>1, TUsers, TOthers, CNext
<1>3. TypeInv /\ Unread => CompleteIsRead
  <2> SUFFICES ASSUME TypeInv, Unread, NEW u \in Users, NEW all, NEW size,
                      all = user[u].stream, size = Len(Frame(lamp)),
                      user[u].pc = "recv", user[u].got = Len(all), Len(all) >= size,
                      SubSeq(all, Len(all) - size + 1, Len(all)) = Frame(lamp)
               PROVE  FALSE
    BY DEF CompleteIsRead
  <2>1. lamp \in Program /\ all \in Seq(Level)
    BY LinkAssumption DEF TypeInv, TypeOK
  <2>2. Decoded(all) # None
    BY <2>1, EndsWithFrame
  <2>3. Len(all) > 0
    BY <2>1, FrameBytes, LenProperties
  <2>4. Decoded(SubSeq(all, 1, Len(all))) = None
    BY <2>3 DEF Unread
  <2> QED  BY <2>1, <2>2, <2>4, SubSeqFull
<1> QED  BY <1>1, <1>2, <1>3, PTL DEF Spec

\* The lamp holds what can be taken for the start of a frame after an
\* acknowledgement: the level of the third channel is the number of slots.
Mistakable == lamp.manual[3] = Slots

\* What a read returns is what the lamp holds, or that could be taken wrongly.
RightOrMistaken ==
  \A u \in Users : user[u].pc \in {"close", "unlock"} /\ user[u].res # None
                     => user[u].res = lamp \/ Mistakable

\* Before an attempt has read something there is no result; the answer it reads is
\* one to what the lamp holds now, for who reads has the gate.
Fresh ==
  \A u \in Users :
    /\ user[u].pc \notin {"close", "unlock"} => user[u].res = None
    /\ user[u].pc = "recv" => user[u].stream \in Answers(lamp)
    /\ user[u].pc \in {"close", "unlock"} /\ user[u].res # None
         => user[u].res = lamp \/ Mistakable

\* No results at the start.
LEMMA FInit == Init => Fresh
<1> SUFFICES ASSUME Init PROVE Fresh
  OBVIOUS
<1>1. \A u \in Users : user[u].pc = "idle" /\ user[u].res = None
  BY DEF Init, IdleUser
<1> QED  BY <1>1 DEF Fresh

\* One step per action; who changes the lamp has the gate, so nobody reads.
LEMMA FNext == Slots # 16 /\ TypeInv /\ Places /\ Fresh /\ [Next]_vars => Fresh'
<1> SUFFICES ASSUME Slots # 16, TypeInv, Places, Fresh, [Next]_vars PROVE Fresh'
  OBVIOUS
<1> DEFINE Ok(w) ==
      /\ user[w].pc \notin {"close", "unlock"} => user[w].res = None
      /\ user[w].pc = "recv" => user[w].stream \in Answers(lamp)
      /\ user[w].pc \in {"close", "unlock"} /\ user[w].res # None
           => user[w].res = lamp \/ Mistakable
<1>t. user \in [Users -> Locals] /\ lamp \in Program
  BY Parts, LinkAssumption DEF UsersType, OthersType
<1>f. \A w \in Users : Ok(w)
  BY DEF Fresh
<1>g. (\A w \in Users : Ok(w)') => Fresh'
  BY DEF Fresh
<1>h. \A w \in Users : lamp' = lamp /\ user'[w] = user[w] => Ok(w)'
  BY <1>f DEF Mistakable
<1> HIDE DEF Ok
\* The step of one user that leaves the lamp alone.
<1>u. ASSUME NEW u \in Users, lamp' = lamp, \A w \in Users : w # u => user'[w] = user[w],
             Ok(u)'
      PROVE  Fresh'
  BY <1>u, <1>g, <1>h
<1>1. CASE UNCHANGED <<lamp, user>>
  BY <1>1, <1>g, <1>h
<1>2. ASSUME NEW u \in Users, NEW op \in Ops, Ask(u, op) PROVE Fresh'
  <2>1. /\ lamp' = lamp /\ \A w \in Users : w # u => user'[w] = user[w]
        /\ user'[u].pc = "lock" /\ user'[u].res = None
    BY <1>t, <1>2 DEF Ask, IdleUser
  <2> QED  BY <1>u, <2>1 DEF Ok
<1>3. ASSUME NEW u \in Users, Lock(u) PROVE Fresh'
  <2>1. /\ lamp' = lamp /\ \A w \in Users : w # u => user'[w] = user[w]
        /\ user[u].pc = "lock" /\ user'[u].res = user[u].res
        /\ user'[u].pc \in {"unlock", "dial"}
    BY <1>t, <1>3 DEF Lock, Locals
  <2> QED  BY <1>u, <1>f, <2>1 DEF Ok
<1>4. ASSUME NEW u \in Users, Dial(u) PROVE Fresh'
  <2>1. /\ lamp' = lamp /\ \A w \in Users : w # u => user'[w] = user[w]
        /\ user[u].pc = "dial" /\ user'[u].res = user[u].res /\ user'[u].pc = "send"
    BY <1>t, <1>4 DEF Dial, UserGoes, Locals
  <2> QED  BY <1>u, <1>f, <2>1 DEF Ok
\* The next try, or the end: no result when there is a next try.
<1>5. ASSUME NEW u \in Users, NextTry(u), lamp' = lamp, user[u].pc \in {"dial", "close"}
      PROVE  Fresh'
  <2>1. /\ \A w \in Users : w # u => user'[w] = user[w]
        /\ user'[u].res = user[u].res
        /\ user'[u].pc = IF Again(u) THEN "dial" ELSE "unlock"
    BY <1>t, <1>5 DEF NextTry, Locals
  <2>2. Again(u) => user[u].res = None
    BY DEF Again
  <2>3. Ok(u)'
    BY <1>5, <1>f, <2>1, <2>2 DEF Ok, Mistakable
  <2> QED  BY <1>5, <1>u, <2>1, <2>3
<1>6. ASSUME NEW u \in Users, SendCommand(u) PROVE Fresh'
  <2>1. /\ \A w \in Users : w # u => user'[w] = user[w]
        /\ user[u].pc = "send" /\ user'[u].res = user[u].res /\ user'[u].pc = "close"
    BY <1>t, <1>6 DEF SendCommand, UserGoes, Locals
  <2>2. \A w \in Users : w # u => user[w].pc \notin {"recv", "close", "unlock"}
    BY <2>1 DEF Places, UserPlace
  <2>3. ASSUME NEW w \in Users PROVE Ok(w)'
    BY <1>f, <2>1, <2>2 DEF Ok
  <2> QED  BY <1>g, <2>3
<1>7. ASSUME NEW u \in Users, SendRead(u) PROVE Fresh'
  <2>1. PICK answer \in Answers(lamp) :
          user' = [user EXCEPT ![u].pc = "recv", ![u].stream = answer]
    BY <1>7 DEF SendRead
  <2>2. /\ lamp' = lamp /\ \A w \in Users : w # u => user'[w] = user[w]
        /\ user[u].pc = "send" /\ user'[u].res = user[u].res /\ user'[u].pc = "recv"
        /\ user'[u].stream = answer
    BY <1>t, <1>7, <2>1 DEF SendRead, Locals
  <2>3. Ok(u)'
    BY <1>f, <2>2 DEF Ok
  <2> QED  BY <1>u, <2>2, <2>3
<1>8. ASSUME NEW u \in Users, SendFail(u) \/ RecvEnd(u) PROVE Fresh'
  <2>1. /\ lamp' = lamp /\ \A w \in Users : w # u => user'[w] = user[w]
        /\ user[u].pc \in {"send", "recv"} /\ user'[u].res = user[u].res
        /\ user'[u].pc = "close"
    BY <1>t, <1>8 DEF SendFail, RecvEnd, UserGoes, Locals
  <2> QED  BY <1>u, <1>f, <2>1 DEF Ok
<1>9. ASSUME NEW u \in Users, NEW n \in 1..Len(user[u].stream), Recv(u, n) PROVE Fresh'
  <2> DEFINE res == Decoded(SubSeq(user[u].stream, 1, n))
  <2>1. /\ lamp' = lamp /\ \A w \in Users : w # u => user'[w] = user[w]
        /\ user[u].pc = "recv" /\ user'[u].res = res
        /\ user'[u].pc = (IF res = None THEN "recv" ELSE "close")
        /\ user'[u].stream = user[u].stream
    BY <1>t, <1>9 DEF Recv, Locals
  <2>2. user[u].stream \in Answers(lamp)
    BY <1>f, <2>1 DEF Ok
  <2>3. ~Mistakable => res \in {lamp, None}
    BY <1>t, <2>2, Reading DEF Mistakable
  <2> HIDE DEF res
  <2>4. Ok(u)'
    BY <2>1, <2>2, <2>3 DEF Ok, Mistakable
  <2> QED  BY <1>u, <2>1, <2>4
<1>10. ASSUME NEW u \in Users, Unlock(u) PROVE Fresh'
  <2>1. /\ lamp' = lamp /\ \A w \in Users : w # u => user'[w] = user[w]
        /\ user'[u].pc = "idle" /\ user'[u].res = None
    BY <1>t, <1>10 DEF Unlock, IdleUser
  <2> QED  BY <1>u, <2>1 DEF Ok
<1>11. ASSUME NEW u \in Users, UserStep(u) PROVE Fresh'
  <2>1. CASE DialFail(u)
    BY <2>1, <1>5 DEF DialFail
  <2>2. CASE Close(u)
    BY <2>2, <1>5 DEF Close
  <2> QED  BY <1>4, <1>6, <1>7, <1>8, <1>9, <1>10, <1>11, <2>1, <2>2 DEF UserStep
<1>12. ASSUME NEW c \in Clients, Talk(c) PROVE Fresh'
  <2>1. UNCHANGED user /\ client[c] = "session"
    BY <1>12 DEF Talk
  <2>2. \A w \in Users : user[w].pc \notin {"recv", "close", "unlock"}
    BY <2>1, LinkAssumption DEF Places, UserPlace, ClientPlace
  <2>3. ASSUME NEW w \in Users PROVE Ok(w)'
    BY <1>f, <2>1, <2>2 DEF Ok
  <2> QED  BY <1>g, <2>3
<1>13. ASSUME NEW c \in Clients, Accept(c) \/ ProxyLock(c) \/ SessionEnd(c) \/ ProxyStep(c)
       PROVE  UNCHANGED <<lamp, user>>
  BY <1>13 DEF Accept, ProxyLock, ProxyStep, ProxyDial, Silence, SessionEnd, ProxyClose,
               ProxyUnlock, Leave
<1>14. Stop \/ UNCHANGED vars => UNCHANGED <<lamp, user>>
  BY DEF Stop, vars
<1> QED  BY <1>1, <1>2, <1>3, <1>11, <1>12, <1>13, <1>14 DEF Next

\* All of it together is kept.
LEMMA FInductive ==
  /\ Init => TypeInv /\ Places /\ Fresh
  /\ Slots # 16 /\ TypeInv /\ Places /\ Fresh /\ [Next]_vars
       => TypeInv' /\ Places' /\ Fresh'
<1>1. TypeInv' <=> OthersType' /\ UsersType'
  BY DEF TypeInv, TypeOK, NothingYet, OthersType, UsersType, Locals
<1> QED  BY <1>1, TInit, PInit, FInit, TUsers, TOthers, PNext, FNext

\* A read returns what the lamp holds, except for one thing the code takes wrongly:
\* when the level of the third channel is the number of slots, an acknowledgement
\* before the frame looks like the start of one (frameStart).  For any answers, cut
\* wherever, any retries, and any proxy clients that change the lamp in between.
THEOREM MisreadOnlyThere == Slots # 16 /\ Spec => []RightOrMistaken
<1> SUFFICES ASSUME Slots # 16 PROVE Spec => []RightOrMistaken
  OBVIOUS
<1>1. Init => TypeInv /\ Places /\ Fresh
  BY FInductive
<1>2. TypeInv /\ Places /\ Fresh /\ [Next]_vars => TypeInv' /\ Places' /\ Fresh'
  BY FInductive
<1>3. Fresh => RightOrMistaken
  BY DEF Fresh, RightOrMistaken
<1> QED  BY <1>1, <1>2, <1>3, PTL DEF Spec

\* No content of the lamp has the number of slots for the level of its third channel.
Unmistakable == Slots # 16 /\ \A p \in Programs : p.manual[3] # Slots

\* Under that condition a read that succeeds returns what the lamp holds, for every
\* size of a schedule and all contents of the lamp.
THEOREM ReadIsCurrentCorrect == Unmistakable /\ Spec => []ReadIsCurrent
<1> SUFFICES ASSUME Unmistakable PROVE Spec => []ReadIsCurrent
  OBVIOUS
<1>1. Spec => []RightOrMistaken
  BY MisreadOnlyThere DEF Unmistakable
<1>2. TypeOK /\ RightOrMistaken => ReadIsCurrent
  BY DEF Unmistakable, TypeOK, RightOrMistaken, Mistakable, ReadIsCurrent
<1> QED  BY <1>1, <1>2, TypeCorrect, PTL
=============================================================================
