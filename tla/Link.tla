-------------------------------- MODULE Link --------------------------------
(***************************************************************************)
(* The way to the lamp: the gate, the commands and the retrying read of    *)
(* internal/k7tcp, and the raw proxy that lends the lamp to a LAN client   *)
(* for a whole session.  The lamp takes one TCP connection at a time and   *)
(* answers a read with a frame, which may be preceded by an echo and an    *)
(* acknowledgement, cut into any segments, cut short, or missing.          *)
(*                                                                         *)
(* Bytes are numbers, frames are sequences of the code's layout with       *)
(* Slots slots of Columns columns (24 and 8 in the code) and a short name. *)
(***************************************************************************)
EXTENDS Naturals, Sequences

CONSTANTS
    Users,      \* goroutines of the engine and the handlers that use the lamp
    Clients,    \* TCP clients of the proxy
    Slots,      \* slots of a schedule
    Columns,    \* bytes of a slot
    Programs,   \* what the lamp can hold: manual values, slots, mode
    Attempts,   \* tries of ReadAllRobust
    None,       \* nobody, nothing
    MaxAsks     \* bound on the operations users start

Channels == 6
Level == 0..255
Program == [manual : [1..Channels -> Level], sched : [1..Slots * Columns -> Level],
            auto : 0..1]

ASSUME LinkAssumption ==
    /\ Slots \in 1..24 /\ Columns \in Nat \ {0}
    /\ Programs # {} /\ Programs \subseteq Program
    /\ Attempts \in Nat \ {0}
    /\ Users \cap Clients = {} /\ None \notin Users \cup Clients \cup Program
    /\ MaxAsks \in Nat

-----------------------------------------------------------------------------
(* The wire format                                                           *)

RespMagic == <<171, 170>>                        \* AB AA
PktEnd    == 187                                 \* BB
Ack       == RespMagic \o <<165, 161>>           \* AB AA A5 A1
Name      == <<75, 55>>                          \* 'K' '7'
Echo      == RespMagic \o Name \o <<80, 114, 111, PktEnd>>

Frame(p) == RespMagic \o <<16, 8>> \o p.manual \o <<Slots>> \o p.sched
              \o <<p.auto>> \o Name \o <<PktEnd>>

(* Everything the lamp is known to answer a read request with (readrobust.go *)
(* and its tests); what cuts it short is the end of the attempt.             *)
Answers(p) ==
    {before \o Frame(p) : before \in {<<>>, Ack, Echo, Echo \o Ack}}
       \cup {Ack, SubSeq(Frame(p), 1, 12)}

(* Mutant: the count is looked for where it is in a frame of five channels. *)
FrameStartEarly(b) ==
    {i \in 1..Len(b) : /\ i + 9 <= Len(b)
                       /\ b[i] = RespMagic[1] /\ b[i + 1] = RespMagic[2]
                       /\ b[i + 9] = Slots}

(* frameStart: the places where a frame may start; the code takes the first. *)
FrameStarts(b) ==
    {i \in 1..Len(b) : /\ i + 10 <= Len(b)
                       /\ b[i] = RespMagic[1] /\ b[i + 1] = RespMagic[2]
                       /\ b[i + 10] = Slots}

FrameIn(b) ==
    LET starts == FrameStarts(b)
    IN IF starts = {} THEN <<>>
       ELSE SubSeq(b, CHOOSE i \in starts : \A j \in starts : i <= j, Len(b))

(* decodeState: None when it returns an error.  The first byte after the     *)
(* slots is the mode, and two must be left.                                  *)
ModeAt == 4 + Channels + 1 + Slots * Columns + 1

DecodeState(b) ==
    IF /\ Len(b) > ModeAt
       /\ b[1] = RespMagic[1] /\ b[2] = RespMagic[2] /\ b[Len(b)] = PktEnd
       /\ b[5 + Channels] = Slots
    THEN [manual |-> [i \in 1..Channels |-> b[4 + i]],
          sched  |-> [i \in 1..Slots * Columns |-> b[5 + Channels + i]],
          auto   |-> IF b[ModeAt] = 0 THEN 0 ELSE 1]
    ELSE None

(* What one attempt makes of the bytes it has.                               *)
Decoded(b) == IF FrameIn(b) = <<>> THEN None ELSE DecodeState(FrameIn(b))

-----------------------------------------------------------------------------

VARIABLES
    gate,    \* who holds Lamp.mu
    conns,   \* who has a TCP connection to the lamp
    lamp,    \* what the lamp holds
    user,    \* control point and locals of the users' goroutines
    client,  \* control point of the proxy goroutine of a client
    sem,     \* the client that holds the proxy's semaphore
    fresh,   \* the deadlines of the session have been renewed a moment ago
    stopped, \* the context of the daemon is done
    asks

vars == <<gate, conns, lamp, user, client, sem, fresh, stopped, asks>>

Ops == {"read", "push", "health"}
IdleUser == [pc |-> "idle", op |-> "health", try |-> 0, stream |-> <<>>,
             got |-> 0, res |-> None]

Init ==
    /\ gate = None /\ conns = {} /\ sem = None
    /\ fresh = FALSE /\ stopped = FALSE
    /\ lamp \in Programs
    /\ user = [u \in Users |-> IdleUser]
    /\ client = [c \in Clients |-> "away"]
    /\ asks = 0

-----------------------------------------------------------------------------
(* Users of the gate: Lamp.do, Server.lampLock, Lamp.Health.                 *)

UserGoes(u, pc) == user' = [user EXCEPT ![u].pc = pc]

Ask(u, op) ==
    /\ user[u].pc = "idle" /\ asks < MaxAsks
    /\ user' = [user EXCEPT ![u] = [IdleUser EXCEPT !.pc = "lock", !.op = op]]
    /\ asks' = asks + 1
    /\ UNCHANGED <<gate, conns, lamp, client, sem, fresh, stopped>>

Lock(u) ==
    /\ user[u].pc = "lock" /\ gate = None
    /\ gate' = u
    /\ user' = [user EXCEPT ![u].pc = IF user[u].op = "health" THEN "unlock"
                                                             ELSE "dial",
                            ![u].try = 1]
    /\ UNCHANGED <<conns, lamp, client, sem, fresh, stopped, asks>>

(* connect; its short read takes what the lamp says first, or nothing.       *)
(* A lamp that has a connection does not take another one.                   *)
Dial(u) ==
    /\ user[u].pc = "dial"
    /\ conns = {}
    /\ conns' = {u}
    /\ UserGoes(u, "send")
    /\ UNCHANGED <<gate, lamp, client, sem, fresh, stopped, asks>>

(* Mutant: one attempt too many. *)
AgainOnceMore(u) == user[u].op = "read" /\ user[u].res = None /\ user[u].try <= Attempts

(* A read tries again with a new connection; a command does not.             *)
Again(u) == user[u].op = "read" /\ user[u].res = None /\ user[u].try < Attempts

NextTry(u) ==
    user' = [user EXCEPT ![u].pc = IF Again(u) THEN "dial" ELSE "unlock",
                         ![u].try = IF Again(u) THEN @ + 1 ELSE @,
                         ![u].stream = <<>>, ![u].got = 0]

DialFail(u) ==
    /\ user[u].pc = "dial"
    /\ NextTry(u)
    /\ UNCHANGED <<gate, conns, lamp, client, sem, fresh, stopped, asks>>

(* A command that is written is reported as done, carried out or not:        *)
(* drainAck does not look at the answer.                                     *)
SendCommand(u) ==
    /\ user[u].pc = "send" /\ user[u].op = "push"
    /\ lamp' \in Programs \cup {lamp}
    /\ UserGoes(u, "close")
    /\ UNCHANGED <<gate, conns, client, sem, fresh, stopped, asks>>

SendRead(u) ==
    /\ user[u].pc = "send" /\ user[u].op = "read"
    /\ \E answer \in Answers(lamp) :
         user' = [user EXCEPT ![u].pc = "recv", ![u].stream = answer]
    /\ UNCHANGED <<gate, conns, lamp, client, sem, fresh, stopped, asks>>

SendFail(u) ==
    /\ user[u].pc = "send"
    /\ UserGoes(u, "close")
    /\ UNCHANGED <<gate, conns, lamp, client, sem, fresh, stopped, asks>>

(* One conn.Read of readAllAttempt: some more bytes, and a look at them.     *)
Recv(u, n) ==
    /\ user[u].pc = "recv" /\ n > user[u].got
    /\ LET res == Decoded(SubSeq(user[u].stream, 1, n))
       IN user' = [user EXCEPT ![u].got = n, ![u].res = res,
                               ![u].pc = IF res = None THEN "recv" ELSE "close"]
    /\ UNCHANGED <<gate, conns, lamp, client, sem, fresh, stopped, asks>>

(* The deadline of the attempt, or the end of the stream.                    *)
RecvEnd(u) ==
    /\ user[u].pc = "recv"
    /\ UserGoes(u, "close")
    /\ UNCHANGED <<gate, conns, lamp, client, sem, fresh, stopped, asks>>

Close(u) ==
    /\ user[u].pc = "close"
    /\ conns' = conns \ {u}
    /\ NextTry(u)
    /\ UNCHANGED <<gate, lamp, client, sem, fresh, stopped, asks>>

Unlock(u) ==
    /\ user[u].pc = "unlock"
    /\ gate' = None
    /\ user' = [user EXCEPT ![u] = IdleUser]
    /\ UNCHANGED <<conns, lamp, client, sem, fresh, stopped, asks>>

UserStep(u) ==
    \/ Dial(u) \/ DialFail(u) \/ SendCommand(u) \/ SendRead(u) \/ SendFail(u)
    \/ \E n \in 1..Len(user[u].stream) : Recv(u, n)
    \/ RecvEnd(u) \/ Close(u) \/ Unlock(u)

-----------------------------------------------------------------------------
(* The proxy                                                                 *)

ClientGoes(c, pc) == client' = [client EXCEPT ![c] = pc]

(* Accept: one client at a time, a second one is dropped.                    *)
Accept(c) ==
    /\ client[c] = "away" /\ ~stopped
    /\ IF sem = None THEN sem' = c /\ ClientGoes(c, "lock")
                     ELSE UNCHANGED <<sem, client>>
    /\ UNCHANGED <<gate, conns, lamp, user, fresh, stopped, asks>>

(* Mutant: the proxy does not take part in the gate. *)
ProxyNoLock(c) ==
    /\ client[c] = "lock"
    /\ ClientGoes(c, "dial")
    /\ UNCHANGED <<gate, conns, lamp, user, sem, fresh, stopped, asks>>

ProxyLock(c) ==
    /\ client[c] = "lock" /\ gate = None
    /\ gate' = c
    /\ ClientGoes(c, "dial")
    /\ UNCHANGED <<conns, lamp, user, sem, fresh, stopped, asks>>

(* DialContext fails at once when the daemon stops.                          *)
ProxyDial(c) ==
    /\ client[c] = "dial"
    /\ \/ /\ conns = {} /\ ~stopped
          /\ conns' = {c} /\ ClientGoes(c, "session") /\ fresh' = TRUE
       \/ ClientGoes(c, "unlock") /\ UNCHANGED <<conns, fresh>>
    /\ UNCHANGED <<gate, lamp, user, sem, stopped, asks>>

(* The pipes carry a command of the client to the lamp and the answer back,  *)
(* and each read has a new deadline.                                         *)
Talk(c) ==
    /\ client[c] = "session"
    /\ lamp' \in Programs
    /\ fresh' = TRUE
    /\ UNCHANGED <<gate, conns, user, client, sem, stopped, asks>>

(* Idle has nearly passed since the last byte.                               *)
Silence(c) ==
    /\ client[c] = "session" /\ fresh
    /\ fresh' = FALSE
    /\ UNCHANGED <<gate, conns, lamp, user, client, sem, stopped, asks>>

(* Mutant: pipes without a read deadline. *)
SessionEndOnlyByPeer(c) ==
    /\ client[c] = "session" /\ stopped
    /\ fresh' = FALSE /\ ClientGoes(c, "close")
    /\ UNCHANGED <<gate, conns, lamp, user, sem, stopped, asks>>

(* The first of the two pipes that ends, or the end of the daemon, ends the  *)
(* session.  A pipe ends when its source closes, which may be at any time,   *)
(* or is silent for Idle.                                                    *)
SessionEnd(c) ==
    /\ client[c] = "session"
    /\ fresh' = FALSE /\ ClientGoes(c, "close")
    /\ UNCHANGED <<gate, conns, lamp, user, sem, stopped, asks>>

(* Nobody need hang up.  What must come is the deadline, or the end of the   *)
(* daemon.                                                                   *)
SessionOver(c) == SessionEnd(c) /\ (~fresh \/ stopped)

(* Mutant: the deferred calls in the opposite order. *)
UnlockFirst(c) ==
    /\ client[c] = "close"
    /\ gate' = IF gate = c THEN None ELSE gate
    /\ IF gate = c THEN UNCHANGED <<conns, client>>
                   ELSE conns' = conns \ {c} /\ ClientGoes(c, "leave")
    /\ UNCHANGED <<lamp, user, sem, fresh, stopped, asks>>

(* The deferred calls of handle, the last one first: lamp.Close, ...         *)
ProxyClose(c) ==
    /\ client[c] = "close"
    /\ conns' = conns \ {c}
    /\ ClientGoes(c, "unlock")
    /\ UNCHANGED <<gate, lamp, user, sem, fresh, stopped, asks>>

(* ... Gate.Unlock, ...                                                      *)
ProxyUnlock(c) ==
    /\ client[c] = "unlock"
    /\ gate' = None
    /\ ClientGoes(c, "leave")
    /\ UNCHANGED <<conns, lamp, user, sem, fresh, stopped, asks>>

(* ... client.Close and the semaphore.                                       *)
Leave(c) ==
    /\ client[c] = "leave"
    /\ sem' = None
    /\ ClientGoes(c, "away")
    /\ UNCHANGED <<gate, conns, lamp, user, fresh, stopped, asks>>

ProxyStep(c) ==
    ProxyDial(c) \/ Silence(c) \/ ProxyClose(c) \/ ProxyUnlock(c) \/ Leave(c)

Stop ==
    /\ ~stopped
    /\ stopped' = TRUE
    /\ UNCHANGED <<gate, conns, lamp, user, client, sem, fresh, asks>>

-----------------------------------------------------------------------------

Next ==
    \/ \E u \in Users : (\E op \in Ops : Ask(u, op)) \/ Lock(u) \/ UserStep(u)
    \/ \E c \in Clients : \/ Accept(c) \/ ProxyLock(c) \/ Talk(c) \/ SessionEnd(c)
                          \/ ProxyStep(c)
    \/ Stop

Spec == Init /\ [][Next]_vars

(* Calls end by their timeouts, a session by its deadline once that is not   *)
(* renewed any more; a Go mutex hands itself to the goroutine that has       *)
(* waited longest.  Users need not ask; clients need not connect, talk, fall *)
(* silent or hang up.                                                        *)
Fairness ==
    /\ \A u \in Users : WF_vars(UserStep(u)) /\ SF_vars(Lock(u))
    /\ \A c \in Clients : /\ WF_vars(ProxyStep(c)) /\ WF_vars(SessionOver(c))
                          /\ SF_vars(ProxyLock(c))

FairSpec == Spec /\ Fairness

-----------------------------------------------------------------------------
(* Properties                                                                *)

UserPoints == {"idle", "lock", "dial", "send", "recv", "close", "unlock"}
ClientPoints == {"away", "lock", "dial", "session", "close", "unlock", "leave"}

TypeOK ==
    /\ gate \in Users \cup Clients \cup {None}
    /\ conns \subseteq Users \cup Clients
    /\ lamp \in Programs
    /\ user \in [Users -> [pc : UserPoints, op : Ops, try : 0..Attempts,
                           stream : Seq(Level), got : Nat, res : Program \cup {None}]]
    /\ \A u \in Users : user[u].got <= Len(user[u].stream)
    /\ client \in [Clients -> ClientPoints]
    /\ sem \in Clients \cup {None}
    /\ fresh \in BOOLEAN /\ stopped \in BOOLEAN
    /\ asks \in 0..MaxAsks

(* "The lamp accepts one connection at a time and has no locking" (proxy.go):*)
(* nobody connects while another one does, and who has a connection has the  *)
(* gate, at every point of a session's end.                                  *)
OneConnection ==
    \A x \in conns : gate = x

(* A read that succeeds returns what the lamp holds, however the answer was  *)
(* cut into segments, whatever came before the frame and whatever a proxy    *)
(* client did to the lamp before (ReadAllRobust, frameStart, the gate).      *)
ReadIsCurrent ==
    \A u \in Users :
        user[u].pc \in {"close", "unlock"} /\ user[u].res # None
            => user[u].res = lamp

(* A read does not fail for what surrounds the frame: when the whole answer  *)
(* is there and ends with the frame, in whatever segments it came and after  *)
(* whatever echo and acknowledgement, it has been read (readAllAttempt).     *)
CompleteIsRead ==
    \A u \in Users :
        LET all == user[u].stream
            size == Len(Frame(lamp))
        IN user[u].pc = "recv" /\ user[u].got = Len(all) /\ Len(all) >= size
             => SubSeq(all, Len(all) - size + 1, Len(all)) # Frame(lamp)

(* Whoever waits for the gate gets it.                                       *)
ProxyYields ==
    /\ \A u \in Users : user[u].pc = "lock" ~> gate = u
    /\ \A c \in Clients : client[c] = "lock" ~> gate = c

(* Clients do not go on talking for ever in one session.                     *)
ClientsFallSilent ==
    \A c \in Clients : <>[](client[c] = "session") => <>[][~Talk(c)]_vars

(* The gate comes back to those who wait ("yields to it via the shared gate",*)
(* proxy.go), although the proxy holds it for the whole session of a client  *)
(* that may never hang up; provided that clients do not talk for ever, since *)
(* each read renews the deadline (handle, Idle).                             *)
GateComesBack == ClientsFallSilent => ProxyYields

=============================================================================
