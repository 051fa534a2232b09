---------------------------- MODULE ControlProofs ----------------------------
(***************************************************************************)
(* Proofs about Control, for every set of commands and of daemons and      *)
(* every number of faults.                                                 *)
(***************************************************************************)
EXTENDS Control, SequenceTheorems, FiniteSetTheorems, TLAPS

-----------------------------------------------------------------------------
(* The inductive invariant. *)

\* How far a command and its connection have come.
Talk ==
  \A c \in Clients :
    /\ conn[c].st = "closed" <=> conn[c].at = "none"
    /\ conn[c].at # "none" => daemon[conn[c].at].pc = "serving"
    /\ client[c].sent <= client[c].oks + 1
    /\ client[c].pc = "start" => conn[c].st = "closed"
    /\ client[c].pc \in {"start", "writing"} =>
         client[c].sent = client[c].oks /\ client[c].oks < Commands[c]
    /\ client[c].pc = "writing" => conn[c].resp = "none"
    /\ client[c].pc = "waiting" => client[c].sent = client[c].oks + 1
    /\ conn[c].st \in Saving \cup {"queued", "reply"} =>
         client[c].sent = client[c].oks + 1
    /\ conn[c].st \notin {"reply", "closed"} => conn[c].resp = "none"

\* A mutex is held on behalf of a connection to its daemon.
Held == \A d \in Daemons : lock[d] # "none" => conn[lock[d]].at = d

\* A listening socket belongs to a serving daemon.  Unless two starts raced or
\* systemd swept the socket away, it belongs to every one that serves, and a
\* daemon past its probe is the only one there and has nobody to displace.
OneSocket ==
  /\ sock \in Daemons => daemon[sock].pc = "serving"
  /\ Alone =>
       /\ \A d \in Daemons : daemon[d].pc = "serving" => sock = d
       /\ \A d \in Daemons : daemon[d].pc \in {"remove", "bind"} => sock \notin Daemons
       /\ \A d, x \in Daemons :
            daemon[d].pc \in {"remove", "bind"} /\ daemon[x].pc \in {"remove", "bind"}
              => d = x

\* What is behind the names of the rules file at each step of store::save.
SaveProgress ==
  Alone =>
    /\ file.open = "none"
    /\ \A c \in Clients :
         /\ conn[c].st = "create" /\ "kept" \notin marks => tmp = NoFile
         /\ conn[c].st = "write" => tmp.open = conn[c].at
         /\ conn[c].st = "rename" => tmp.whole /\ tmp.synced # "no" /\ tmp.open = "none"
         /\ conn[c].st \in {"write", "rename"} => tmp.rules = daemon[conn[c].at].rules
    /\ \A f \in older : f.synced # "no"
    /\ "unsynced" \notin marks => file.whole /\ \A f \in older : f.whole

\* A power loss ends every command, and only it reveals a lost sync.
Power ==
  /\ "unsynced" \in marks => "power" \in marks
  /\ "power" \in marks =>
       \A c \in Clients : client[c].pc \in {"done", "failed"} /\ conn[c].at = "none"

\* s holds what c was told that was added, and nothing it did not ask for.
Agrees(s, c) == \E k \in client[c].oks..client[c].sent : HoldsFirst(s, c, k)

\* The call that c makes, or is about to make, has not been carried out ...
Pending(c) == client[c].pc = "start" \/ conn[c].st \in {"reading", "queued"}

\* ... and this one has, and c may still hear of it.
Confirmed(c) == client[c].pc = "waiting" /\ conn[c].resp = "ok"

\* A list in force, in the file or in a serving daemon, as c knows it.
Current(s, c) ==
  /\ Agrees(s, c)
  /\ Pending(c) => HoldsFirst(s, c, client[c].oks)
  /\ Confirmed(c) => HoldsFirst(s, c, client[c].oks + 1)

\* The file, the memory of the daemons and what the commands were told.
Contents ==
  Undisturbed =>
    /\ \A c \in Clients, f \in older \cup {file} :
         \E k \in 0..client[c].sent : HoldsFirst(f.rules, c, k)
    /\ "power" \notin marks =>
         \A c \in Clients :
           /\ Current(file.rules, c)
           /\ \A d \in Daemons :
                /\ daemon[d].pc \in {"probe", "remove", "bind"} /\ ~daemon[d].late =>
                     daemon[d].rules = file.rules
                /\ daemon[d].pc = "serving" /\ ~daemon[d].late => Current(daemon[d].rules, c)
           /\ conn[c].st \in Saving /\ ~daemon[conn[c].at].late =>
                HoldsFirst(daemon[conn[c].at].rules, c, client[c].oks + 1)

IInv == TypeOK /\ Talk /\ Held /\ OneSocket /\ SaveProgress /\ Power /\ Contents
-----------------------------------------------------------------------------
(* What the record updates of the model do. *)

\* Only the control state of one command changes.
LEMMA SetClientFacts ==
  ASSUME TypeOK, NEW c \in Clients,
         NEW p \in {"start", "writing", "waiting", "done", "failed"}, SetClient(c, p)
  PROVE  /\ client' \in [Clients -> ClientType]
         /\ client'[c].pc = p /\ client'[c].sent = client[c].sent
         /\ client'[c].oks = client[c].oks
         /\ \A o \in Clients \ {c} : client'[o] = client[o]
BY DEF TypeOK, ClientType, SetClient

\* Only the state of one connection changes.
LEMMA SetConnFacts ==
  ASSUME TypeOK, NEW c \in Clients,
         NEW s \in Saving \cup {"closed", "reading", "queued", "reply"}, SetConn(c, s)
  PROVE  /\ conn' \in [Clients -> ConnType]
         /\ conn'[c].st = s /\ conn'[c].at = conn[c].at /\ conn'[c].resp = conn[c].resp
         /\ \A o \in Clients \ {c} : conn'[o] = conn[o]
BY DEF TypeOK, ConnType, SetConn

\* The request of one connection is answered and its daemon unlocked.
LEMMA AnswerFacts ==
  ASSUME TypeOK, NEW c \in Clients, conn[c].at \in Daemons, NEW r \in {"ok", "err"},
         Answer(c, r)
  PROVE  /\ conn' \in [Clients -> ConnType]
         /\ conn'[c].st = "reply" /\ conn'[c].at = conn[c].at /\ conn'[c].resp = r
         /\ \A o \in Clients \ {c} : conn'[o] = conn[o]
         /\ lock' \in [Daemons -> Clients \cup {"none"}]
         /\ lock'[conn[c].at] = "none"
         /\ \A d \in Daemons \ {conn[c].at} : lock'[d] = lock[d]
<1>1. /\ conn' \in [Clients -> ConnType]
      /\ conn'[c].st = "reply" /\ conn'[c].at = conn[c].at /\ conn'[c].resp = r
      /\ \A o \in Clients \ {c} : conn'[o] = conn[o]
  <2>1. [at |-> conn[c].at, st |-> "reply", resp |-> r] \in ConnType
    BY DEF TypeOK, ConnType
  <2> QED
    BY <2>1 DEF TypeOK, Answer
<1>2. /\ lock' \in [Daemons -> Clients \cup {"none"}]
      /\ lock'[conn[c].at] = "none"
      /\ \A d \in Daemons \ {conn[c].at} : lock'[d] = lock[d]
  BY DEF TypeOK, Answer
<1> QED
  BY <1>1, <1>2

\* The connections of dead daemons end.
LEMMA ResetFacts ==
  ASSUME TypeOK, NEW dead, Reset(dead)
  PROVE  /\ conn' \in [Clients -> ConnType]
         /\ \A c \in Clients :
              conn'[c] = IF conn[c].at \in dead THEN NoConn ELSE conn[c]
<1>1. NoConn \in ConnType
  BY DEF NoConn, ConnType
<1> QED
  BY <1>1 DEF TypeOK, Reset

\* An ended daemon is a daemon without rules.
LEMMA EndedType ==
  ASSUME NEW d \in Daemons
  PROVE  /\ Off \in DaemonType /\ Ended(d) \in DaemonType
         /\ Ended(d).pc \in {"off", "ended"} /\ ~Ended(d).late
         /\ Off.pc = "off" /\ ~Off.late
<1>1. <<>> \in Seq(Rules)
  BY EmptySeq
<1> QED
  BY <1>1 DEF Off, Ended, DaemonType

\* Closing a file changes nothing else about it, nor a file of another process.
LEMMA ClosedFacts ==
  ASSUME NEW f \in FileType, NEW d \in Daemons
  PROVE  /\ Closed(d, f) \in FileType /\ Closed(d, f).rules = f.rules
         /\ Closed(d, f).whole = f.whole /\ Closed(d, f).synced = f.synced
         /\ f.open # d => Closed(d, f) = f
         /\ Closed(d, f).open \in {f.open, "none"}
BY DEF FileType, Closed

\* Writing completes the file that the process has open, and no other.
LEMMA WrittenFacts ==
  ASSUME NEW f \in FileType, NEW d \in Daemons, NEW ok \in {"yes", "lost"}
  PROVE  /\ Written(d, f, ok) \in FileType /\ Written(d, f, ok).rules = f.rules
         /\ f.open # d => Written(d, f, ok) = f
         /\ f.open = d => /\ Written(d, f, ok).whole /\ Written(d, f, ok).synced = ok
                          /\ Written(d, f, ok).open = "none"
BY DEF FileType, Written

\* No file at all.
LEMMA NoFileType == NoFile \in FileType
<1>1. <<>> \in Seq(Rules)
  BY EmptySeq
<1> QED
  BY <1>1 DEF NoFile, FileType

-----------------------------------------------------------------------------
(* What a list holds of a command. *)

\* An empty list holds nothing of anybody.
LEMMA HoldsNothing ==
  ASSUME NEW c \in Clients
  PROVE  HoldsFirst(<<>>, c, 0)
BY DEF HoldsFirst

\* Appending the next rule of a command ...
LEMMA HoldsNext ==
  ASSUME NEW s \in Seq(Rules), NEW c \in Clients, NEW k \in Nat, HoldsFirst(s, c, k)
  PROVE  HoldsFirst(Append(s, <<c, k + 1>>), c, k + 1)
<1> DEFINE t == Append(s, <<c, k + 1>>)
<1>1. /\ Len(s) \in Nat /\ DOMAIN s = 1..Len(s) /\ DOMAIN t = 1..(Len(s) + 1)
      /\ t[Len(s) + 1] = <<c, k + 1>> /\ \A i \in 1..Len(s) : t[i] = s[i]
  OBVIOUS
<1> HIDE DEF t
<1>2. \A n \in 1..(k + 1) : \E i \in DOMAIN t : t[i] = <<c, n>>
  <2> SUFFICES ASSUME NEW n \in 1..(k + 1) PROVE \E i \in DOMAIN t : t[i] = <<c, n>>
    OBVIOUS
  <2>1. CASE n = k + 1
    BY <1>1, <2>1
  <2>2. CASE n \in 1..k
    <3>1. PICK i \in DOMAIN s : s[i] = <<c, n>>
      BY <2>2 DEF HoldsFirst
    <3>2. i \in DOMAIN t /\ t[i] = <<c, n>>
      BY <1>1, <3>1
    <3> QED
      BY <3>2
  <2> QED
    BY <2>1, <2>2
<1>3. \A i \in DOMAIN t : t[i][1] = c => t[i][2] \in 1..(k + 1)
  BY <1>1 DEF HoldsFirst
<1>4. \A i, j \in DOMAIN t :
        i < j /\ t[i][1] = c /\ t[j][1] = c => t[i][2] < t[j][2]
  <2> SUFFICES ASSUME NEW i \in DOMAIN t, NEW j \in DOMAIN t,
                      i < j, t[i][1] = c, t[j][1] = c
               PROVE  t[i][2] < t[j][2]
    OBVIOUS
  <2>1. i \in 1..Len(s) /\ t[i] = s[i] /\ s[i][2] \in 1..k
    BY <1>1 DEF HoldsFirst
  <2>2. CASE j = Len(s) + 1
    BY <1>1, <2>1, <2>2
  <2>3. CASE j \in 1..Len(s)
    BY <1>1, <2>1, <2>3 DEF HoldsFirst
  <2> QED
    BY <1>1, <2>2, <2>3
<1> QED
  BY <1>2, <1>3, <1>4 DEF HoldsFirst, t

\* ... is nothing to the others.
LEMMA HoldsOther ==
  ASSUME NEW s \in Seq(Rules), NEW c \in Clients, NEW o \in Clients \ {c}, NEW m \in Nat,
         NEW k \in Nat, HoldsFirst(s, c, k)
  PROVE  HoldsFirst(Append(s, <<o, m>>), c, k)
<1> DEFINE t == Append(s, <<o, m>>)
<1>1. /\ Len(s) \in Nat /\ DOMAIN s = 1..Len(s) /\ DOMAIN t = 1..(Len(s) + 1)
      /\ t[Len(s) + 1] = <<o, m>> /\ \A i \in 1..Len(s) : t[i] = s[i]
  OBVIOUS
<1> HIDE DEF t
<1>2. ASSUME NEW n \in 1..k PROVE \E i \in DOMAIN t : t[i] = <<c, n>>
  <2>1. PICK i \in DOMAIN s : s[i] = <<c, n>>
    BY DEF HoldsFirst
  <2>2. i \in DOMAIN t /\ t[i] = <<c, n>>
    BY <1>1, <2>1
  <2> QED
    BY <2>2
<1>3. \A i \in DOMAIN t : t[i][1] = c => i \in 1..Len(s)
  BY <1>1
<1> QED
  BY <1>1, <1>2, <1>3 DEF HoldsFirst, t
-----------------------------------------------------------------------------
(* What most steps leave as it is. *)

\* The mutex holders of one daemon, and while it is alone the saves of
\* all daemons, exclude each other.
LEMMA OneSaver ==
  ASSUME IInv, Alone, NEW c \in Clients, NEW o \in Clients,
         conn[c].st \in Saving, conn[o].st \in Saving
  PROVE  c = o
<1>1. /\ conn[c].at \in Daemons /\ conn[o].at \in Daemons
      /\ lock[conn[c].at] = c /\ lock[conn[o].at] = o
  BY DEF IInv, TypeOK, ConnType
<1>2. conn[c].at = sock /\ conn[o].at = sock
  BY <1>1, StoreAssumption DEF IInv, Talk, OneSocket
<1> QED
  BY <1>1, <1>2

\* A connection in progress leads to a daemon that serves.
LEMMA ConnAt ==
  ASSUME IInv, NEW c \in Clients, conn[c].st # "closed"
  PROVE  conn[c].at \in Daemons /\ conn[c].at # "none" /\ daemon[conn[c].at].pc = "serving"
BY StoreAssumption DEF IInv, TypeOK, ConnType, Talk

\* A step that changes no list, and brings nobody closer to a rule.
Quiet ==
  /\ file'.rules = file.rules
  /\ \A f \in older' : \E g \in older \cup {file} : f.rules = g.rules
  /\ Undisturbed' => Undisturbed
  /\ "power" \in marks' <=> "power" \in marks
  /\ \A c \in Clients :
       /\ client'[c].oks = client[c].oks
       /\ client'[c].sent \in {client[c].sent, client[c].sent + 1}
       /\ Pending(c)' => Pending(c)
       /\ Confirmed(c)' => Confirmed(c)
       /\ conn'[c].st \in Saving => /\ conn[c].st \in Saving /\ conn'[c].at = conn[c].at
                                    /\ daemon'[conn[c].at] = daemon[conn[c].at]
  /\ \A d \in Daemons :
       \/ daemon'[d] = daemon[d]
       \/ daemon'[d].pc \in {"off", "ended"}
       \/ /\ daemon[d].pc \in {"probe", "remove", "bind"}
          /\ daemon'[d].pc \in {"remove", "bind"}
          /\ daemon'[d].late = daemon[d].late /\ daemon'[d].rules = daemon[d].rules

\* Such a step changes nothing about what the lists hold.
LEMMA QuietContents == TypeOK /\ Contents /\ Quiet => Contents'
<1> SUFFICES ASSUME TypeOK, Contents, Quiet, Undisturbed' PROVE Contents'
  BY DEF Contents
<1>1. Undisturbed
  BY DEF Quiet
<1>2. \A c \in Clients : client[c].sent \in Nat /\ client[c].oks \in Nat
  BY DEF TypeOK, ClientType
<1>3. ASSUME NEW s, NEW c \in Clients, Agrees(s, c) PROVE Agrees(s, c)'
  <2>1. PICK k \in client[c].oks..client[c].sent : HoldsFirst(s, c, k)
    BY <1>3 DEF Agrees
  <2>2. k \in client'[c].oks..client'[c].sent
    BY <1>2 DEF Quiet
  <2> QED
    BY <2>1, <2>2 DEF Agrees, HoldsFirst
<1>4. ASSUME NEW s, NEW c \in Clients, Current(s, c) PROVE Current(s, c)'
  <2>1. Agrees(s, c)'
    BY <1>3, <1>4 DEF Current
  <2>2. Pending(c)' => HoldsFirst(s, c, client'[c].oks)
    BY <1>4 DEF Current, Quiet
  <2>3. Confirmed(c)' => HoldsFirst(s, c, client'[c].oks + 1)
    BY <1>4 DEF Current, Quiet
  <2> QED
    BY <2>1, <2>2, <2>3 DEF Current, HoldsFirst
<1>5. ASSUME NEW c \in Clients, NEW f \in older' \cup {file'}
      PROVE  \E k \in 0..client'[c].sent : HoldsFirst(f.rules, c, k)
  <2>1. PICK g \in older \cup {file} : f.rules = g.rules
    BY DEF Quiet
  <2>2. PICK k \in 0..client[c].sent : HoldsFirst(g.rules, c, k)
    BY <1>1 DEF Contents
  <2>3. k \in 0..client'[c].sent
    BY <1>2 DEF Quiet
  <2> QED
    BY <2>1, <2>2, <2>3
<1>6. ASSUME "power" \notin marks', NEW c \in Clients
      PROVE  /\ Current(file.rules, c)'
             /\ \A d \in Daemons :
                  /\ daemon'[d].pc \in {"probe", "remove", "bind"} /\ ~daemon'[d].late =>
                       daemon'[d].rules = file'.rules
                  /\ daemon'[d].pc = "serving" /\ ~daemon'[d].late =>
                       Current(daemon[d].rules, c)'
             /\ conn'[c].st \in Saving /\ ~daemon'[conn'[c].at].late =>
                  HoldsFirst(daemon'[conn'[c].at].rules, c, client'[c].oks + 1)
  <2>1. "power" \notin marks
    BY <1>6 DEF Quiet
  <2>2. ASSUME NEW s, Current(s, c), NEW t, t = s PROVE Current(t, c)'
    BY <1>4, <2>2
  <2>3. Current(file.rules, c)'
    <3>1. Current(file.rules, c) /\ file'.rules = file.rules
      BY <1>1, <2>1 DEF Contents, Quiet
    <3> QED
      BY <2>2, <3>1 DEF Current, Agrees, HoldsFirst
  <2>4. ASSUME NEW d \in Daemons, daemon'[d].pc = "serving", ~daemon'[d].late
        PROVE  Current(daemon[d].rules, c)'
    <3>1. daemon'[d] = daemon[d]
      BY <2>4 DEF Quiet
    <3>2. Current(daemon[d].rules, c) /\ daemon'[d].rules = daemon[d].rules
      BY <1>1, <2>1, <2>4, <3>1 DEF Contents
    <3> QED
      BY <2>2, <3>2 DEF Current, Agrees, HoldsFirst
  <2>5. ASSUME NEW d \in Daemons, daemon'[d].pc \in {"probe", "remove", "bind"},
               ~daemon'[d].late
        PROVE  daemon'[d].rules = file'.rules
    BY <1>1, <2>1, <2>5 DEF Contents, Quiet
  <2>6. ASSUME conn'[c].st \in Saving, ~daemon'[conn'[c].at].late
        PROVE  HoldsFirst(daemon'[conn'[c].at].rules, c, client'[c].oks + 1)
    <3>1. conn[c].st \in Saving /\ ~daemon[conn[c].at].late
      BY <2>6 DEF Quiet
    <3>2. HoldsFirst(daemon[conn[c].at].rules, c, client[c].oks + 1)
      BY <1>1, <2>1, <3>1 DEF Contents
    <3> QED
      BY <2>6, <3>2 DEF Quiet
  <2> QED
    BY <2>3, <2>4, <2>5, <2>6
<1> QED
  BY <1>5, <1>6 DEF Contents
\* A step that touches neither the files nor a save.
LEMMA QuietSave ==
  ASSUME SaveProgress, UNCHANGED store, Alone' => Alone,
         "unsynced" \in marks' <=> "unsynced" \in marks,
         "kept" \in marks' <=> "kept" \in marks,
         \A c \in Clients : conn'[c].st \in Saving =>
           /\ conn'[c].st = conn[c].st /\ conn'[c].at = conn[c].at
           /\ daemon'[conn[c].at].rules = daemon[conn[c].at].rules
  PROVE  SaveProgress'
BY DEF SaveProgress, store, Saving

\* A step of which daemons and socket take no part.
LEMMA QuietSocket ==
  ASSUME OneSocket, UNCHANGED <<daemon, sock, marks>>
  PROVE  OneSocket'
BY DEF OneSocket, Alone

-----------------------------------------------------------------------------
(* The initial state. *)

\* Nothing runs, nothing is connected, the file is empty.
LEMMA InitIInv == Init => IInv
<1> SUFFICES ASSUME Init PROVE IInv
  OBVIOUS
<1>1. \A c \in Clients :
        /\ client[c] \in ClientType /\ client[c].pc = "start"
        /\ client[c].sent = 0 /\ client[c].oks = 0
        /\ conn[c] \in ConnType /\ conn[c].at = "none" /\ conn[c].st = "closed"
        /\ conn[c].resp = "none"
  BY DEF Init, ClientType, ConnType, NoConn
<1>2. \A d \in Daemons :
        /\ daemon[d] \in DaemonType /\ daemon[d].pc = "off" /\ lock[d] = "none"
  BY EndedType DEF Init
<1>3. /\ file \in FileType /\ tmp \in FileType /\ older = {file}
      /\ file.rules = <<>> /\ file.open = "none" /\ file.whole /\ file.synced = "yes"
  <2>1. <<>> \in Seq(Rules)
    BY EmptySeq
  <2> QED
    BY <2>1 DEF Init, StoreInit, Saved, NoFile, FileType
<1>4. TypeOK
  BY <1>1, <1>2, <1>3, ControlAssumption DEF Init, TypeOK, Saving
<1>5. Talk
  BY <1>1, ControlAssumption DEF Talk, Saving
<1>6. Held /\ OneSocket /\ Power
  BY <1>1, <1>2, StoreAssumption DEF Init, Held, OneSocket, Power
<1>7. SaveProgress
  BY <1>1, <1>3 DEF Init, SaveProgress
<1>8. Contents
  <2>1. \A c \in Clients : HoldsFirst(file.rules, c, 0)
    BY <1>3, HoldsNothing
  <2>2. \A c \in Clients : 0 \in 0..client[c].sent /\ 0 \in client[c].oks..client[c].sent
    BY <1>1
  <2>3. \A c \in Clients : Current(file.rules, c)
    BY <1>1, <2>1, <2>2 DEF Current, Agrees, Confirmed
  <2>4. \A c \in Clients, f \in older \cup {file} :
          \E k \in 0..client[c].sent : HoldsFirst(f.rules, c, k)
    BY <1>3, <2>1, <2>2
  <2> QED
    BY <1>1, <1>2, <2>3, <2>4 DEF Contents, Saving
<1> QED
  BY <1>4, <1>5, <1>6, <1>7, <1>8 DEF IInv

-----------------------------------------------------------------------------
(* The steps of a command. *)

\* A command connects, or finds nobody.
LEMMA ConnectIInv ==
  ASSUME IInv, NEW c \in Clients, Connect(c)
  PROVE  IInv'
<1>1. /\ client[c].pc = "start" /\ conn[c].at = "none" /\ conn[c].st = "closed"
      /\ UNCHANGED <<store, daemon, lock, sock, faults, marks>>
  BY DEF Connect, IInv, Talk
<1>2. /\ client' \in [Clients -> ClientType]
      /\ client'[c].pc \in {"writing", "failed"}
      /\ client'[c].sent = client[c].sent /\ client'[c].oks = client[c].oks
      /\ \A o \in Clients \ {c} : client'[o] = client[o]
  BY SetClientFacts DEF Connect, IInv
<1>3. /\ conn' \in [Clients -> ConnType]
      /\ \A o \in Clients \ {c} : conn'[o] = conn[o]
      /\ \/ conn'[c] = conn[c] /\ client'[c].pc = "failed"
         \/ /\ sock \in Daemons /\ conn'[c].at = sock /\ conn'[c].st = "reading"
            /\ conn'[c].resp = "none" /\ "power" \notin marks
  <2>1. CASE sock \in Daemons
    <3>1. [at |-> sock, st |-> "reading", resp |-> "none"] \in ConnType
      BY <2>1 DEF ConnType
    <3>2. "power" \notin marks
      BY <1>1 DEF IInv, Power
    <3> QED
      BY <2>1, <3>1, <3>2 DEF Connect, IInv, TypeOK
  <2>2. CASE sock \notin Daemons
    BY <2>2, SetClientFacts DEF Connect, IInv, TypeOK
  <2> QED
    BY <2>1, <2>2
<1>4. \A d \in Daemons : lock[d] # c /\ lock[d] \in (Clients \ {c}) \cup {"none"}
  BY <1>1, ControlAssumption, StoreAssumption DEF IInv, Held, TypeOK
<1>5. TypeOK'
  BY <1>1, <1>2, <1>3, <1>4, StoreAssumption DEF IInv, TypeOK, store, Saving
<1>6. Talk'
  BY <1>1, <1>2, <1>3, StoreAssumption DEF IInv, Talk, OneSocket, Saving
<1>7. Held' /\ OneSocket'
  BY <1>1, <1>3, <1>4, QuietSocket DEF IInv, Held
<1>8. Power'
  BY <1>1, <1>2, <1>3 DEF IInv, Power
<1>9. SaveProgress'
  <2>1. \A o \in Clients : conn'[o].st \in Saving => conn'[o] = conn[o]
    BY <1>1, <1>3 DEF Saving
  <2> QED
    BY <1>1, <2>1, QuietSave DEF IInv, Undisturbed, Alone
<1>10. Quiet
  BY <1>1, <1>2, <1>3 DEF Quiet, store, Undisturbed, Alone, Pending, Confirmed, Saving
<1> QED
  BY <1>5, <1>6, <1>7, <1>8, <1>9, <1>10, QuietContents DEF IInv

\* What a step of a command alone cannot disturb.
LEMMA ClientOnly ==
  ASSUME IInv, UNCHANGED <<store, conn, daemon, lock, sock, faults, marks>>
  PROVE  Held' /\ OneSocket' /\ SaveProgress' /\ (Undisturbed' <=> Undisturbed)
<1>1. Held' /\ OneSocket'
  BY QuietSocket DEF IInv, Held
<1>2. SaveProgress'
  BY QuietSave DEF IInv, Undisturbed, Alone
<1> QED
  BY <1>1, <1>2 DEF Undisturbed, Alone

\* The frame is sent: one more call.
LEMMA SendIInv ==
  ASSUME IInv, NEW c \in Clients, Send(c)
  PROVE  IInv'
<1>1. /\ client[c].pc = "writing" /\ client[c] \in ClientType
      /\ UNCHANGED <<store, conn, daemon, lock, sock, faults, marks>>
      /\ client[c].sent = client[c].oks /\ client[c].oks < Commands[c]
      /\ conn[c].resp = "none" /\ conn[c].st \in {"reading", "closed"}
      /\ Commands[c] \in Nat
  <2>1. conn[c].st \notin Saving \cup {"queued", "reply"}
    BY DEF Send, IInv, TypeOK, Talk, ClientType
  <2> QED
    BY <2>1, ControlAssumption DEF Send, IInv, TypeOK, Talk, ClientType, ConnType
<1>2. client' = [client EXCEPT ![c].pc = "waiting", ![c].sent = @ + 1]
  BY DEF Send
<1>3. /\ client' \in [Clients -> ClientType]
      /\ client'[c].pc = "waiting"
      /\ client'[c].sent = client[c].sent + 1 /\ client'[c].oks = client[c].oks
      /\ \A o \in Clients \ {c} : client'[o] = client[o]
  BY <1>1, <1>2 DEF IInv, TypeOK, ClientType
<1>4. TypeOK'
  BY <1>1, <1>3 DEF IInv, TypeOK, store, ClientType
<1>5. Talk'
  BY <1>1, <1>3 DEF IInv, Talk, Saving, TypeOK, ClientType
<1>6. Power'
  BY <1>1, <1>3 DEF IInv, Power
<1>7. Quiet
  BY <1>1, <1>3 DEF Quiet, store, Undisturbed, Alone, Pending, Confirmed
<1> QED
  BY <1>1, <1>4, <1>5, <1>6, <1>7, ClientOnly, QuietContents DEF IInv

\* A command that fails or is given up asks for nothing more.
LEMMA LeaveIInv ==
  ASSUME IInv, NEW c \in Clients, client[c].pc \in {"writing", "waiting"},
         SetClient(c, "failed"),
         UNCHANGED <<store, conn, daemon, lock, sock, faults, marks>>
  PROVE  IInv'
<1>1. /\ client' \in [Clients -> ClientType]
      /\ client'[c].pc = "failed"
      /\ client'[c].sent = client[c].sent /\ client'[c].oks = client[c].oks
      /\ \A o \in Clients \ {c} : client'[o] = client[o]
  BY SetClientFacts DEF IInv
<1>2. TypeOK'
  BY <1>1 DEF IInv, TypeOK, store
<1>3. Talk'
  BY <1>1 DEF IInv, Talk
<1>4. Power'
  BY <1>1 DEF IInv, Power
<1>5. Quiet
  BY <1>1 DEF Quiet, store, Undisturbed, Alone, Pending, Confirmed
<1> QED
  BY <1>2, <1>3, <1>4, <1>5, ClientOnly, QuietContents DEF IInv

\* An Ok moves the command on: its rule is in the file and in the daemon.
LEMMA ReadAnswerIInv ==
  ASSUME IInv, NEW c \in Clients, ReadAnswer(c)
  PROVE  IInv'
<1>1. /\ client[c].pc = "waiting" /\ conn[c].st = "closed" /\ client[c] \in ClientType
      /\ UNCHANGED <<store, conn, daemon, lock, sock, faults, marks>>
      /\ client[c].sent = client[c].oks + 1 /\ client[c].sent <= Commands[c]
      /\ Commands[c] \in Nat
  BY ControlAssumption DEF ReadAnswer, IInv, TypeOK, Talk
<1>2. CASE conn[c].resp # "ok"
  BY <1>1, <1>2, LeaveIInv DEF ReadAnswer, NextCall
<1>3. CASE conn[c].resp = "ok"
  <2> DEFINE p == IF client[c].oks + 1 = Commands[c] THEN "done" ELSE "start"
  <2>1. client' = [client EXCEPT ![c].oks = client[c].oks + 1, ![c].pc = p]
    BY <1>3 DEF ReadAnswer, NextCall
  <2>2. p \in {"done", "start"} /\ (p = "start" => client[c].oks + 1 # Commands[c])
    OBVIOUS
  <2> HIDE DEF p
  <2>3. /\ client' \in [Clients -> ClientType]
        /\ client'[c].pc = p
        /\ client'[c].sent = client[c].sent /\ client'[c].oks = client[c].oks + 1
        /\ \A o \in Clients \ {c} : client'[o] = client[o]
    BY <1>1, <2>1, <2>2 DEF IInv, TypeOK, ClientType
  <2>4. TypeOK'
    BY <1>1, <2>3 DEF IInv, TypeOK, store, ClientType
  <2>5. Talk'
    BY <1>1, <2>2, <2>3 DEF IInv, Talk, Saving, ClientType
  <2>6. Power'
    BY <1>1, <2>3 DEF IInv, Power
  <2>7. Contents'
    <3> SUFFICES ASSUME Undisturbed' PROVE Contents'
      BY DEF Contents
    <3>1. Undisturbed /\ "power" \notin marks /\ "power" \notin marks'
      BY <1>1 DEF IInv, Power, Undisturbed, Alone
    <3>2. client[c].oks \in Nat
      BY <1>1 DEF ClientType
    <3>3. ASSUME NEW s, NEW o \in Clients, Current(s, o) PROVE Current(s, o)'
      <4>1. CASE o = c
        <5>1. HoldsFirst(s, c, client[c].oks + 1)
          BY <1>1, <1>3, <3>3, <4>1 DEF Current, Confirmed
        <5>2. client[c].oks + 1 \in client'[c].oks..client'[c].sent
          BY <1>1, <2>3, <3>2
        <5>3. client'[c].pc # "waiting"
          BY <2>2, <2>3
        <5> QED
          BY <2>3, <4>1, <5>1, <5>2, <5>3 DEF Current, Agrees, Confirmed, HoldsFirst
      <4>2. CASE o # c
        BY <1>1, <2>3, <3>3, <4>2 DEF Current, Agrees, Confirmed, Pending, HoldsFirst
      <4> QED
        BY <4>1, <4>2
    <3>4. file' = file /\ older' = older /\ daemon' = daemon /\ conn' = conn
      BY <1>1 DEF store
    <3>5. \A o \in Clients : client'[o].sent = client[o].sent
      BY <2>3
    <3>6. \A o \in Clients : conn[o].st \in Saving => client'[o].oks = client[o].oks
      BY <1>1, <2>3 DEF Saving
    <3>7. ASSUME NEW s, NEW o \in Clients, Current(s, o), NEW t, t = s
          PROVE  Current(t, o)'
      BY <3>3, <3>7
    <3>8. ASSUME NEW o \in Clients PROVE Current(file.rules, o)'
      <4>1. Current(file.rules, o) /\ file'.rules = file.rules
        BY <3>1, <3>4 DEF Contents, IInv
      <4> QED
        BY <3>7, <4>1 DEF Current, Agrees, HoldsFirst
    <3>9. ASSUME NEW o \in Clients, NEW d \in Daemons, daemon'[d].pc = "serving",
                 ~daemon'[d].late
          PROVE  Current(daemon[d].rules, o)'
      <4>1. Current(daemon[d].rules, o) /\ daemon'[d].rules = daemon[d].rules
        BY <3>1, <3>4, <3>9 DEF Contents, IInv
      <4> QED
        BY <3>7, <4>1 DEF Current, Agrees, HoldsFirst
    <3> QED
      BY <3>1, <3>4, <3>5, <3>6, <3>8, <3>9 DEF Contents, IInv
  <2> QED
    BY <1>1, <2>4, <2>5, <2>6, <2>7, ClientOnly DEF IInv
<1> QED
  BY <1>2, <1>3

-----------------------------------------------------------------------------
(* The steps of a connection. *)

\* What a step of one connection outside a save cannot disturb.
LEMMA ConnOnly ==
  ASSUME IInv, UNCHANGED <<store, client, daemon, lock, sock, faults, marks>>,
         NEW c \in Clients, conn' \in [Clients -> ConnType],
         \A o \in Clients \ {c} : conn'[o] = conn[o],
         conn[c].st \notin Saving, conn'[c].st \notin Saving,
         conn[c].st # "closed", conn'[c].at \in {conn[c].at, "none"},
         conn'[c].at = "none" <=> conn'[c].st = "closed",
         conn'[c].st = "queued" => Sent(c) /\ conn[c].st = "reading",
         conn'[c].st # "reading", conn'[c].st = "reply" => conn[c].st = "queued",
         \/ conn'[c].resp \in {"none", conn[c].resp}
         \/ conn'[c].resp = "err" /\ conn'[c].st = "reply"
  PROVE  IInv'
<1>1. \A d \in Daemons : lock[d] # c /\ lock[d] \in (Clients \ {c}) \cup {"none"}
  <2> SUFFICES ASSUME NEW d \in Daemons, lock[d] = c PROVE FALSE
    BY DEF IInv, TypeOK
  <2>1. conn[c].at = d
    BY ControlAssumption DEF IInv, Held
  <2> QED
    BY <2>1, StoreAssumption DEF IInv, TypeOK
<1>2. conn'[c].st \in {"queued", "closed", "reply"}
  BY DEF ConnType
<1>3. TypeOK'
  BY <1>1, StoreAssumption DEF IInv, TypeOK, ConnType, store
<1>4. Talk'
  <2>1. conn[c].resp = "none" \/ conn[c].st = "reply"
    BY DEF IInv, Talk
  <2>2. client[c].pc # "start"
    BY DEF IInv, Talk
  <2>3. conn'[c].st \in {"queued", "reply"} => client[c].sent = client[c].oks + 1
    BY DEF IInv, Talk, Sent, TypeOK, ClientType
  <2>4. client[c].pc = "writing" => conn'[c].resp = "none"
    <3>1. client[c].pc = "writing" => client[c].sent # client[c].oks + 1
      BY DEF IInv, Talk, TypeOK, ClientType
    <3> QED
      BY <2>3, <3>1 DEF IInv, Talk
  <2>5. conn'[c].st = "queued" => conn'[c].resp = "none"
    BY <2>1
  <2>6. ASSUME NEW o \in Clients, o # c
        PROVE  conn'[o] = conn[o] /\ client'[o] = client[o]
    BY <2>6
  <2> QED
    BY <1>2, <2>2, <2>3, <2>4, <2>5, <2>6 DEF IInv, Talk, Saving
<1>5. Held' /\ OneSocket'
  BY <1>1, QuietSocket DEF IInv, Held
<1>6. Power'
  BY DEF IInv, Power
<1>7. SaveProgress'
  <2>1. \A o \in Clients : conn'[o].st \in Saving => conn'[o] = conn[o]
    OBVIOUS
  <2> QED
    BY <2>1, QuietSave DEF IInv, Undisturbed, Alone
<1>8. Quiet
  BY <1>2 DEF Quiet, store, Undisturbed, Alone, Pending, Confirmed
<1> QED
  BY <1>3, <1>4, <1>5, <1>6, <1>7, <1>8, QuietContents DEF IInv

\* The frame arrives, does not arrive, its rule is refused, or the answer is
\* written.
LEMMA FrameIInv ==
  ASSUME IInv, NEW c \in Clients,
         ReadFrame(c) \/ ReadFails(c) \/ Refuse(c) \/ Reply(c)
  PROVE  IInv'
<1>1. CASE ReadFrame(c)
  <2>1. /\ conn[c].st = "reading" /\ Sent(c) /\ SetConn(c, "queued")
        /\ UNCHANGED <<store, client, daemon, lock, sock, faults, marks>>
    BY <1>1 DEF ReadFrame
  <2>2. /\ conn' \in [Clients -> ConnType]
        /\ conn'[c].st = "queued" /\ conn'[c].at = conn[c].at
        /\ conn'[c].resp = conn[c].resp
        /\ \A o \in Clients \ {c} : conn'[o] = conn[o]
    BY <2>1, SetConnFacts DEF IInv
  <2>3. conn[c].at # "none"
    BY <2>1, ConnAt
  <2> QED
    BY <2>1, <2>2, <2>3, ConnOnly DEF Saving
<1>2. CASE ReadFails(c)
  <2>1. /\ conn[c].st = "reading" /\ conn' = [conn EXCEPT ![c] = NoConn]
        /\ UNCHANGED <<store, client, daemon, lock, sock, faults, marks>>
    BY <1>2 DEF ReadFails
  <2>2. /\ conn' \in [Clients -> ConnType]
        /\ conn'[c].st = "closed" /\ conn'[c].at = "none" /\ conn'[c].resp = "none"
        /\ \A o \in Clients \ {c} : conn'[o] = conn[o]
    BY <2>1 DEF IInv, TypeOK, NoConn, ConnType
  <2> QED
    BY <2>1, <2>2, ConnOnly DEF Saving
<1>3. CASE Reply(c)
  <2>1. /\ conn[c].st = "reply"
        /\ conn' = [conn EXCEPT ![c] = [NoConn EXCEPT !.resp = conn[c].resp]]
        /\ UNCHANGED <<store, client, daemon, lock, sock, faults, marks>>
    BY <1>3 DEF Reply
  <2>2. /\ conn' \in [Clients -> ConnType]
        /\ conn'[c].st = "closed" /\ conn'[c].at = "none"
        /\ conn'[c].resp = conn[c].resp
        /\ \A o \in Clients \ {c} : conn'[o] = conn[o]
    BY <2>1 DEF IInv, TypeOK, NoConn, ConnType
  <2> QED
    BY <2>1, <2>2, ConnOnly DEF Saving
<1>4. CASE Refuse(c)
  <2>1. /\ conn[c].st = "queued"
        /\ conn' = [conn EXCEPT ![c] = [at |-> conn[c].at, st |-> "reply", resp |-> "err"]]
        /\ UNCHANGED <<store, client, daemon, lock, sock, faults, marks>>
    BY <1>4 DEF Refuse
  <2>2. conn[c].at \in Daemons /\ conn[c].at # "none"
    BY <2>1, ConnAt
  <2>3. /\ conn' \in [Clients -> ConnType]
        /\ conn'[c].st = "reply" /\ conn'[c].at = conn[c].at /\ conn'[c].resp = "err"
        /\ \A o \in Clients \ {c} : conn'[o] = conn[o]
    BY <2>1, <2>2 DEF IInv, TypeOK, ConnType
  <2> QED
    BY <2>1, <2>2, <2>3, ConnOnly DEF Saving
<1> QED
  BY <1>1, <1>2, <1>3, <1>4

\* dispatch takes the mutex and pushes the next rule of the command; what is at
\* the name of the temporary file is removed.
LEMMA LockIInv ==
  ASSUME IInv, NEW c \in Clients, Lock(c)
  PROVE  IInv'
<1> DEFINE r == <<c, client[c].oks + 1>>
<1>0. PICK d \in Daemons : d = conn[c].at
  BY ConnAt DEF Lock
<1>1. /\ conn[c].st = "queued" /\ lock[d] = "none" /\ SetConn(c, "create")
      /\ lock' = [lock EXCEPT ![d] = c]
      /\ daemon' = [daemon EXCEPT ![d].rules = Append(@, r)]
      /\ UNCHANGED <<file, older, client, sock>> /\ faults' \in 0..MaxFaults
      /\ marks' \in {marks, marks \cup {"kept"}}
      /\ tmp' \in {tmp, NoFile} /\ ("kept" \notin marks' => tmp' = NoFile)
  BY <1>0, ControlAssumption DEF Lock, AfterRemove, Fault, Crash, IInv, TypeOK
<1>2. d \in Daemons /\ d # "none" /\ daemon[d].pc = "serving"
  BY <1>0, <1>1, ConnAt
<1>3. /\ conn' \in [Clients -> ConnType]
      /\ conn'[c].st = "create" /\ conn'[c].at = d /\ conn'[c].resp = conn[c].resp
      /\ \A o \in Clients \ {c} : conn'[o] = conn[o]
  BY <1>0, <1>1, SetConnFacts DEF IInv, Saving
<1>4. r \in Rules /\ client[c].oks \in Nat /\ client[c].sent = client[c].oks + 1
  <2>1. client[c].sent = client[c].oks + 1
    BY <1>1 DEF IInv, Talk
  <2>2. client[c].oks \in Nat /\ client[c].oks + 1 <= Commands[c] /\ Commands[c] \in Nat
    BY <2>1, ControlAssumption DEF IInv, TypeOK, ClientType
  <2> QED
    BY <2>1, <2>2 DEF Rules
<1>5. /\ daemon' \in [Daemons -> DaemonType]
      /\ daemon'[d].rules = Append(daemon[d].rules, r)
      /\ daemon'[d].pc = "serving" /\ daemon'[d].late = daemon[d].late
      /\ \A x \in Daemons \ {d} : daemon'[x] = daemon[x]
  <2>1. daemon[d] \in DaemonType /\ daemon[d].rules \in Seq(Rules)
    BY <1>2 DEF IInv, TypeOK, DaemonType
  <2>2. Append(daemon[d].rules, r) \in Seq(Rules)
    BY <1>4, <2>1, AppendProperties
  <2> HIDE DEF r
  <2> QED
    BY <1>1, <1>2, <2>1, <2>2 DEF IInv, TypeOK, DaemonType
<1>6. \A x \in Daemons : lock[x] # c /\ lock[x] \in (Clients \ {c}) \cup {"none"}
  <2> SUFFICES ASSUME NEW x \in Daemons, lock[x] = c PROVE FALSE
    BY DEF IInv, TypeOK
  <2>1. conn[c].at = x
    BY ControlAssumption DEF IInv, Held
  <2> QED
    BY <1>0, <1>1, <2>1, StoreAssumption, ControlAssumption
<1>7. /\ lock' \in [Daemons -> Clients \cup {"none"}] /\ lock'[d] = c
      /\ \A x \in Daemons \ {d} : lock'[x] = lock[x]
  BY <1>1, <1>2 DEF IInv, TypeOK
<1> HIDE DEF r
<1>8. TypeOK'
  <2>1. \A o \in Clients : conn'[o].st \in Saving <=> conn'[o].at # "none" /\ lock'[conn'[o].at] = o
    <3> SUFFICES ASSUME NEW o \in Clients
                 PROVE  conn'[o].st \in Saving <=> conn'[o].at # "none" /\ lock'[conn'[o].at] = o
      OBVIOUS
    <3>1. CASE o = c
      BY <1>2, <1>3, <1>7, <3>1 DEF Saving
    <3>2. CASE o # c
      <4>1. conn'[o] = conn[o] /\ conn[o].at \in Daemons \cup {"none"}
        BY <1>3, <3>2 DEF IInv, TypeOK, ConnType
      <4>2. conn[o].st \in Saving <=> conn[o].at # "none" /\ lock[conn[o].at] = o
        BY DEF IInv, TypeOK
      <4>3. lock[d] # o
        BY <1>1, ControlAssumption
      <4> QED
        BY <1>7, <3>2, <4>1, <4>2, <4>3
    <3> QED
      BY <3>1, <3>2
  <2> QED
    BY <1>1, <1>3, <1>5, <1>7, <2>1, NoFileType DEF IInv, TypeOK
<1>9. Talk'
  BY <1>1, <1>2, <1>3, <1>4, <1>5 DEF IInv, Talk, Saving
<1>10. Held'
  BY <1>3, <1>6, <1>7 DEF IInv, Held
<1>11. OneSocket'
  BY <1>1, <1>2, <1>5 DEF IInv, OneSocket, Alone
<1>12. Power'
  BY <1>0, <1>1, <1>2, <1>3 DEF IInv, Power
<1>13. ASSUME Alone' PROVE Alone /\ \A o \in Clients : conn[o].st \notin Saving
  <2>1. Alone
    BY <1>1, <1>13 DEF Alone
  <2>2. ASSUME NEW o \in Clients, conn[o].st \in Saving PROVE FALSE
    <3>1. conn[o].at \in Daemons /\ lock[conn[o].at] = o /\ daemon[conn[o].at].pc = "serving"
      BY <2>2, ConnAt DEF IInv, TypeOK, Saving
    <3>2. conn[o].at = d
      BY <1>2, <2>1, <3>1 DEF IInv, OneSocket
    <3> QED
      BY <1>1, <3>1, <3>2, ControlAssumption
  <2> QED
    BY <2>1, <2>2
<1>14. SaveProgress'
  <2> SUFFICES ASSUME Alone' PROVE SaveProgress'
    BY DEF SaveProgress
  <2>1. \A o \in Clients : conn'[o].st \notin {"write", "rename"}
    BY <1>3, <1>13 DEF Saving
  <2>2. "unsynced" \in marks' <=> "unsynced" \in marks
    BY <1>1
  <2> QED
    BY <1>1, <1>13, <2>1, <2>2 DEF IInv, SaveProgress
<1>15. Contents'
  <2> SUFFICES ASSUME Undisturbed' PROVE Contents'
    BY DEF Contents
  <2>1. Undisturbed /\ Alone'
    BY <1>1, <1>13 DEF Undisturbed
  <2>2. file' = file /\ older' = older /\ client' = client
    BY <1>1
  <2>3. "power" \notin marks
    BY <1>0, <1>2 DEF IInv, Power
  <2>4. ASSUME NEW o \in Clients PROVE Pending(o)' => Pending(o) /\ o # c
    <3>1. o = c => ~Pending(o)'
      BY <1>1, <1>3, <1>4, <2>2 DEF Pending, IInv, Talk
    <3> QED
      BY <1>3, <2>2, <3>1 DEF Pending
  <2>5. ASSUME NEW o \in Clients PROVE Confirmed(o)' => Confirmed(o) /\ o # c
    <3>1. conn[c].resp = "none"
      BY <1>1 DEF IInv, Talk
    <3> QED
      BY <1>3, <2>2, <3>1 DEF Confirmed
  <2>6. ASSUME NEW o \in Clients PROVE Current(file.rules, o)'
    <3>1. Current(file.rules, o)
      BY <2>1, <2>3 DEF IInv, Contents
    <3> QED
      BY <2>2, <2>4, <2>5, <3>1 DEF Current, Agrees
  <2>7. daemon[d].rules \in Seq(Rules)
    BY <1>2 DEF IInv, TypeOK, DaemonType
  <2>8. ASSUME ~daemon[d].late PROVE HoldsFirst(daemon'[d].rules, c, client[c].oks + 1)
    <3>1. HoldsFirst(daemon[d].rules, c, client[c].oks)
      BY <1>1, <1>2, <2>1, <2>3, <2>8 DEF IInv, Contents, Current, Pending
    <3> QED
      BY <1>4, <1>5, <2>7, <3>1, HoldsNext DEF r
  <2>9. ASSUME NEW o \in Clients, NEW k \in Nat, o # c, HoldsFirst(daemon[d].rules, o, k)
        PROVE  HoldsFirst(daemon'[d].rules, o, k)
    BY <1>4, <1>5, <2>7, <2>9, HoldsOther DEF r
  <2>10. ASSUME ~daemon[d].late, NEW o \in Clients PROVE Current(daemon[d].rules, o)'
    <3>1. client[o].oks \in Nat /\ client[o].sent \in Nat
      BY DEF IInv, TypeOK, ClientType
    <3>2. CASE o = c
      <4>1. client[c].oks + 1 \in client'[c].oks..client'[c].sent
        BY <1>4, <2>2
      <4> QED
        BY <2>2, <2>4, <2>5, <2>8, <2>10, <3>2, <4>1 DEF Current, Agrees
    <3>3. CASE o # c
      <4>1. Current(daemon[d].rules, o)
        BY <1>2, <2>1, <2>3, <2>10 DEF IInv, Contents
      <4>2. PICK k \in client[o].oks..client[o].sent : HoldsFirst(daemon[d].rules, o, k)
        BY <4>1 DEF Current, Agrees
      <4>3. HoldsFirst(daemon'[d].rules, o, k)
        BY <2>9, <3>1, <3>3, <4>2
      <4>4. Pending(o)' => HoldsFirst(daemon'[d].rules, o, client[o].oks)
        BY <2>4, <2>9, <3>1, <3>3, <4>1 DEF Current
      <4>5. Confirmed(o)' => HoldsFirst(daemon'[d].rules, o, client[o].oks + 1)
        BY <2>5, <2>9, <3>1, <3>3, <4>1 DEF Current
      <4> QED
        BY <2>2, <4>2, <4>3, <4>4, <4>5 DEF Current, Agrees
    <3> QED
      BY <3>2, <3>3
  <2>11. ASSUME NEW o \in Clients, NEW x \in Daemons, daemon'[x].pc = "serving",
                ~daemon'[x].late
         PROVE  Current(daemon[x].rules, o)'
    <3>1. x = d
      BY <1>1, <1>2, <1>5, <2>1, <2>11 DEF IInv, OneSocket, Undisturbed
    <3> QED
      BY <1>5, <2>10, <2>11, <3>1
  <2>12. \A x \in Daemons :
           daemon'[x].pc \in {"probe", "remove", "bind"} /\ ~daemon'[x].late =>
             daemon'[x].rules = file'.rules
    BY <1>5, <2>1, <2>2, <2>3 DEF IInv, Contents
  <2>13. ASSUME NEW o \in Clients, conn'[o].st \in Saving, ~daemon'[conn'[o].at].late
         PROVE  HoldsFirst(daemon'[conn'[o].at].rules, o, client'[o].oks + 1)
    <3>1. o = c
      BY <1>3, <1>13, <2>1, <2>13
    <3>2. ~daemon[d].late
      BY <1>3, <1>5, <2>13, <3>1
    <3> QED
      BY <1>3, <2>2, <2>8, <3>1, <3>2
  <2> QED
    BY <2>1, <2>2, <2>6, <2>11, <2>12, <2>13 DEF IInv, Contents
<1> QED
  BY <1>8, <1>9, <1>10, <1>11, <1>12, <1>14, <1>15 DEF IInv

-----------------------------------------------------------------------------
(* The steps of store::save. *)

\* A save goes on under its mutex: what no such step disturbs.
LEMMA SaveGoesOn ==
  ASSUME IInv, NEW c \in Clients, conn[c].st \in Saving, NEW s \in Saving, SetConn(c, s),
         file' \in FileType, tmp' \in FileType, older' = older,
         file'.rules = file.rules, faults' \in 0..MaxFaults,
         UNCHANGED <<client, daemon, lock, sock, marks>>
  PROVE  /\ TypeOK' /\ Talk' /\ Held' /\ OneSocket' /\ Power' /\ Contents'
         /\ conn'[c].st = s /\ conn'[c].at = conn[c].at
         /\ \A o \in Clients \ {c} : conn'[o] = conn[o]
         /\ Alone' => /\ Alone
                            /\ \A o \in Clients \ {c} : conn'[o].st \notin Saving
<1>1. /\ conn' \in [Clients -> ConnType]
      /\ conn'[c].st = s /\ conn'[c].at = conn[c].at /\ conn'[c].resp = conn[c].resp
      /\ \A o \in Clients \ {c} : conn'[o] = conn[o]
  BY SetConnFacts DEF IInv
<1>2. TypeOK'
  BY <1>1 DEF IInv, TypeOK
<1>3. Talk'
  BY <1>1 DEF IInv, Talk, Saving
<1>4. Held' /\ OneSocket'
  BY <1>1, QuietSocket DEF IInv, Held, TypeOK
<1>5. Power'
  BY <1>1 DEF IInv, Power
<1>6. Quiet
  BY <1>1 DEF Quiet, Undisturbed, Alone, Pending, Confirmed, Saving
<1>7. Alone' => Alone
  BY DEF Alone
<1>8. Alone => \A o \in Clients \ {c} : conn'[o].st \notin Saving
  BY <1>1, OneSaver
<1> QED
  BY <1>1, <1>2, <1>3, <1>4, <1>5, <1>6, <1>7, <1>8, QuietContents DEF IInv

\* remove_file, create_new.
LEMMA SaveCreateIInv ==
  ASSUME IInv, NEW c \in Clients, SaveCreate(c)
  PROVE  IInv'
<1>1. /\ conn[c].st = "create" /\ SetConn(c, "write")
      /\ Create(conn[c].at, daemon[conn[c].at].rules)
      /\ UNCHANGED <<client, daemon, lock, sock, faults, marks>>
  BY DEF SaveCreate
<1>2. conn[c].at \in Daemons /\ daemon[conn[c].at].rules \in Seq(Rules)
  BY <1>1, ConnAt DEF IInv, TypeOK, DaemonType
<1>3. /\ file' = file /\ older' = older /\ tmp' \in FileType
      /\ tmp'.open = conn[c].at /\ tmp'.rules = daemon[conn[c].at].rules
  BY <1>1, <1>2 DEF Create, FileType
<1>4. "create" \in Saving /\ "write" \in Saving /\ faults' \in 0..MaxFaults
      /\ file' \in FileType
  BY <1>1, <1>3 DEF Saving, IInv, TypeOK
<1>5. /\ TypeOK' /\ Talk' /\ Held' /\ OneSocket' /\ Power' /\ Contents'
      /\ conn'[c].st = "write" /\ conn'[c].at = conn[c].at
      /\ \A o \in Clients \ {c} : conn'[o] = conn[o]
      /\ Alone' => /\ Alone
                         /\ \A o \in Clients \ {c} : conn'[o].st \notin Saving
  BY <1>1, <1>3, <1>4, SaveGoesOn
<1>6. SaveProgress'
  BY <1>1, <1>3, <1>5 DEF IInv, SaveProgress, Saving
<1> QED
  BY <1>5, <1>6 DEF IInv

\* write_all and sync_all, on the file this daemon created.
LEMMA SaveWriteIInv ==
  ASSUME IInv, NEW c \in Clients, SaveWrite(c)
  PROVE  IInv'
<1>1. PICK ok \in {"yes", "lost"} :
        /\ conn[c].st = "write" /\ SetConn(c, "rename")
        /\ WriteAndSync(conn[c].at, ok) /\ faults' \in 0..MaxFaults
        /\ UNCHANGED <<client, daemon, lock, sock, marks>>
  BY ControlAssumption DEF SaveWrite, Fault, Crash, IInv, TypeOK
<1>2. conn[c].at \in Daemons /\ conn[c].at # "none"
  BY <1>1, ConnAt
<1>3. /\ file' = Written(conn[c].at, file, ok) /\ tmp' = Written(conn[c].at, tmp, ok)
      /\ older' = older /\ file \in FileType /\ tmp \in FileType
  BY <1>1 DEF WriteAndSync, IInv, TypeOK
<1>4. /\ file' \in FileType /\ tmp' \in FileType /\ file'.rules = file.rules
      /\ tmp'.rules = tmp.rules
  BY <1>2, <1>3, WrittenFacts
<1>5. "rename" \in Saving /\ "write" \in Saving
  BY DEF Saving
<1>6. /\ TypeOK' /\ Talk' /\ Held' /\ OneSocket' /\ Power' /\ Contents'
      /\ conn'[c].st = "rename" /\ conn'[c].at = conn[c].at
      /\ \A o \in Clients \ {c} : conn'[o] = conn[o]
      /\ Alone' => /\ Alone
                         /\ \A o \in Clients \ {c} : conn'[o].st \notin Saving
  BY <1>1, <1>3, <1>4, <1>5, SaveGoesOn
<1>7. SaveProgress'
  <2> SUFFICES ASSUME Alone' PROVE SaveProgress'
    BY DEF SaveProgress
  <2>1. tmp.open = conn[c].at /\ file.open = "none" /\ tmp.rules = daemon[conn[c].at].rules
    BY <1>1, <1>6 DEF IInv, SaveProgress
  <2>2. /\ file' = file /\ tmp'.whole /\ tmp'.synced # "no" /\ tmp'.open = "none"
    BY <1>2, <1>3, <2>1, WrittenFacts
  <2> QED
    BY <1>1, <1>3, <1>4, <1>6, <2>1, <2>2 DEF IInv, SaveProgress, Saving
<1> QED
  BY <1>6, <1>7 DEF IInv

\* The end of a save: the mutex is free, and nobody else was saving.
LEMMA SaveEnds ==
  ASSUME IInv, NEW c \in Clients, conn[c].st \in Saving, NEW a \in {"ok", "err"},
         Answer(c, a), file' \in FileType, tmp' \in FileType, older' \subseteq FileType,
         faults' \in 0..MaxFaults, UNCHANGED <<client, sock>>,
         marks' \in {marks, marks \cup {"outdated"}},
         daemon' \in [Daemons -> DaemonType],
         \A d \in Daemons : daemon'[d].pc = daemon[d].pc
  PROVE  /\ TypeOK' /\ Talk' /\ Held' /\ OneSocket' /\ Power'
         /\ conn'[c].st = "reply" /\ conn'[c].at = conn[c].at /\ conn'[c].resp = a
         /\ \A o \in Clients \ {c} : conn'[o] = conn[o]
         /\ Alone' => Alone /\ \A o \in Clients : conn'[o].st \notin Saving
<1>1. conn[c].at \in Daemons /\ conn[c].at # "none" /\ daemon[conn[c].at].pc = "serving"
  BY ConnAt DEF Saving
<1>2. /\ conn' \in [Clients -> ConnType]
      /\ conn'[c].st = "reply" /\ conn'[c].at = conn[c].at /\ conn'[c].resp = a
      /\ \A o \in Clients \ {c} : conn'[o] = conn[o]
      /\ lock' \in [Daemons -> Clients \cup {"none"}]
      /\ lock'[conn[c].at] = "none"
      /\ \A d \in Daemons \ {conn[c].at} : lock'[d] = lock[d]
  BY <1>1, AnswerFacts DEF IInv
<1>3. lock[conn[c].at] = c
  BY <1>1 DEF IInv, TypeOK
<1>4. ASSUME NEW o \in Clients
      PROVE  conn'[o].st \in Saving <=> conn'[o].at # "none" /\ lock'[conn'[o].at] = o
  <2>1. CASE o = c
    BY <1>1, <1>2, <2>1, ControlAssumption DEF Saving
  <2>2. CASE o # c
    <3>1. conn'[o] = conn[o] /\ conn[o].at \in Daemons \cup {"none"}
      BY <1>2, <2>2 DEF IInv, TypeOK, ConnType
    <3>2. conn[o].st \in Saving <=> conn[o].at # "none" /\ lock[conn[o].at] = o
      BY DEF IInv, TypeOK
    <3>3. conn[o].at = conn[c].at => lock[conn[o].at] # o /\ lock'[conn[o].at] # o
      BY <1>2, <1>3, <2>2, ControlAssumption
    <3> QED
      BY <1>2, <3>1, <3>2, <3>3
  <2> QED
    BY <2>1, <2>2
<1>5. TypeOK'
  BY <1>2, <1>4 DEF IInv, TypeOK
<1>6. Talk'
  <2>1. client[c].sent = client[c].oks + 1 /\ client[c].pc \notin {"start", "writing"}
    BY DEF IInv, Talk, Saving, TypeOK, ClientType
  <2>2. \A o \in Clients : conn[o].at # "none" => daemon'[conn[o].at].pc = "serving"
    BY DEF IInv, Talk, TypeOK, ConnType
  <2> QED
    BY <1>1, <1>2, <2>1, <2>2 DEF IInv, Talk, Saving
<1>7. Held'
  <2> SUFFICES ASSUME NEW d \in Daemons, lock'[d] # "none" PROVE conn'[lock'[d]].at = d
    BY DEF Held
  <2>1. d # conn[c].at /\ lock'[d] = lock[d] /\ lock[d] \in Clients
    BY <1>2 DEF IInv, TypeOK
  <2>2. conn[lock[d]].at = d
    BY <2>1 DEF IInv, Held
  <2> QED
    BY <1>2, <2>1, <2>2
<1>8. OneSocket'
  BY DEF IInv, OneSocket, Alone
<1>9. Power'
  BY <1>2 DEF IInv, Power
<1>10. Alone' => Alone
  BY DEF Alone
<1>11. Alone => \A o \in Clients : conn'[o].st \notin Saving
  BY <1>2, OneSaver DEF Saving
<1> QED
  BY <1>2, <1>5, <1>6, <1>7, <1>8, <1>9, <1>10, <1>11

\* A save that fails leaves the rules of the file as they were.
LEMMA SaveFailsIInv ==
  ASSUME IInv, NEW c \in Clients, SaveRefused(c) \/ SaveFails(c)
  PROVE  IInv'
<1>1. /\ conn[c].st \in Saving /\ Answer(c, "err") /\ faults' \in 0..MaxFaults
      /\ UNCHANGED <<client, daemon, sock, marks>>
      /\ Abandon(conn[c].at) \/ UNCHANGED store
  BY ControlAssumption
  DEF SaveRefused, SaveFails, Obstructed, Fault, Crash, IInv, TypeOK, Saving
<1>2. conn[c].at \in Daemons /\ conn[c].at # "none"
  BY <1>1, ConnAt DEF Saving
<1>3. /\ file' \in FileType /\ tmp' \in FileType /\ older' = older
      /\ file'.rules = file.rules /\ file'.whole = file.whole
      /\ file.open = "none" => file'.open = "none"
  <2>1. file \in FileType /\ tmp \in FileType
    BY DEF IInv, TypeOK
  <2>2. CASE UNCHANGED store
    BY <2>1, <2>2 DEF store
  <2>3. CASE Abandon(conn[c].at)
    <3>1. file' = Closed(conn[c].at, file) /\ tmp' = Closed(conn[c].at, tmp) /\ older' = older
      BY <2>3 DEF Abandon
    <3> QED
      BY <1>2, <2>1, <3>1, ClosedFacts
  <2> QED
    BY <1>1, <2>2, <2>3
<1>4. daemon' \in [Daemons -> DaemonType] /\ older' \subseteq FileType
  BY <1>1, <1>3 DEF IInv, TypeOK
<1>5. /\ TypeOK' /\ Talk' /\ Held' /\ OneSocket' /\ Power'
      /\ conn'[c].st = "reply" /\ conn'[c].at = conn[c].at /\ conn'[c].resp = "err"
      /\ \A o \in Clients \ {c} : conn'[o] = conn[o]
      /\ Alone' => Alone /\ \A o \in Clients : conn'[o].st \notin Saving
  BY <1>1, <1>3, <1>4, SaveEnds
<1>6. SaveProgress'
  BY <1>1, <1>3, <1>5 DEF IInv, SaveProgress, Saving
<1>7. Quiet
  BY <1>1, <1>3, <1>5 DEF Quiet, Undisturbed, Alone, Pending, Confirmed, Saving
<1> QED
  BY <1>5, <1>6, <1>7, QuietContents DEF IInv

\* The rename: what the daemon holds is now what the file holds, and a daemon
\* that has loaded the file before is late.
LEMMA SaveRenameIInv ==
  ASSUME IInv, NEW c \in Clients, SaveRename(c)
  PROVE  IInv'
<1>0. PICK d \in Daemons : d = conn[c].at
  BY ConnAt DEF SaveRename
<1>1. /\ conn[c].st = "rename" /\ file' = tmp /\ tmp' = NoFile /\ older' = older \cup {tmp}
      /\ UNCHANGED <<client, sock>>
      /\ marks' = IF daemon[d].late THEN marks \cup {"outdated"} ELSE marks
  BY <1>0 DEF SaveRename, Rename
<1>2. PICK a \in {"ok", "err"} : Answer(c, a) /\ faults' \in 0..MaxFaults
  BY ControlAssumption DEF SaveRename, Fault, Crash, IInv, TypeOK
<1>3. ASSUME NEW x \in Daemons
      PROVE  /\ daemon'[x] \in DaemonType
             /\ daemon'[x].pc = daemon[x].pc /\ daemon'[x].rules = daemon[x].rules
             /\ x = d => daemon'[x] = daemon[x]
             /\ x # d /\ daemon[x].pc \in {"probe", "remove", "bind"} => daemon'[x].late
  <2>1. daemon'[x] = IF x # d /\ daemon[x].pc \in {"probe", "remove", "bind"}
                     THEN [daemon[x] EXCEPT !.late = TRUE] ELSE daemon[x]
    BY <1>0 DEF SaveRename
  <2>2. daemon[x] \in DaemonType
    BY DEF IInv, TypeOK
  <2> QED
    BY <2>1, <2>2 DEF DaemonType
<1>4. daemon' \in [Daemons -> DaemonType]
  <2>1. DOMAIN daemon' = Daemons /\ daemon' = [x \in Daemons |-> daemon'[x]]
    BY DEF SaveRename
  <2> QED
    BY <1>3, <2>1
<1>5. file' \in FileType /\ tmp' \in FileType /\ older' \subseteq FileType
  BY <1>1, NoFileType DEF IInv, TypeOK
<1>6. conn[c].st \in Saving /\ d # "none" /\ daemon[d].pc = "serving"
  BY <1>0, <1>1, ConnAt DEF Saving
<1>7. /\ TypeOK' /\ Talk' /\ Held' /\ OneSocket' /\ Power'
      /\ conn'[c].st = "reply" /\ conn'[c].at = conn[c].at /\ conn'[c].resp = a
      /\ \A o \in Clients \ {c} : conn'[o] = conn[o]
      /\ Alone' => Alone /\ \A o \in Clients : conn'[o].st \notin Saving
  BY <1>1, <1>2, <1>3, <1>4, <1>5, <1>6, SaveEnds
<1>8. Alone => /\ tmp.whole /\ tmp.synced # "no" /\ tmp.open = "none"
               /\ tmp.rules = daemon[d].rules
  BY <1>0, <1>1 DEF IInv, SaveProgress
<1>9. SaveProgress'
  BY <1>1, <1>7, <1>8 DEF IInv, SaveProgress, Saving
<1>10. Contents'
  <2> SUFFICES ASSUME Undisturbed' PROVE Contents'
    BY DEF Contents
  <2>1. /\ Undisturbed /\ Alone' /\ ~daemon[d].late /\ marks' = marks
        /\ file'.rules = daemon[d].rules /\ daemon'[d].rules = daemon[d].rules
    BY <1>1, <1>3, <1>7, <1>8 DEF Undisturbed
  <2>2. "power" \notin marks
    BY <1>0, <1>6 DEF IInv, Power
  <2>3. HoldsFirst(daemon[d].rules, c, client[c].oks + 1)
    BY <1>0, <1>6, <2>1, <2>2 DEF IInv, Contents
  <2>4. client[c].sent = client[c].oks + 1 /\ client[c].pc # "start" /\ client[c].oks \in Nat
    BY <1>6 DEF IInv, Talk, Saving, TypeOK, ClientType
  <2>5. ASSUME NEW o \in Clients, NEW s, s = daemon[d].rules PROVE Current(s, o)'
    <3>1. CASE o = c
      <4>1. ~Pending(c)'
        BY <1>1, <1>7, <2>4 DEF Pending
      <4>2. client'[c].oks + 1 \in client'[c].oks..client'[c].sent
        BY <1>1, <2>4
      <4> QED
        BY <1>1, <2>3, <2>5, <3>1, <4>1, <4>2 DEF Current, Agrees
    <3>2. CASE o # c
      <4>1. Current(s, o)
        BY <1>6, <2>1, <2>2, <2>5 DEF IInv, Contents
      <4>2. (Pending(o)' <=> Pending(o)) /\ (Confirmed(o)' <=> Confirmed(o))
        BY <1>1, <1>7, <3>2 DEF Pending, Confirmed
      <4> QED
        BY <1>1, <4>1, <4>2 DEF Current, Agrees
    <3> QED
      BY <3>1, <3>2
  <2>6. ASSUME NEW o \in Clients PROVE Current(file.rules, o)'
    BY <2>1, <2>5
  <2>7. ASSUME NEW o \in Clients, NEW x \in Daemons, daemon'[x].pc = "serving",
               ~daemon'[x].late
        PROVE  Current(daemon[x].rules, o)'
    <3>1. x = d
      BY <1>3, <1>6, <2>1, <2>7 DEF IInv, OneSocket, Undisturbed
    <3> QED
      BY <2>1, <2>5, <3>1
  <2>8. \A x \in Daemons :
          ~ (daemon'[x].pc \in {"probe", "remove", "bind"} /\ ~daemon'[x].late)
    BY <1>3, <1>6
  <2>9. ASSUME NEW o \in Clients, NEW f \in older' \cup {file'}
        PROVE  \E k \in 0..client'[o].sent : HoldsFirst(f.rules, o, k)
    <3>1. CASE f = tmp
      <4>1. PICK k \in client'[o].oks..client'[o].sent : HoldsFirst(file'.rules, o, k)
        BY <2>6 DEF Current, Agrees
      <4>2. k \in 0..client'[o].sent
        BY <1>1 DEF IInv, TypeOK, ClientType
      <4> QED
        BY <1>1, <3>1, <4>1, <4>2
    <3>2. CASE f \in older
      BY <1>1, <2>1, <3>2 DEF IInv, Contents
    <3> QED
      BY <1>1, <3>1, <3>2
  <2> QED
    BY <1>7, <2>1, <2>6, <2>7, <2>8, <2>9 DEF Contents
<1> QED
  BY <1>7, <1>9, <1>10 DEF IInv

-----------------------------------------------------------------------------
(* The start and the end of a daemon. *)

\* What the steps of a daemon that does not serve leave alone.
LEMMA StartOnly ==
  ASSUME IInv, UNCHANGED <<store, client, conn, lock>>, NEW d \in Daemons,
         daemon[d].pc # "serving", daemon' \in [Daemons -> DaemonType],
         \A x \in Daemons \ {d} : daemon'[x] = daemon[x],
         sock' \in Daemons \cup {"none", "stale"}, faults' \in 0..MaxFaults,
         marks' \in {marks, marks \cup {"raced"}}
  PROVE  /\ TypeOK' /\ Talk' /\ Held' /\ Power' /\ SaveProgress'
         /\ Undisturbed' => Undisturbed /\ marks' = marks
         /\ Alone' => Alone
<1>1. TypeOK'
  BY DEF IInv, TypeOK, store
<1>2. ASSUME NEW c \in Clients, conn[c].at # "none"
      PROVE  conn[c].at \in Daemons /\ daemon'[conn[c].at] = daemon[conn[c].at]
  BY <1>2 DEF IInv, TypeOK, ConnType, Talk
<1>3. Talk'
  BY <1>2 DEF IInv, Talk
<1>4. Held' /\ Power'
  BY DEF IInv, Held, Power
<1>5. (Undisturbed' => Undisturbed /\ marks' = marks) /\ (Alone' => Alone)
  BY DEF Undisturbed, Alone
<1>6. SaveProgress'
  <2>1. \A c \in Clients : conn'[c].st \in Saving =>
           /\ conn'[c].st = conn[c].st /\ conn'[c].at = conn[c].at
           /\ daemon'[conn[c].at].rules = daemon[conn[c].at].rules
    BY <1>2 DEF IInv, Talk, Saving
  <2>2. /\ "unsynced" \in marks' <=> "unsynced" \in marks
        /\ "kept" \in marks' <=> "kept" \in marks
    OBVIOUS
  <2> QED
    BY <1>5, <2>1, <2>2, QuietSave DEF IInv
<1> QED
  BY <1>1, <1>3, <1>4, <1>5, <1>6

\* A starting daemon loads the file as it is, or has no rules and is late.
LEMMA LoadIInv ==
  ASSUME IInv, NEW d \in Daemons, LoadRules(d) \/ LoadFails(d)
  PROVE  IInv'
<1>1. PICK s \in Loaded \cup {<<>>}, l \in BOOLEAN :
        /\ daemon' = [daemon EXCEPT ![d] = [pc |-> "probe", rules |-> s, late |-> l]]
        /\ ~l => s \in Loaded
        /\ l => s = <<>>
  BY DEF LoadRules, LoadFails
<1>2. /\ UNCHANGED <<store, client, conn, lock, sock, marks>> /\ faults' \in 0..MaxFaults
      /\ daemon[d].pc \in {"off", "ended"}
  BY ControlAssumption DEF LoadRules, LoadFails, Alive, Fault, Crash, IInv, TypeOK
<1>3. file.rules \in Seq(Rules) /\ file.whole \in BOOLEAN
  BY DEF IInv, TypeOK, FileType
<1>4. s \in Seq(Rules) /\ (file.whole /\ ~l => s = file.rules)
  <2>0. CASE l
    BY <1>1, <2>0, EmptySeq
  <2>1. CASE file.whole /\ ~l
    BY <1>1, <1>3, <2>1 DEF Loaded
  <2>2. CASE ~file.whole /\ ~l
    <3>1. PICK k \in 0..Len(file.rules) : s = SubSeq(file.rules, 1, k)
      BY <1>1, <2>2 DEF Loaded
    <3>2. \A i \in 1..k : file.rules[i] \in Rules
      BY <1>3, LenProperties, ElementOfSeq
    <3>3. SubSeq(file.rules, 1, k) \in Seq(Rules)
      BY <1>3, <3>1, <3>2, SubSeqProperties
    <3> QED
      BY <2>2, <3>1, <3>3
  <2> QED
    BY <2>0, <2>1, <2>2
<1>5. /\ daemon' \in [Daemons -> DaemonType]
      /\ daemon'[d].pc = "probe" /\ daemon'[d].rules = s /\ daemon'[d].late = l
      /\ \A x \in Daemons \ {d} : daemon'[x] = daemon[x]
  <2>1. [pc |-> "probe", rules |-> s, late |-> l] \in DaemonType
    BY <1>4 DEF DaemonType
  <2> QED
    BY <1>1, <2>1 DEF IInv, TypeOK
<1>6. /\ TypeOK' /\ Talk' /\ Held' /\ Power' /\ SaveProgress'
      /\ Undisturbed' => Undisturbed /\ marks' = marks
  <2>1. sock' \in Daemons \cup {"none", "stale"}
    BY <1>2 DEF IInv, TypeOK
  <2> QED
    BY <1>2, <1>5, <2>1, StartOnly
<1>7. OneSocket'
  BY <1>2, <1>5 DEF IInv, OneSocket, Alone
<1>8. Contents'
  <2> SUFFICES ASSUME Undisturbed' PROVE Contents'
    BY DEF Contents
  <2>1. Undisturbed /\ file' = file /\ older' = older /\ client' = client /\ conn' = conn
        /\ marks' = marks
    BY <1>2, <1>6 DEF store
  <2>2. "power" \notin marks /\ ~l => s = file.rules
    BY <1>4, <2>1 DEF IInv, Power, SaveProgress, Undisturbed
  <2>3. \A c \in Clients : conn[c].st \in Saving => conn[c].at \in Daemons \ {d}
    BY <1>2, ConnAt DEF Saving
  <2>4. ASSUME NEW c \in Clients, NEW t, Current(t, c), NEW u, t = u PROVE Current(u, c)'
    BY <2>1, <2>4 DEF Current, Agrees, Pending, Confirmed
  <2>5. ASSUME "power" \notin marks, NEW c \in Clients PROVE Current(file.rules, c)'
    <3>1. Current(file.rules, c)
      BY <2>1, <2>5 DEF IInv, Contents
    <3> QED
      BY <2>1, <2>4, <3>1
  <2>6. ASSUME "power" \notin marks, NEW c \in Clients, NEW x \in Daemons,
               daemon'[x].pc = "serving", ~daemon'[x].late
        PROVE  Current(daemon[x].rules, c)'
    <3>1. x # d /\ daemon'[x] = daemon[x]
      BY <1>5, <2>6
    <3>2. Current(daemon[x].rules, c) /\ daemon[x].rules = daemon'[x].rules
      BY <2>1, <2>6, <3>1 DEF IInv, Contents
    <3> QED
      BY <2>4, <3>2
  <2>7. "power" \notin marks =>
          \A c \in Clients, x \in Daemons :
            daemon'[x].pc \in {"probe", "remove", "bind"} /\ ~daemon'[x].late =>
              daemon'[x].rules = file'.rules
    BY <1>5, <2>1, <2>2 DEF IInv, Contents
  <2>8. "power" \notin marks =>
          \A c \in Clients : conn'[c].st \in Saving /\ ~daemon'[conn'[c].at].late =>
            HoldsFirst(daemon'[conn'[c].at].rules, c, client'[c].oks + 1)
    BY <1>5, <2>1, <2>3 DEF IInv, Contents
  <2> QED
    BY <2>1, <2>5, <2>6, <2>7, <2>8 DEF IInv, Contents
<1> QED
  BY <1>6, <1>7, <1>8 DEF IInv

\* A daemon on its way to the socket goes on or gives up, whatever the socket.
LEMMA TowardsBind ==
  ASSUME IInv, UNCHANGED <<store, client, conn, lock, faults>>, NEW d \in Daemons,
         daemon[d].pc \in {"probe", "remove", "bind"},
         NEW p \in {"remove", "bind"},
         \/ daemon' = [daemon EXCEPT ![d].pc = p]
         \/ daemon' = [daemon EXCEPT ![d] = Ended(d)],
         sock' \in {sock, "none"}, marks' \in {marks, marks \cup {"raced"}}
  PROVE  /\ TypeOK' /\ Talk' /\ Held' /\ Power' /\ SaveProgress' /\ Contents'
         /\ Alone' => Alone
         /\ \A x \in Daemons \ {d} : daemon'[x] = daemon[x]
         /\ daemon' = [daemon EXCEPT ![d].pc = p] => daemon'[d].pc = p
         /\ daemon' = [daemon EXCEPT ![d] = Ended(d)] => daemon'[d].pc \in {"off", "ended"}
<1>1. daemon[d] \in DaemonType /\ daemon \in [Daemons -> DaemonType]
  BY DEF IInv, TypeOK
<1>2. /\ daemon' \in [Daemons -> DaemonType]
      /\ \A x \in Daemons \ {d} : daemon'[x] = daemon[x]
      /\ daemon' = [daemon EXCEPT ![d].pc = p] =>
           /\ daemon'[d].pc = p /\ daemon'[d].late = daemon[d].late
           /\ daemon'[d].rules = daemon[d].rules
      /\ daemon' = [daemon EXCEPT ![d] = Ended(d)] => daemon'[d].pc \in {"off", "ended"}
  <2>1. CASE daemon' = [daemon EXCEPT ![d].pc = p]
    <3>1. /\ daemon' \in [Daemons -> DaemonType]
          /\ \A x \in Daemons \ {d} : daemon'[x] = daemon[x]
          /\ daemon'[d].pc = p /\ daemon'[d].late = daemon[d].late
          /\ daemon'[d].rules = daemon[d].rules
      BY <1>1, <2>1 DEF DaemonType
    <3>2. daemon' # [daemon EXCEPT ![d] = Ended(d)]
      BY <1>1, <3>1, EndedType
    <3> QED
      BY <3>1, <3>2
  <2>2. CASE daemon' = [daemon EXCEPT ![d] = Ended(d)]
    <3>1. /\ daemon' \in [Daemons -> DaemonType]
          /\ \A x \in Daemons \ {d} : daemon'[x] = daemon[x]
          /\ daemon'[d].pc \in {"off", "ended"}
      BY <1>1, <2>2, EndedType
    <3>2. [daemon EXCEPT ![d].pc = p][d].pc = p
      BY <1>1 DEF DaemonType
    <3> QED
      BY <3>1, <3>2
  <2> QED
    BY <2>1, <2>2
<1>3. sock' \in Daemons \cup {"none", "stale"} /\ faults' \in 0..MaxFaults
  BY DEF IInv, TypeOK
<1>4. /\ TypeOK' /\ Talk' /\ Held' /\ Power' /\ SaveProgress'
      /\ Undisturbed' => Undisturbed /\ marks' = marks
      /\ Alone' => Alone
  BY <1>2, <1>3, StartOnly
<1>5. Quiet
  <2>1. \A c \in Clients : conn[c].st \in Saving => conn[c].at \in Daemons \ {d}
    BY ConnAt DEF Saving
  <2> QED
    BY <1>2, <1>4, <2>1 DEF Quiet, store, Pending, Confirmed
<1> QED
  BY <1>2, <1>4, <1>5, QuietContents DEF IInv

\* The probe: bind, remove first, or end.
LEMMA ProbeIInv ==
  ASSUME IInv, NEW d \in Daemons, Probe(d)
  PROVE  IInv'
<1>1. PICK p \in {"remove", "bind"} :
        \/ daemon' = [daemon EXCEPT ![d].pc = p] /\ sock \notin Daemons
        \/ daemon' = [daemon EXCEPT ![d] = Ended(d)] /\ sock \in Daemons
  <2>1. CASE sock = "none"
    BY <2>1, StoreAssumption DEF Probe
  <2>2. CASE sock = "stale"
    BY <2>2, ControlAssumption DEF Probe
  <2>3. CASE sock \in Daemons
    BY <2>3, ControlAssumption, StoreAssumption DEF Probe
  <2> QED
    BY <2>1, <2>2, <2>3 DEF IInv, TypeOK
<1>2. /\ UNCHANGED <<store, client, conn, lock, sock, faults>> /\ daemon[d].pc = "probe"
      /\ marks' = IF Racing(d) /\ sock \notin Daemons THEN marks \cup {"raced"} ELSE marks
  BY DEF Probe
<1>3. /\ TypeOK' /\ Talk' /\ Held' /\ Power' /\ SaveProgress' /\ Contents'
      /\ Alone' => Alone
      /\ \A x \in Daemons \ {d} : daemon'[x] = daemon[x]
      /\ daemon' = [daemon EXCEPT ![d].pc = p] => daemon'[d].pc = p
      /\ daemon' = [daemon EXCEPT ![d] = Ended(d)] => daemon'[d].pc \in {"off", "ended"}
  BY <1>1, <1>2, TowardsBind
<1>4. OneSocket'
  <2>1. sock' \in Daemons => daemon'[sock'].pc = "serving"
    BY <1>2, <1>3 DEF IInv, OneSocket
  <2>2. ASSUME Alone'
        PROVE  /\ \A x \in Daemons : daemon'[x].pc = "serving" => sock' = x
               /\ \A x \in Daemons : daemon'[x].pc \in {"remove", "bind"} => sock' \notin Daemons
               /\ \A x, y \in Daemons :
                    daemon'[x].pc \in {"remove", "bind"} /\ daemon'[y].pc \in {"remove", "bind"}
                      => x = y
    <3>1. sock \notin Daemons => ~Racing(d)
      BY <1>2, <2>2 DEF Alone
    <3>2. CASE sock \notin Daemons
      BY <1>1, <1>2, <1>3, <2>2, <3>1, <3>2 DEF IInv, OneSocket, Racing
    <3>3. CASE sock \in Daemons
      BY <1>1, <1>2, <1>3, <2>2, <3>3 DEF IInv, OneSocket
    <3> QED
      BY <3>2, <3>3
  <2> QED
    BY <2>1, <2>2 DEF OneSocket
<1> QED
  BY <1>3, <1>4 DEF IInv

\* remove_file at the path of the socket.
LEMMA RemoveIInv ==
  ASSUME IInv, NEW d \in Daemons, RemoveSocket(d)
  PROVE  IInv'
<1>1. /\ \/ daemon' = [daemon EXCEPT ![d].pc = "bind"]
         \/ daemon' = [daemon EXCEPT ![d] = Ended(d)]
      /\ UNCHANGED <<store, client, conn, lock, faults, marks>> /\ daemon[d].pc = "remove"
      /\ sock' = "none"
  BY DEF RemoveSocket
<1>2. /\ TypeOK' /\ Talk' /\ Held' /\ Power' /\ SaveProgress' /\ Contents'
      /\ Alone' => Alone
      /\ \A x \in Daemons \ {d} : daemon'[x] = daemon[x]
      /\ daemon' = [daemon EXCEPT ![d].pc = "bind"] => daemon'[d].pc = "bind"
      /\ daemon' = [daemon EXCEPT ![d] = Ended(d)] => daemon'[d].pc \in {"off", "ended"}
  BY <1>1, TowardsBind
<1>3. OneSocket'
  <2>1. sock' \notin Daemons
    BY <1>1, StoreAssumption
  <2>2. Alone => sock \notin Daemons
    BY <1>1 DEF IInv, OneSocket
  <2> QED
    BY <1>1, <1>2, <2>1, <2>2 DEF IInv, OneSocket
<1> QED
  BY <1>2, <1>3 DEF IInv

\* bind: a daemon serves what it has loaded, which is what the file holds unless
\* somebody saved in between.
LEMMA BindIInv ==
  ASSUME IInv, NEW d \in Daemons, Bind(d)
  PROVE  IInv'
<1>1. /\ UNCHANGED <<store, client, conn, lock, faults>> /\ daemon[d].pc = "bind"
      /\ daemon[d] \in DaemonType /\ daemon \in [Daemons -> DaemonType]
  BY DEF Bind, IInv, TypeOK
<1>2. CASE sock # "none"
  <2>1. daemon' = [daemon EXCEPT ![d] = Ended(d)] /\ UNCHANGED <<sock, marks>>
    BY <1>1, <1>2 DEF Bind
  <2>2. "bind" \in {"remove", "bind"} /\ daemon[d].pc \in {"probe", "remove", "bind"}
        /\ sock' \in {sock, "none"} /\ marks' \in {marks, marks \cup {"raced"}}
    BY <1>1, <2>1
  <2>3. /\ TypeOK' /\ Talk' /\ Held' /\ Power' /\ SaveProgress' /\ Contents'
        /\ Alone' => Alone
        /\ \A x \in Daemons \ {d} : daemon'[x] = daemon[x]
        /\ daemon'[d].pc \in {"off", "ended"}
    BY <1>1, <2>1, <2>2, TowardsBind
  <2>4. OneSocket'
    BY <1>1, <2>1, <2>3 DEF IInv, OneSocket
  <2> QED
    BY <2>3, <2>4 DEF IInv
<1>3. CASE sock = "none"
  <2>1. daemon' = [daemon EXCEPT ![d].pc = "serving"] /\ sock' = d /\ marks' = marks
    BY <1>3 DEF Bind
  <2>2. /\ daemon' \in [Daemons -> DaemonType]
        /\ daemon'[d].pc = "serving" /\ daemon'[d].rules = daemon[d].rules
        /\ daemon'[d].late = daemon[d].late
        /\ \A x \in Daemons \ {d} : daemon'[x] = daemon[x]
    BY <1>1, <2>1 DEF DaemonType
  <2>3. /\ TypeOK' /\ Talk' /\ Held' /\ Power' /\ SaveProgress'
        /\ Undisturbed' => Undisturbed /\ marks' = marks
        /\ Alone' => Alone
    <3>1. sock' \in Daemons \cup {"none", "stale"} /\ faults' \in 0..MaxFaults
      BY <1>1, <2>1 DEF IInv, TypeOK
    <3>2. marks' \in {marks, marks \cup {"raced"}}
      BY <2>1
    <3> QED
      BY <1>1, <2>2, <3>1, <3>2, StartOnly
  <2>4. Alone => \A x \in Daemons : daemon[x].pc # "serving"
    BY <1>3, StoreAssumption DEF IInv, OneSocket
  <2>5. OneSocket'
    BY <1>1, <2>1, <2>2, <2>3, <2>4 DEF IInv, OneSocket
  <2>6. Contents'
    <3> SUFFICES ASSUME Undisturbed' PROVE Contents'
      BY DEF Contents
    <3>1. Undisturbed /\ marks' = marks
      BY <2>3
    <3>2. file' = file /\ older' = older /\ client' = client /\ conn' = conn
      BY <1>1 DEF store
    <3>3. "power" \notin marks =>
            \A c \in Clients : /\ ~daemon[d].late => daemon'[d].rules = file.rules
                               /\ Current(file.rules, c)
      BY <1>1, <2>2, <3>1 DEF IInv, Contents
    <3>4. \A x \in Daemons \ {d} : daemon'[x].pc # "serving"
      BY <2>2, <2>4, <3>1 DEF Undisturbed
    <3>5. ASSUME NEW c \in Clients, NEW t, Current(t, c), NEW u, t = u PROVE Current(u, c)'
      BY <3>2, <3>5 DEF Current, Agrees, Pending, Confirmed
    <3>6. ASSUME "power" \notin marks, NEW c \in Clients PROVE Current(file.rules, c)'
      BY <3>2, <3>3, <3>5, <3>6
    <3>7. ASSUME "power" \notin marks, NEW c \in Clients, NEW x \in Daemons,
                 daemon'[x].pc = "serving", ~daemon'[x].late
          PROVE  Current(daemon[x].rules, c)'
      <4>1. x = d
        BY <3>4, <3>7
      <4> QED
        BY <2>2, <3>3, <3>5, <3>7, <4>1
    <3>8. "power" \notin marks =>
            \A c \in Clients, x \in Daemons :
              daemon'[x].pc \in {"probe", "remove", "bind"} /\ ~daemon'[x].late =>
                daemon'[x].rules = file'.rules
      BY <2>2, <3>1, <3>2 DEF IInv, Contents
    <3>9. \A c \in Clients : conn'[c].st \notin Saving
      BY <2>4, <3>1, <3>2, ConnAt DEF Saving, Undisturbed
    <3> QED
      BY <3>1, <3>2, <3>6, <3>7, <3>8, <3>9 DEF IInv, Contents
  <2> QED
    BY <2>3, <2>5, <2>6 DEF IInv
<1> QED
  BY <1>2, <1>3

\* A kill ends the daemon's connections and closes its files; the file stays.
LEMMA KillIInv ==
  ASSUME IInv, NEW d \in Daemons, Kill(d)
  PROVE  IInv'
<1>1. /\ faults' \in 0..MaxFaults /\ daemon' = [daemon EXCEPT ![d] = Ended(d)]
      /\ lock' = [lock EXCEPT ![d] = "none"] /\ Reset({d})
      /\ file' = Closed(d, file) /\ tmp' = Closed(d, tmp) /\ older' = older
      /\ sock' = (IF sock = d THEN "stale" ELSE sock) /\ UNCHANGED <<client, marks>>
  BY ControlAssumption DEF Kill, Crash, Abandon, IInv, TypeOK
<1>2. /\ daemon' \in [Daemons -> DaemonType] /\ daemon'[d].pc \in {"off", "ended"}
      /\ \A x \in Daemons \ {d} : daemon'[x] = daemon[x]
  BY <1>1, EndedType DEF IInv, TypeOK
<1>3. /\ lock' \in [Daemons -> Clients \cup {"none"}] /\ lock'[d] = "none"
      /\ \A x \in Daemons \ {d} : lock'[x] = lock[x]
  BY <1>1 DEF IInv, TypeOK
<1>4. /\ conn' \in [Clients -> ConnType]
      /\ \A c \in Clients : conn[c].at # d => conn'[c] = conn[c]
      /\ \A c \in Clients : conn[c].at = d =>
           conn'[c].at = "none" /\ conn'[c].st = "closed" /\ conn'[c].resp = "none"
  BY <1>1, ResetFacts DEF IInv, NoConn
<1>5. /\ file' \in FileType /\ tmp' \in FileType /\ file'.rules = file.rules
      /\ file'.whole = file.whole /\ file'.open \in {file.open, "none"}
      /\ tmp.open # d => tmp' = tmp
  BY <1>1, ClosedFacts DEF IInv, TypeOK
<1>6. TypeOK'
  <2>1. ASSUME NEW c \in Clients
        PROVE  conn'[c].st \in Saving <=> conn'[c].at # "none" /\ lock'[conn'[c].at] = c
    <3>1. CASE conn[c].at = d
      BY <1>4, <3>1 DEF Saving
    <3>2. CASE conn[c].at # d
      <4>1. conn'[c] = conn[c] /\ conn[c].at \in (Daemons \ {d}) \cup {"none"}
        BY <1>4, <3>2 DEF IInv, TypeOK, ConnType
      <4> QED
        BY <1>3, <4>1 DEF IInv, TypeOK
    <3> QED
      BY <3>1, <3>2
  <2> QED
    BY <1>1, <1>2, <1>3, <1>4, <1>5, <2>1 DEF IInv, TypeOK
<1>7. Talk'
  <2>1. ASSUME NEW c \in Clients, conn'[c].at # "none"
        PROVE  conn'[c] = conn[c] /\ daemon'[conn[c].at] = daemon[conn[c].at]
    BY <1>2, <1>4, <2>1 DEF IInv, TypeOK, ConnType
  <2> QED
    BY <1>1, <1>4, <2>1 DEF IInv, Talk, Saving
<1>8. Held'
  <2> SUFFICES ASSUME NEW x \in Daemons, lock'[x] # "none" PROVE conn'[lock'[x]].at = x
    BY DEF Held
  <2>1. x # d /\ lock'[x] = lock[x] /\ lock[x] \in Clients
    BY <1>3 DEF IInv, TypeOK
  <2>2. conn[lock[x]].at = x
    BY <2>1 DEF IInv, Held
  <2> QED
    BY <1>4, <2>1, <2>2
<1>9. OneSocket'
  BY <1>1, <1>2, ControlAssumption DEF IInv, OneSocket, Alone
<1>10. Power'
  BY <1>1, <1>4 DEF IInv, Power
<1>11. (Undisturbed' <=> Undisturbed) /\ (Alone' <=> Alone)
  BY <1>1 DEF Undisturbed, Alone
<1>12. SaveProgress'
  <2> SUFFICES ASSUME Alone' PROVE SaveProgress'
    BY DEF SaveProgress
  <2>1. ASSUME NEW c \in Clients, conn'[c].st \in {"write", "rename"}
        PROVE  /\ conn'[c] = conn[c] /\ conn[c].at # d
               /\ daemon'[conn[c].at] = daemon[conn[c].at]
    BY <1>2, <1>4, <2>1 DEF IInv, TypeOK, ConnType, Saving
  <2>2. ASSUME NEW c \in Clients, conn'[c].st \in {"write", "rename"}
        PROVE  tmp' = tmp
    <3>1. tmp.open # d
      BY <1>11, <2>1, <2>2, StoreAssumption DEF IInv, SaveProgress
    <3> QED
      BY <1>5, <3>1
  <2>3. ASSUME NEW c \in Clients, conn'[c].st = "create", "kept" \notin marks'
        PROVE  tmp' = NoFile
    <3>1. conn[c].st = "create"
      BY <1>4, <2>3
    <3>2. tmp = NoFile
      BY <1>1, <1>11, <2>3, <3>1 DEF IInv, SaveProgress
    <3>3. tmp.open # d
      BY <3>2, StoreAssumption DEF NoFile
    <3> QED
      BY <1>5, <3>2, <3>3
  <2> QED
    BY <1>1, <1>5, <1>11, <2>1, <2>2, <2>3 DEF IInv, SaveProgress
<1>13. Quiet
  <2>1. ASSUME NEW c \in Clients, conn'[c].st \in Saving
        PROVE  conn'[c] = conn[c] /\ daemon'[conn[c].at] = daemon[conn[c].at]
    BY <1>2, <1>4, <2>1 DEF IInv, TypeOK, ConnType, Saving
  <2>2. \A c \in Clients : (Pending(c)' => Pending(c)) /\ (Confirmed(c)' => Confirmed(c))
    BY <1>1, <1>4 DEF Pending, Confirmed
  <2> QED
    BY <1>1, <1>2, <1>5, <1>11, <2>1, <2>2 DEF Quiet
<1> QED
  BY <1>6, <1>7, <1>8, <1>9, <1>10, <1>12, <1>13, QuietContents DEF IInv

-----------------------------------------------------------------------------
(* systemd, the disk and the power. *)

\* The runtime directory is removed, with the socket in it.
LEMMA SweepIInv == IInv /\ Sweep => IInv'
<1> SUFFICES ASSUME IInv, Sweep PROVE IInv'
  OBVIOUS
<1>1. /\ UNCHANGED <<store, client, conn, daemon, lock, faults>> /\ sock' = "none"
      /\ marks' = IF sock \in Daemons THEN marks \cup {"swept"} ELSE marks
  BY DEF Sweep
<1>2. TypeOK' /\ Talk' /\ Held' /\ Power'
  BY <1>1 DEF IInv, TypeOK, Talk, Held, Power, store
<1>3. (Alone' => Alone /\ sock \notin Daemons) /\ (Undisturbed' => Undisturbed)
  BY <1>1 DEF Alone, Undisturbed
<1>4. OneSocket'
  BY <1>1, <1>3, StoreAssumption DEF IInv, OneSocket
<1>5. SaveProgress'
  BY <1>1, <1>3, QuietSave DEF IInv
<1>6. Quiet
  BY <1>1, <1>3 DEF Quiet, store, Pending, Confirmed
<1> QED
  BY <1>2, <1>4, <1>5, <1>6, QuietContents DEF IInv

\* The kernel writes the file back.
LEMMA FlushIInv == IInv /\ FlushDisk => IInv'
<1> SUFFICES ASSUME IInv, FlushDisk PROVE IInv'
  OBVIOUS
<1>1. /\ file' = [file EXCEPT !.synced = "yes"] /\ older' = {file'} /\ tmp' = tmp
      /\ UNCHANGED <<client, conn, daemon, lock, sock, faults, marks>>
  BY DEF FlushDisk, Writeback
<1>2. /\ file' \in FileType /\ file'.rules = file.rules /\ file'.whole = file.whole
      /\ file'.open = file.open /\ file'.synced = "yes"
  BY <1>1 DEF IInv, TypeOK, FileType
<1>3. TypeOK'
  BY <1>1, <1>2 DEF IInv, TypeOK
<1>4. Talk' /\ Held' /\ Power' /\ OneSocket'
  BY <1>1, QuietSocket DEF IInv, Talk, Held, Power
<1>5. SaveProgress'
  BY <1>1, <1>2 DEF IInv, SaveProgress, Undisturbed, Alone
<1>6. Quiet
  BY <1>1, <1>2 DEF Quiet, Undisturbed, Alone, Pending, Confirmed
<1> QED
  BY <1>3, <1>4, <1>5, <1>6, QuietContents DEF IInv

\* After a power loss the file is one it has been since the last writeback; the
\* commands and the daemons are gone.
LEMMA PowerLossIInv == IInv /\ PowerLoss => IInv'
<1> SUFFICES ASSUME IInv, PowerLoss PROVE IInv'
  OBVIOUS
<1>1. /\ faults' \in 0..MaxFaults /\ Reset(Daemons) /\ sock' = "none"
      /\ daemon' = [d \in Daemons |-> Off] /\ lock' = [d \in Daemons |-> "none"]
      /\ client' = [c \in Clients |-> IF client[c].pc = "done" THEN client[c]
                                      ELSE [client[c] EXCEPT !.pc = "failed"]]
      /\ marks' = marks \cup (IF \E f \in older : f.synced = "lost"
                             THEN {"power", "unsynced"} ELSE {"power"})
  BY ControlAssumption DEF PowerLoss, Fault, Crash, IInv, TypeOK
<1>2. PICK f \in older, w \in BOOLEAN :
        /\ f.synced = "yes" => w = f.whole
        /\ file' = [f EXCEPT !.whole = w, !.synced = "yes", !.open = "none"]
        /\ older' = {file'}
  BY DEF PowerLoss, LosePower
<1>3. /\ file' \in FileType /\ file'.rules = f.rules /\ file'.whole = w
      /\ file'.open = "none" /\ file'.synced = "yes"
  <2>1. f \in FileType
    BY DEF IInv, TypeOK
  <2> QED
    BY <1>2, <2>1 DEF FileType
<1>4. tmp' \in FileType
  <2>1. tmp \in FileType
    BY DEF IInv, TypeOK
  <2>2. NoFile \in FileType
    BY NoFileType
  <2>3. [tmp EXCEPT !.whole = FALSE, !.open = "none"] \in FileType
    BY <2>1 DEF FileType
  <2> QED
    BY <2>2, <2>3 DEF PowerLoss, LosePower
<1>5. ASSUME NEW c \in Clients
      PROVE  /\ client'[c] \in ClientType /\ client'[c].pc \in {"done", "failed"}
             /\ client'[c].sent = client[c].sent /\ client'[c].oks = client[c].oks
  <2>1. client[c] \in ClientType
    BY DEF IInv, TypeOK
  <2>2. client'[c] = IF client[c].pc = "done" THEN client[c]
                     ELSE [client[c] EXCEPT !.pc = "failed"]
    BY <1>1
  <2> QED
    BY <2>1, <2>2 DEF ClientType
<1>6. client' \in [Clients -> ClientType]
  BY <1>1, <1>5
<1>7. /\ conn' \in [Clients -> ConnType]
      /\ \A c \in Clients : conn'[c].at = "none" /\ conn'[c].st = "closed"
  <2>1. ASSUME NEW c \in Clients PROVE conn'[c].at = "none" /\ conn'[c].st = "closed"
    <3>1. conn'[c] = IF conn[c].at \in Daemons THEN NoConn ELSE conn[c]
      BY <1>1, ResetFacts DEF IInv
    <3>2. conn[c].at \in Daemons \/ (conn[c].at = "none" /\ conn[c].st = "closed")
      BY DEF IInv, TypeOK, ConnType, Talk
    <3> QED
      BY <3>1, <3>2, StoreAssumption DEF NoConn
  <2> QED
    BY <1>1, <2>1, ResetFacts DEF IInv
<1>8. \A d \in Daemons : daemon'[d] = Off /\ Off.pc = "off" /\ lock'[d] = "none"
  BY <1>1, EndedType
<1>9. TypeOK'
  <2>1. daemon' \in [Daemons -> DaemonType]
    BY <1>1, EndedType
  <2>2. marks' \subseteq {"unsynced", "raced", "outdated", "swept", "power", "kept"}
    BY <1>1 DEF IInv, TypeOK
  <2> QED
    BY <1>1, <1>2, <1>3, <1>4, <1>5, <1>6, <1>7, <2>1, <2>2 DEF IInv, TypeOK, Saving
<1>10. Talk'
  BY <1>5, <1>7 DEF IInv, Talk, Saving
<1>11. Held' /\ OneSocket' /\ Power'
  BY <1>1, <1>5, <1>7, <1>8, StoreAssumption DEF Held, OneSocket, Power
<1>12. (Undisturbed' => Undisturbed) /\ (Alone' => Alone)
  BY <1>1 DEF Undisturbed, Alone
<1>13. SaveProgress'
  <2> SUFFICES ASSUME Alone' PROVE SaveProgress'
    BY DEF SaveProgress
  <2>1. ASSUME "unsynced" \notin marks' PROVE file'.whole
    <3>1. f.synced # "lost" /\ "unsynced" \notin marks
      BY <1>1, <2>1
    <3>2. f.synced # "no" /\ f.whole
      BY <1>12, <3>1 DEF IInv, SaveProgress
    <3>3. f.synced = "yes"
      BY <3>1, <3>2 DEF IInv, TypeOK, FileType
    <3> QED
      BY <1>2, <1>3, <3>2, <3>3
  <2> QED
    BY <1>2, <1>3, <1>7, <2>1 DEF SaveProgress
<1>14. Contents'
  <2> SUFFICES ASSUME Undisturbed' PROVE Contents'
    BY DEF Contents
  <2>1. \A c \in Clients : \E k \in 0..client'[c].sent : HoldsFirst(file'.rules, c, k)
    BY <1>3, <1>5, <1>12 DEF IInv, Contents
  <2>2. "power" \in marks'
    BY <1>1
  <2> QED
    BY <1>2, <2>1, <2>2 DEF Contents
<1> QED
  BY <1>9, <1>10, <1>11, <1>13, <1>14 DEF IInv

-----------------------------------------------------------------------------
(* The theorems. *)

\* Every step keeps the invariant.
LEMMA NextIInv == IInv /\ [Next]_vars => IInv'
<1> SUFFICES ASSUME IInv, [Next]_vars PROVE IInv'
  OBVIOUS
<1>1. ASSUME NEW c \in Clients,
             Connect(c) \/ Send(c) \/ ReadAnswer(c) \/ GiveUp(c) \/ ReadFails(c)
      PROVE  IInv'
  BY <1>1, ConnectIInv, SendIInv, ReadAnswerIInv, LeaveIInv, FrameIInv DEF GiveUp
<1>2. ASSUME NEW c \in Clients, Serve(c) PROVE IInv'
  BY <1>2, FrameIInv, LockIInv, SaveCreateIInv, SaveWriteIInv, SaveRenameIInv,
     SaveFailsIInv
  DEF Serve, Save
<1>3. ASSUME NEW d \in Daemons, Starting(d) \/ Kill(d) PROVE IInv'
  BY <1>3, LoadIInv, ProbeIInv, RemoveIInv, BindIInv, KillIInv DEF Starting
<1>4. CASE Sweep \/ FlushDisk \/ PowerLoss
  BY <1>4, SweepIInv, FlushIInv, PowerLossIInv
<1>5. CASE UNCHANGED vars
  <2>1. UNCHANGED <<store, client, conn, daemon, lock, sock, faults, marks>>
    BY <1>5 DEF vars
  <2>2. TypeOK' /\ Talk' /\ Power'
    BY <2>1 DEF IInv, TypeOK, Talk, Power, store
  <2>3. Quiet
    BY <2>1 DEF Quiet, store, Undisturbed, Alone, Pending, Confirmed
  <2> QED
    BY <2>1, <2>2, <2>3, ClientOnly, QuietContents DEF IInv
<1> QED
  BY <1>1, <1>2, <1>3, <1>4, <1>5 DEF Next

\* The invariant of the commands, the daemons and the rules file.
THEOREM Invariance == Spec => []IInv
BY InitIInv, NextIInv, PTL DEF Spec

\* The variables hold values of their kinds, a command sends no more calls than
\* it has rules, and a mutex is held exactly by a connection that is saving.
THEOREM TypeCorrect == Spec => []TypeOK
<1>1. IInv => TypeOK
  BY DEF IInv
<1> QED
  BY <1>1, Invariance, PTL

\* What a command was told about its rules is true of the file, for any number
\* of commands, rules, daemons, crashes, power losses and failing calls, until a
\* daemon saves that lacked rules of the file.
THEOREM AnswersStayTrue == Spec => []AnswersAreTrue
<1>1. IInv => AnswersAreTrue
  <2> SUFFICES ASSUME IInv, Undisturbed, NEW c \in Clients
               PROVE  \E k \in 0..client[c].sent :
                        /\ HoldsFirst(file.rules, c, k)
                        /\ "power" \in marks \/ k >= client[c].oks
    BY DEF AnswersAreTrue
  <2>1. CASE "power" \in marks
    BY <2>1 DEF IInv, Contents
  <2>2. CASE "power" \notin marks
    <3>1. PICK k \in client[c].oks..client[c].sent : HoldsFirst(file.rules, c, k)
      BY <2>2 DEF IInv, Contents, Current, Agrees
    <3>2. k \in 0..client[c].sent /\ k >= client[c].oks
      BY DEF IInv, TypeOK, ClientType
    <3> QED
      BY <3>1, <3>2
  <2> QED
    BY <2>1, <2>2
<1> QED
  BY <1>1, Invariance, PTL

\* The rules file is never seen half-written.
THEOREM FileStaysWhole == Spec => []FileIsWhole
<1>1. IInv => FileIsWhole
  BY DEF IInv, SaveProgress, FileIsWhole
<1> QED
  BY <1>1, Invariance, PTL

\* No leftover of a crash makes a later save fail.
THEOREM LeftoversDoNotMatter == Spec => []NoLeftoverError
<1>1. IInv => NoLeftoverError
  <2> SUFFICES ASSUME IInv, Alone, "kept" \notin marks, NEW c \in Clients, Obstructed(c)
               PROVE  FALSE
    BY DEF NoLeftoverError
  <2>1. conn[c].st = "rename" /\ tmp = NoFile
    BY DEF IInv, SaveProgress, Obstructed, CanCreate, CanRename
  <2>2. tmp.whole
    BY <2>1 DEF IInv, SaveProgress
  <2> QED
    BY <2>1, <2>2 DEF NoFile
<1> QED
  BY <1>1, Invariance, PTL

\* One daemon serves, and the socket leads to it.
THEOREM OneServes == Spec => []OneDaemonServes
<1>1. IInv => OneDaemonServes
  <2> SUFFICES ASSUME IInv, Alone
               PROVE  Cardinality(Serving) <= 1 /\ \A d \in Serving : sock = d
    BY DEF OneDaemonServes
  <2>1. \A d \in Serving : sock = d
    BY DEF IInv, OneSocket, Serving
  <2>2. Serving \in SUBSET {sock}
    BY <2>1
  <2>3. IsFiniteSet({sock}) /\ Cardinality({sock}) = 1
    BY FS_Singleton
  <2>4. Cardinality(Serving) <= Cardinality({sock})
    BY <2>2, <2>3, FS_Subset
  <2> QED
    BY <2>1, <2>3, <2>4
<1> QED
  BY <1>1, Invariance, PTL
=============================================================================
