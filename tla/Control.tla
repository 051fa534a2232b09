------------------------------- MODULE Control -------------------------------
(***************************************************************************)
(* The control protocol: `moatd allow/deny/reject` commands, the daemon's  *)
(* connections, its mutex and its rules file, and the start of daemons     *)
(* around the control socket.                                              *)
(*                                                                         *)
(* A command sends one AddRule after the other, each on a connection of    *)
(* its own (an app profile has several rules), and stops at the first that *)
(* is not answered Ok.  A rule stands for the command and the call it came *)
(* from.  Clients stop, stall, time out or die; a daemon may be killed     *)
(* anywhere and started again, also while another one runs.  The maps are  *)
(* RuleSync's: here sync_all succeeds or not.  SIGTERM lets a save that    *)
(* runs finish, which a kill at a later point covers.                      *)
(***************************************************************************)
EXTENDS Store, FiniteSets

CONSTANTS
  Commands,   \* command |-> number of rules it adds
  Service,    \* the daemon systemd restarts; others are started by hand
  MaxFaults   \* bound on kills, power losses, failing calls and starts by hand

Clients == DOMAIN Commands

ASSUME ControlAssumption ==
  /\ Service \in Daemons /\ "stale" \notin Daemons
  /\ Commands \in [Clients -> Nat \ {0}] /\ "none" \notin Clients
  /\ MaxFaults \in Nat

VARIABLES
  client,   \* per command: pc, calls sent, calls answered Ok
  conn,     \* per command: its latest connection, seen from the daemon
  daemon,   \* per daemon: pc and, once loaded, on_disk.rules; late: it did not
            \* have the rules of the file when it began to serve
  lock,     \* per daemon: the client whose request holds the mutex, or "none"
  sock,     \* control.sock: "none", "stale" or the daemon that listens on it
  faults,   \* bounded counter
  marks     \* history: what has gone wrong so far

vars == <<store, client, conn, daemon, lock, sock, faults, marks>>

Off == [pc |-> "off", rules |-> <<>>, late |-> FALSE]
Ended(d) == IF d = Service THEN [Off EXCEPT !.pc = "ended"] ELSE Off
NoConn == [at |-> "none", st |-> "closed", resp |-> "none"]

Alive(d) == daemon[d].pc \notin {"off", "ended"}

Init ==
  /\ StoreInit
  /\ client = [c \in Clients |-> [pc |-> "start", sent |-> 0, oks |-> 0]]
  /\ conn = [c \in Clients |-> NoConn]
  /\ daemon = [d \in Daemons |-> Off]
  /\ lock = [d \in Daemons |-> "none"]
  /\ sock = "none"
  /\ faults = 0 /\ marks = {}

\* Nobody started a second daemon at the wrong moment: between the probe and the
\* bind of the first, or so that systemd took away the socket of the first ...
Alone == marks \cap {"raced", "swept"} = {}

\* ... and no daemon has saved that lacked rules of the file: it could not read
\* the file when it started, or the file was changed before it served.
Undisturbed == Alone /\ "outdated" \notin marks

\* (Bound: after two daemons have disturbed each other only kills are followed.)
Crash == faults < MaxFaults /\ faults' = faults + 1
Fault == Alone /\ Crash

-----------------------------------------------------------------------------
(* The command: add and call *)

SetClient(c, p) == client' = [client EXCEPT ![c].pc = p]

\* connect(): refused without a listener.  The loop of run_daemon accepts every
\* connection and gives it a task of its own.  (Bound: once systemd has
\* swept a socket away nobody connects after the first call, and nobody after a
\* race or a save that lost rules.)
Connect(c) ==
  /\ client[c].pc = "start"
  /\ Undisturbed \/ (marks = {"swept"} /\ \A o \in Clients : client[o].sent = 0)
  /\ IF sock \in Daemons
     THEN /\ SetClient(c, "writing")
          /\ conn' = [conn EXCEPT ![c] = [at |-> sock, st |-> "reading", resp |-> "none"]]
     ELSE SetClient(c, "failed") /\ UNCHANGED conn
  /\ UNCHANGED <<store, daemon, lock, sock, faults, marks>>

\* The whole frame is written.  A client may stall before this and never do it.
Send(c) ==
  /\ client[c].pc = "writing"
  /\ client' = [client EXCEPT ![c].pc = "waiting", ![c].sent = @ + 1]
  /\ UNCHANGED <<store, conn, daemon, lock, sock, faults, marks>>

\* Mutant: an Err does not end the command.
NextCall_GoOn(c) ==
  LET n == client[c].oks + 1
  IN  client' = [client EXCEPT ![c].pc = IF client[c].sent = Commands[c] THEN "done" ELSE "start",
                               ![c].oks = IF conn[c].resp = "ok" THEN n ELSE @]

\* What add does with the answer: the next rule, the end, or an error.
NextCall(c) ==
  IF conn[c].resp # "ok" THEN SetClient(c, "failed")
  ELSE LET n == client[c].oks + 1
       IN  client' = [client EXCEPT ![c].oks = n,
                        ![c].pc = IF n = Commands[c] THEN "done" ELSE "start"]

\* The answer, or the end of the stream, is read.
ReadAnswer(c) ==
  /\ client[c].pc = "waiting" /\ conn[c].st = "closed"
  /\ NextCall(c)
  /\ UNCHANGED <<store, conn, daemon, lock, sock, faults, marks>>

\* A timeout of five seconds, or the operator kills the command.
GiveUp(c) ==
  /\ client[c].pc \in {"writing", "waiting"}
  /\ SetClient(c, "failed")
  /\ UNCHANGED <<store, conn, daemon, lock, sock, faults, marks>>

-----------------------------------------------------------------------------
(* The daemon: accept, serve_client and dispatch *)

Saving == {"create", "write", "rename"}
SetConn(c, s) == conn' = [conn EXCEPT ![c].st = s]
Sent(c) == client[c].sent > client[c].oks

\* Mutant: serve_client is awaited in the accept loop, not spawned.
ReadFrame_Serial(c) ==
  /\ conn[c].st = "reading" /\ Sent(c)
  /\ \A o \in Clients \ {c} : conn[o].at # conn[c].at
  /\ SetConn(c, "queued")
  /\ UNCHANGED <<store, client, daemon, lock, sock, faults, marks>>

ReadFrame(c) ==
  /\ conn[c].st = "reading" /\ Sent(c)
  /\ SetConn(c, "queued")
  /\ UNCHANGED <<store, client, daemon, lock, sock, faults, marks>>

\* No frame within five seconds, or the client hung up.
ReadFails(c) ==
  /\ conn[c].st = "reading"
  /\ conn' = [conn EXCEPT ![c] = NoConn]
  /\ UNCHANGED <<store, client, daemon, lock, sock, faults, marks>>

\* dispatch locks, add_rule pushes the rule, and save begins: what an earlier
\* save left in the directory is removed, unless the disk refuses.
Lock(c) ==
  LET d == conn[c].at
  IN  /\ conn[c].st = "queued" /\ lock[d] = "none"
      /\ lock' = [lock EXCEPT ![d] = c]
      /\ daemon' = [daemon EXCEPT ![d].rules = Append(@, <<c, client[c].oks + 1>>)]
      /\ SetConn(c, "create")
      /\ \/ tmp' = AfterRemove(TRUE) /\ UNCHANGED <<faults, marks>>
         \/ /\ "save" \in Faults /\ tmp # NoFile /\ Fault
            /\ tmp' = AfterRemove(FALSE) /\ marks' = marks \cup {"kept"}
      /\ UNCHANGED <<file, older, client, sock>>

\* add_rule refuses the rule before it changes anything: the list is full or the
\* name of the interface is invalid.  (RuleSync says when.)
Refuse(c) ==
  /\ conn[c].st = "queued" /\ lock[conn[c].at] = "none"
  /\ conn' = [conn EXCEPT ![c] = [at |-> conn[c].at, st |-> "reply", resp |-> "err"]]
  /\ UNCHANGED <<store, client, daemon, lock, sock, faults, marks>>

\* Mutant: the guard lives until serve_client returns.
Answer_KeepsLock(c, r) ==
  /\ UNCHANGED lock
  /\ conn' = [conn EXCEPT ![c] = [at |-> conn[c].at, st |-> "reply", resp |-> r]]

\* The guard drops as dispatch returns.
Answer(c, r) ==
  /\ lock' = [lock EXCEPT ![conn[c].at] = "none"]
  /\ conn' = [conn EXCEPT ![c] = [at |-> conn[c].at, st |-> "reply", resp |-> r]]

\* The steps of store::save.  No step awaits anything.
SaveCreate(c) ==
  /\ conn[c].st = "create" /\ CanCreate
  /\ Create(conn[c].at, daemon[conn[c].at].rules)
  /\ SetConn(c, "write")
  /\ UNCHANGED <<client, daemon, lock, sock, faults, marks>>

SaveWrite(c) ==
  /\ conn[c].st = "write"
  /\ \/ WriteAndSync(conn[c].at, "yes") /\ UNCHANGED faults
     \/ "sync" \in Faults /\ Fault /\ WriteAndSync(conn[c].at, "lost")
  /\ SetConn(c, "rename")
  /\ UNCHANGED <<client, daemon, lock, sock, marks>>

\* The rename, and sync_all(state) after it.  What another daemon has loaded by
\* now is out of date; what a late one saves lacks rules of the file.
SaveRename(c) ==
  LET d == conn[c].at
  IN  /\ conn[c].st = "rename" /\ CanRename
      /\ Rename
      /\ daemon' = [x \in Daemons |-> IF x # d /\ daemon[x].pc \in {"probe", "remove", "bind"}
                                      THEN [daemon[x] EXCEPT !.late = TRUE] ELSE daemon[x]]
      /\ \/ Answer(c, "ok") /\ UNCHANGED faults
         \/ "maps" \in Faults /\ Fault /\ Answer(c, "err")
      /\ marks' = IF daemon[d].late THEN marks \cup {"outdated"} ELSE marks
      /\ UNCHANGED <<client, sock>>

\* The disk refuses a step of save; the rule stays in memory.
SaveRefused(c) ==
  /\ conn[c].st \in Saving /\ "save" \in Faults
  /\ Fault
  /\ Answer(c, "err")
  /\ Abandon(conn[c].at)
  /\ UNCHANGED <<client, daemon, sock, marks>>

\* create_new or rename fails because of what the directory holds.
Obstructed(c) ==
  \/ conn[c].st = "create" /\ ~CanCreate
  \/ conn[c].st = "rename" /\ ~CanRename

SaveFails(c) ==
  /\ Obstructed(c)
  /\ Answer(c, "err")
  /\ UNCHANGED <<store, client, daemon, sock, faults, marks>>

\* write_frame and the end of serve_client: nobody reads it if the client left.
Reply(c) ==
  /\ conn[c].st = "reply"
  /\ conn' = [conn EXCEPT ![c] = [NoConn EXCEPT !.resp = conn[c].resp]]
  /\ UNCHANGED <<store, client, daemon, lock, sock, faults, marks>>

Save(c) ==
  SaveCreate(c) \/ SaveWrite(c) \/ SaveRename(c)
    \/ SaveRefused(c) \/ SaveFails(c)
Serve(c) == ReadFrame(c) \/ Lock(c) \/ Refuse(c) \/ Save(c) \/ Reply(c)

-----------------------------------------------------------------------------
(* The start of a daemon: run_daemon up to its loop, bind_control_socket *)

Serving == {d \in Daemons : daemon[d].pc = "serving"}

\* The rules are loaded, and synchronised, long before the socket is probed.
LoadRules(d) ==
  /\ ~Alive(d)
  /\ \E s \in Loaded :
       daemon' = [daemon EXCEPT ![d] = [pc |-> "probe", rules |-> s, late |-> FALSE]]
  /\ IF d = Service THEN UNCHANGED faults ELSE Fault
  /\ UNCHANGED <<store, client, conn, lock, sock, marks>>

\* A file that cannot be read is only warned about: the daemon goes on with the
\* defaults, which have no rules.
LoadFails(d) ==
  /\ ~Alive(d) /\ "load" \in Faults
  /\ Fault
  /\ daemon' = [daemon EXCEPT ![d] = [pc |-> "probe", rules |-> <<>>, late |-> TRUE]]
  /\ UNCHANGED <<store, client, conn, lock, sock, marks>>

\* Mutant: whatever is at the path is taken for stale.
Probe_NoConnect(d) ==
  /\ daemon[d].pc = "probe"
  /\ daemon' = [daemon EXCEPT ![d].pc = IF sock = "none" THEN "bind" ELSE "remove"]
  /\ UNCHANGED <<store, client, conn, lock, sock, faults, marks>>

\* Mutant: a socket file in the way always ends the start.
Probe_NeverStale(d) ==
  /\ daemon[d].pc = "probe"
  /\ daemon' = [daemon EXCEPT ![d] = IF sock = "none" THEN [@ EXCEPT !.pc = "bind"] ELSE Ended(d)]
  /\ UNCHANGED <<store, client, conn, lock, sock, faults, marks>>

\* Two daemons between their probe and their bind, at the same time.
Racing(d) == \E x \in Daemons \ {d} : daemon[x].pc \in {"remove", "bind"}

\* connect() to the path: accepted means that another moatd runs, refused that
\* nobody listens any more.
Probe(d) ==
  /\ daemon[d].pc = "probe"
  /\ daemon' = [daemon EXCEPT ![d] = CASE sock = "none" -> [@ EXCEPT !.pc = "bind"]
                                       [] sock = "stale" -> [@ EXCEPT !.pc = "remove"]
                                       [] OTHER -> Ended(d)]
  /\ marks' = IF Racing(d) /\ sock \notin Daemons THEN marks \cup {"raced"} ELSE marks
  /\ UNCHANGED <<store, client, conn, lock, sock, faults>>

\* remove_file, whatever is at the path by now; nothing there ends the start.
RemoveSocket(d) ==
  /\ daemon[d].pc = "remove"
  /\ daemon' = [daemon EXCEPT ![d] = IF sock = "none" THEN Ended(d) ELSE [@ EXCEPT !.pc = "bind"]]
  /\ sock' = "none"
  /\ UNCHANGED <<store, client, conn, lock, faults, marks>>

Bind(d) ==
  /\ daemon[d].pc = "bind"
  /\ IF sock = "none"
     THEN daemon' = [daemon EXCEPT ![d].pc = "serving"] /\ sock' = d
     ELSE daemon' = [daemon EXCEPT ![d] = Ended(d)] /\ UNCHANGED sock
  /\ UNCHANGED <<store, client, conn, lock, faults, marks>>

Starting(d) == LoadRules(d) \/ LoadFails(d) \/ Probe(d) \/ RemoveSocket(d) \/ Bind(d)

-----------------------------------------------------------------------------
(* Faults *)

\* The open connections of dead daemons end; an answer already written is read.
Reset(dead) ==
  conn' = [c \in Clients |-> IF conn[c].at \in dead THEN NoConn ELSE conn[c]]

\* A daemon is killed or stopped.  Its socket file stays.
Kill(d) ==
  /\ Alive(d)
  /\ Crash
  /\ daemon' = [daemon EXCEPT ![d] = Ended(d)]
  /\ lock' = [lock EXCEPT ![d] = "none"]
  /\ Reset({d})
  /\ Abandon(d)
  /\ sock' = IF sock = d THEN "stale" ELSE sock
  /\ UNCHANGED <<client, marks>>

\* systemd may remove the runtime directory of a service that has ended or
\* failed to start, with whatever socket is in it.
Sweep ==
  /\ daemon[Service].pc = "ended" /\ sock # "none"
  /\ sock' = "none"
  /\ marks' = IF sock \in Daemons THEN marks \cup {"swept"} ELSE marks
  /\ UNCHANGED <<store, client, conn, daemon, lock, faults>>

\* /run is gone after a power loss, and so are the commands.
PowerLoss ==
  /\ Fault
  /\ LosePower
  /\ client' = [c \in Clients |-> IF client[c].pc = "done" THEN client[c]
                                  ELSE [client[c] EXCEPT !.pc = "failed"]]
  /\ Reset(Daemons)
  /\ daemon' = [d \in Daemons |-> Off]
  /\ lock' = [d \in Daemons |-> "none"]
  /\ sock' = "none"
  /\ marks' = marks \cup (IF \E f \in older : f.synced = "lost"
                         THEN {"power", "unsynced"} ELSE {"power"})

\* (Bound: not once the faults are used up: only a power loss tells the difference.)
FlushDisk ==
  /\ faults < MaxFaults
  /\ Writeback
  /\ UNCHANGED <<client, conn, daemon, lock, sock, faults, marks>>

-----------------------------------------------------------------------------
Next ==
  \/ \E c \in Clients :
       Connect(c) \/ Send(c) \/ ReadAnswer(c) \/ GiveUp(c) \/ ReadFails(c) \/ Serve(c)
  \/ \E d \in Daemons : Starting(d) \/ Kill(d)
  \/ Sweep \/ FlushDisk \/ PowerLoss

\* The daemon's tasks run; systemd starts its service again after a failure.
\* Nothing is assumed of clients, of timeouts or of daemons started by hand.
Fairness ==
  /\ \A c \in Clients : WF_vars(Serve(c))
  /\ WF_vars(Starting(Service))

Spec == Init /\ [][Next]_vars /\ Fairness

-----------------------------------------------------------------------------
Rules == {r \in Clients \X Nat : r[2] \in 1..Commands[r[1]]}
FileType == [rules : Seq(Rules), whole : BOOLEAN, synced : {"yes", "no", "lost"},
             open : Daemons \cup {"none"}]
ClientType == [pc : {"start", "writing", "waiting", "done", "failed"}, sent : Nat, oks : Nat]
ConnType == [at : Daemons \cup {"none"}, resp : {"none", "ok", "err"},
             st : Saving \cup {"closed", "reading", "queued", "reply"}]
DaemonType == [pc : {"off", "ended", "probe", "remove", "bind", "serving"},
               rules : Seq(Rules), late : BOOLEAN]

\* Every variable has its type; a command sends no more than its rules; a mutex
\* is held by a connection to that daemon which is writing the file.
TypeOK ==
  /\ file \in FileType /\ tmp \in FileType /\ older \subseteq FileType
  /\ client \in [Clients -> ClientType]
  /\ conn \in [Clients -> ConnType]
  /\ daemon \in [Daemons -> DaemonType]
  /\ lock \in [Daemons -> Clients \cup {"none"}]
  /\ \A c \in Clients :
       /\ client[c].oks <= client[c].sent /\ client[c].sent <= Commands[c]
       /\ conn[c].st \in Saving <=> conn[c].at # "none" /\ lock[conn[c].at] = c
  /\ sock \in Daemons \cup {"none", "stale"}
  /\ faults \in 0..MaxFaults
  /\ marks \subseteq {"unsynced", "raced", "outdated", "swept", "power", "kept"}

-----------------------------------------------------------------------------
(* What a list of rules holds of one command. *)

\* The numbers of c's rules in s, in the order of s, are 1, 2, ..., k.
HoldsFirst(s, c, k) ==
  /\ \A n \in 1..k : \E i \in DOMAIN s : s[i] = <<c, n>>
  /\ \A i \in DOMAIN s : s[i][1] = c => s[i][2] \in 1..k
  /\ \A i, j \in DOMAIN s :
       i < j /\ s[i][1] = c /\ s[j][1] = c => s[i][2] < s[j][2]

\* What a command was told is what happened: the rules of the file that stem
\* from it are its first ones, in order and once each; all those answered Ok
\* are there, across crashes and restarts (not across a power loss), and none
\* that it has not asked for.  So a profile that failed half-way has been added
\* up to, or up to and including, the call that failed.  Until a daemon saves
\* that lacked rules of the file: one that could not read it goes on with the
\* defaults, and its first save replaces all the rules that were confirmed.
AnswersAreTrue ==
  Undisturbed =>
    \A c \in Clients :
      \E k \in 0..client[c].sent :
        /\ HoldsFirst(file.rules, c, k)
        /\ "power" \in marks \/ k >= client[c].oks

\* The rules file is never half-written, whenever the process dies or the power
\* fails, if sync_all did what it says.
FileIsWhole == Alone /\ "unsynced" \notin marks => file.whole

\* Nothing that an earlier crash or failure left in the directory makes a save
\* fail: create_new finds no file in its way, rename finds the one it wrote,
\* unless the disk refused to remove a leftover.
NoLeftoverError ==
  Alone /\ "kept" \notin marks => \A c \in Clients : ~Obstructed(c)

\* One daemon serves at a time, and the socket leads to it, unless two starts
\* came between each other's probe and bind or systemd removed the socket.
OneDaemonServes ==
  Alone =>
    Cardinality(Serving) <= 1 /\ \A d \in Serving : sock = d

\* A complete request is always worked off, although other clients may stall
\* for good and no timeout need ever fire.
NobodyBlocksARequest ==
  \A c \in Clients :
    conn[c].st = "reading" /\ Sent(c) ~> conn[c].st \in {"reply", "closed"}

\* After the last crash somebody listens on the socket again, and for good: a
\* stale socket file does not keep the service from starting.
ServiceComesBack == <>[]("raced" \in marks \/ sock \in Daemons)
=============================================================================
