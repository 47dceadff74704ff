----------------------------- MODULE HangUpProofs -----------------------------
(***************************************************************************)
(* What a hang-up meets.  The descriptors of the two links, through every  *)
(* collision: each open one has at most one owner, so none is closed       *)
(* twice.  And, as long as there was no collision: the pointer to a        *)
(* receive thread is not touched under a hang-up, so that none is deleted  *)
(* while it runs; nothing open is lost track of; a carrier has its link.   *)
(***************************************************************************)
EXTENDS CallSessionProofs

-----------------------------------------------------------------------------
(* Descriptors.                                                            *)

\* Those who may be about to close a descriptor, or to publish or read one:
\* the bulk OUT thread in connect(), the listen thread, the hang-up and the
\* variables of the two links.
Owner == {"dial", "listen", "hang", "sock", "pty"}

OutHas == {"connect", "publish"}
LsnHas == {"check", "refuse", "publish"}

DialHolds == IF out.pc \in OutHas THEN out.fd ELSE NoFd
ListenHolds == IF lsn.pc \in LsnHas THEN lsn.fd ELSE NoFd
HangHolds == IF hang.pc = "close" THEN hang.fd ELSE NoFd
\* The variable of a link keeps the number a hang-up has taken over, and does
\* not count until it was set to 0.
LinkHolds(k) ==
  IF hang.link = k /\ (hang.pc = "zero" \/ (hang.pc = "close" /\ hang.fd = linkFd[k]))
  THEN NoFd ELSE linkFd[k]

Holds(o) == IF o = "dial" THEN DialHolds
            ELSE IF o = "listen" THEN ListenHolds
            ELSE IF o = "hang" THEN HangHolds ELSE LinkHolds(o)

Holders == [o \in Owner |-> Holds(o)]

\* In descriptor table t, what each owner holds is open, and nobody else's.
Apart(t, h) ==
  \A o \in Owner : h[o] # NoFd =>
    /\ h[o] \in Fd /\ t[h[o]] # NoConn
    /\ \A p \in Owner : p # o => h[p] # h[o]

OneOwner == Apart(fdTab, Holders)

\* The two threads that open a descriptor know what they opened, and a
\* hang-up closes none but an open one.
Named ==
  /\ out.pc \in OutHas =>
       out.fd \in Fd /\ out.conn \in Conn /\ fdTab[out.fd] = out.conn
  /\ lsn.pc \in LsnHas =>
       lsn.fd \in Fd /\ lsn.conn \in Conn /\ fdTab[lsn.fd] = lsn.conn
  /\ hang.pc = "close" => hang.fd \in Fd

\* Standard input is none of the descriptors, and no connection none.
LEMMA Apartness == NoFd \notin Fd /\ NoConn \notin Conn
  BY SMT DEF NoFd, Fd, NoConn, Conn

\* Who lets go of a descriptor, disturbs nobody.
LEMMA KeepApart ==
  ASSUME NEW t, NEW h, NEW g, Apart(t, h),
         \A o \in Owner : g[o] \in {h[o], NoFd}
  PROVE  Apart(t, g)
  BY SMT DEF Apart

\* A descriptor is handed over.
LEMMA MoveApart ==
  ASSUME NEW t, NEW h, NEW g, Apart(t, h), NEW a \in Owner, NEW b \in Owner,
         a # b, g[a] = NoFd, g[b] \in {h[a], NoFd},
         \A o \in Owner \ {a, b} : g[o] \in {h[o], NoFd}
  PROVE  Apart(t, g)
  BY SMT DEF Apart

\* One is opened.
LEMMA OpenApart ==
  ASSUME NEW t \in [Fd -> Conn \cup {NoConn}], NEW h, NEW g, Apart(t, h), NEW a \in Owner,
         NEW f \in Fd, t[f] = NoConn, NEW c \in Conn, g[a] = f,
         \A o \in Owner \ {a} : g[o] \in {h[o], NoFd}
  PROVE  Apart([t EXCEPT ![f] = c], g)
  BY Apartness, SMT DEF Apart

\* One is closed by its owner.
LEMMA CloseApart ==
  ASSUME NEW t \in [Fd -> Conn \cup {NoConn}], NEW h, NEW g, Apart(t, h), NEW a \in Owner,
         h[a] \in Fd, g[a] = NoFd,
         \A o \in Owner \ {a} : g[o] \in {h[o], NoFd}
  PROVE  Apart([t EXCEPT ![h[a]] = NoConn], g)
  BY Apartness, SMT DEF Apart

\* Step in which nothing becomes of a descriptor: what a thread holds it goes
\* on holding, or lets go.
OutKeeps == out'.pc \in OutHas => out.pc \in OutHas /\ out'.fd = out.fd /\ out'.conn = out.conn
LsnKeeps == lsn'.pc \in LsnHas => lsn.pc \in LsnHas /\ lsn'.fd = lsn.fd /\ lsn'.conn = lsn.conn
HangKeeps == \/ hang' = hang
             \/ hang.pc \notin {"close", "zero"} /\ hang'.pc \notin {"close", "zero"}

\* What the two threads and an untouched link hold afterwards.
LEMMA StillHeld ==
  /\ OutKeeps => Holders'["dial"] \in {Holders["dial"], NoFd}
  /\ LsnKeeps => Holders'["listen"] \in {Holders["listen"], NoFd}
  /\ HangKeeps => Holders'["hang"] \in {Holders["hang"], NoFd}
  /\ \A k \in Link : HangKeeps /\ linkFd'[k] = linkFd[k] =>
       Holders'[k] \in {Holders[k], NoFd}
<1>1. ASSUME OutKeeps PROVE Holders'["dial"] \in {Holders["dial"], NoFd}
  BY <1>1, SMT DEF OutKeeps, Holders, Owner, Holds, DialHolds
<1>2. ASSUME LsnKeeps PROVE Holders'["listen"] \in {Holders["listen"], NoFd}
  BY <1>2, SMT DEF LsnKeeps, Holders, Owner, Holds, ListenHolds
<1>3. ASSUME HangKeeps PROVE Holders'["hang"] \in {Holders["hang"], NoFd}
  BY <1>3, SMT DEF HangKeeps, Holders, Owner, Holds, HangHolds
<1>4. ASSUME NEW k \in Link, HangKeeps, linkFd'[k] = linkFd[k]
      PROVE  Holders'[k] \in {Holders[k], NoFd}
  BY <1>4, SMT DEF HangKeeps, Holders, Owner, Holds, LinkHolds, Link
<1> QED BY <1>1, <1>2, <1>3, <1>4

\* Nothing becomes of any descriptor.
LEMMA QuietStep ==
  ASSUME OneOwner, Named, UNCHANGED <<fdTab, linkFd>>, OutKeeps, LsnKeeps, HangKeeps
  PROVE  OneOwner' /\ Named'
<1>1. \A o \in Owner : Holders'[o] \in {Holders[o], NoFd}
  BY StillHeld, SMT DEF Owner, Link
<1>2. Apart(fdTab, Holders')
  BY <1>1, KeepApart DEF OneOwner
<1>3. OneOwner'
  BY <1>2 DEF OneOwner
<1>4. Named'
  BY SMT DEF Named, OutKeeps, LsnKeeps, HangKeeps
<1> QED BY <1>3, <1>4

\* The hang-up takes over the descriptor of a link, closes it and clears the
\* variable.
LEMMA HangUpKeepsOwners ==
  ASSUME TypeOK, OneOwner, Named, Disconnect, UNCHANGED lsn
  PROVE  OneOwner' /\ Named'
<1>0. /\ OutKeeps /\ LsnKeeps /\ hang \in HangType /\ hang.link \in Link
      /\ linkFd \in [Link -> Fd \cup {NoFd}] /\ fdTab \in [Fd -> Conn \cup {NoConn}]
  <2>1. UNCHANGED out
    BY Zenon DEF Disconnect, DisconnectLoad, DisconnectClose, DisconnectZero,
       DisconnectThread, DisconnectJoin, DisconnectDelete, DisconnectNull
  <2> QED BY <2>1, Zenon DEF TypeOK, HangType, OutKeeps, LsnKeeps
<1>1. CASE DisconnectLoad
  <2>1. CASE linkFd[hang.link] = NoFd
    <3>1. NextLink.pc \in {"check", "idle"}
      BY <1>0, Zenon DEF NextLink, HangType
    <3>2. HangKeeps
      BY <1>1, <2>1, <3>1, Zenon DEF DisconnectLoad, HangKeeps
    <3> QED BY <1>0, <1>1, <3>2, QuietStep DEF DisconnectLoad, linkVars
  <2>2. CASE linkFd[hang.link] # NoFd
    <3> DEFINE k == hang.link
    <3>1. /\ hang.pc = "check" /\ hang'.pc = "close" /\ hang'.fd = linkFd[k]
          /\ hang'.link = k /\ UNCHANGED <<fdTab, linkFd, out, lsn>>
      BY <1>0, <1>1, <2>2, SMT DEF DisconnectLoad, HangType, linkVars
    <3>2. Holders'[k] = NoFd /\ Holders'["hang"] = Holders[k]
      BY <1>0, <3>1, SMT DEF Holders, Owner, Holds, LinkHolds, HangHolds, Link
    <3>3. \A j \in Link \ {k} : Holders'[j] = Holders[j]
      BY <3>1, SMT DEF Holders, Owner, Holds, LinkHolds, Link
    <3>4. k \in Owner /\ "hang" \in Owner /\ k # "hang"
      BY <1>0, SMT DEF Owner, Link
    <3>5. \A o \in Owner \ {k, "hang"} : Holders'[o] \in {Holders[o], NoFd}
      BY <1>0, <3>3, StillHeld, SMT DEF Owner, Link
    <3>6. Apart(fdTab, Holders')
      BY <3>2, <3>4, <3>5, MoveApart DEF OneOwner
    <3>7. OneOwner'
      BY <3>1, <3>6 DEF OneOwner
    <3>8. linkFd[k] \in Fd
      BY <1>0, <2>2, SMT
    <3>9. Named'
      BY <3>1, <3>8, SMT DEF Named
    <3> QED BY <3>7, <3>9
  <2> QED BY <2>1, <2>2
<1>2. CASE DisconnectClose
  <2>1. /\ hang.pc = "close" /\ hang'.pc = "zero" /\ hang'.link = hang.link
        /\ fdTab' = [fdTab EXCEPT ![hang.fd] = NoConn] /\ UNCHANGED <<linkFd, out, lsn>>
    BY <1>0, <1>2, SMT DEF DisconnectClose, HangType, CloseFd
  <2>2. hang.fd \in Fd /\ Holders["hang"] = hang.fd /\ Holders'["hang"] = NoFd
    BY <2>1, SMT DEF Named, Holders, Owner, Holds, HangHolds
  <2>3. \A j \in Link : Holders'[j] \in {Holders[j], NoFd}
    BY <2>1, SMT DEF Holders, Owner, Holds, LinkHolds, Link
  <2>4. \A o \in Owner \ {"hang"} : Holders'[o] \in {Holders[o], NoFd}
    BY <1>0, <2>3, StillHeld, SMT DEF Owner, Link
  <2>5. "hang" \in Owner
    BY DEF Owner
  <2>6. Apart(fdTab', Holders')
    BY <1>0, <2>1, <2>2, <2>4, <2>5, CloseApart DEF OneOwner
  <2>7. \A p \in Owner : p # "hang" => Holders[p] # hang.fd
    BY <2>2, <2>5, Apartness, SMT DEF OneOwner, Apart
  <2>8. (out.pc \in OutHas => out.fd # hang.fd) /\ (lsn.pc \in LsnHas => lsn.fd # hang.fd)
    BY <2>7, SMT DEF Holders, Owner, Holds, DialHolds, ListenHolds
  <2>9. Named'
    BY <1>0, <2>1, <2>8, SMT DEF Named
  <2> QED BY <2>6, <2>9 DEF OneOwner
<1>3. CASE DisconnectZero
  <2>1. /\ hang.pc = "zero" /\ hang'.pc = "thread" /\ hang'.link = hang.link
        /\ linkFd' = [linkFd EXCEPT ![hang.link] = NoFd] /\ UNCHANGED <<fdTab, out, lsn>>
    BY <1>0, <1>3, SMT DEF DisconnectZero, HangType
  <2>2. Holders'["hang"] = NoFd /\ \A j \in Link : Holders'[j] \in {Holders[j], NoFd}
    BY <1>0, <2>1, SMT DEF Holders, Owner, Holds, LinkHolds, HangHolds, Link
  <2>3. \A o \in Owner : Holders'[o] \in {Holders[o], NoFd}
    BY <1>0, <2>2, StillHeld, SMT DEF Owner, Link
  <2>4. Apart(fdTab, Holders')
    BY <2>3, KeepApart DEF OneOwner
  <2>5. Named'
    BY <2>1, SMT DEF Named
  <2> QED BY <2>1, <2>4, <2>5 DEF OneOwner
<1>4. CASE DisconnectThread \/ DisconnectJoin \/ DisconnectDelete \/ DisconnectNull
  <2>1. NextLink.pc \in {"check", "idle"}
    BY <1>0, Zenon DEF NextLink, HangType
  <2>2. UNCHANGED <<fdTab, linkFd>> /\ hang.pc \in {"thread", "join", "delete", "null"}
    BY <1>4, Zenon DEF DisconnectThread, DisconnectJoin, DisconnectDelete, DisconnectNull, linkVars
  <2>3. hang'.pc \in {"join", "delete", "null", "check", "idle"}
    BY <1>0, <1>4, <2>1, Zenon DEF DisconnectThread, DisconnectJoin, DisconnectDelete,
       DisconnectNull, HangType
  <2>4. HangKeeps
    BY <2>2, <2>3, SMT DEF HangKeeps
  <2> QED BY <1>0, <2>2, <2>4, QuietStep
<1> QED BY <1>1, <1>2, <1>3, <1>4 DEF Disconnect

\* A descriptor that is opened is nobody's yet.
LEMMA OpenKeepsOwners ==
  ASSUME TypeOK, OneOwner, Named, NEW f \in Fd, NEW c \in Conn, NEW k, NEW p,
         OpenFd(f, c, k, p), UNCHANGED <<linkFd, hang>>,
         \/ /\ out'.pc \in OutHas /\ out'.fd = f /\ out'.conn = c
            /\ out.pc \notin OutHas /\ UNCHANGED lsn
         \/ /\ lsn'.pc \in LsnHas /\ lsn'.fd = f /\ lsn'.conn = c
            /\ lsn.pc \notin LsnHas /\ UNCHANGED out
  PROVE  OneOwner' /\ Named'
<1>1. /\ fdTab \in [Fd -> Conn \cup {NoConn}] /\ fdTab[f] = NoConn
      /\ fdTab' = [fdTab EXCEPT ![f] = c]
  BY Zenon DEF OpenFd, TypeOK, FreeFd
<1>2. HangKeeps /\ \A j \in Link : linkFd'[j] = linkFd[j]
  BY DEF HangKeeps
<1>3. PICK a \in {"dial", "listen"} :
        /\ Holders'[a] = f
        /\ \A o \in {"dial", "listen"} \ {a} : Holders'[o] \in {Holders[o], NoFd}
  <2>1. CASE out'.pc \in OutHas /\ out'.fd = f /\ UNCHANGED lsn
    BY <2>1, StillHeld, SMT DEF Holders, Owner, Holds, DialHolds, LsnKeeps
  <2>2. CASE lsn'.pc \in LsnHas /\ lsn'.fd = f /\ UNCHANGED out
    BY <2>2, StillHeld, SMT DEF Holders, Owner, Holds, ListenHolds, OutKeeps
  <2> QED BY <2>1, <2>2
<1>4. \A o \in Owner \ {a} : Holders'[o] \in {Holders[o], NoFd}
  BY <1>2, <1>3, StillHeld, SMT DEF Owner, Link
<1>5. a \in Owner
  BY SMT DEF Owner
<1>6. Apart(fdTab', Holders')
  BY <1>1, <1>3, <1>4, <1>5, OpenApart DEF OneOwner
<1>7. Named'
  BY <1>1, Apartness, SMT DEF Named
<1> QED BY <1>6, <1>7 DEF OneOwner

\* A thread closes the descriptor it opened: ::connect() failed, or the line
\* was taken.
LEMMA CloseKeepsOwners ==
  ASSUME TypeOK, OneOwner, Named, NEW f, CloseFd(f), UNCHANGED <<linkFd, hang>>,
         \/ /\ out.pc \in OutHas /\ out.fd = f /\ out'.pc \notin OutHas
            /\ UNCHANGED lsn
         \/ /\ lsn.pc \in LsnHas /\ lsn.fd = f /\ lsn'.pc \notin LsnHas
            /\ UNCHANGED out
  PROVE  OneOwner' /\ Named'
<1>1. /\ fdTab \in [Fd -> Conn \cup {NoConn}] /\ f \in Fd
      /\ fdTab' = [fdTab EXCEPT ![f] = NoConn]
  <2>1. fdTab \in [Fd -> Conn \cup {NoConn}] /\ fdTab' = [fdTab EXCEPT ![f] = NoConn]
    BY Zenon DEF CloseFd, TypeOK
  <2>2. f \in Fd
    BY SMT DEF Named
  <2> QED BY <2>1, <2>2
<1>2. HangKeeps /\ \A j \in Link : linkFd'[j] = linkFd[j]
  BY DEF HangKeeps
<1>3. PICK a \in {"dial", "listen"} :
        /\ Holders[a] = f /\ Holders'[a] = NoFd
        /\ \A o \in {"dial", "listen"} \ {a} : Holders'[o] \in {Holders[o], NoFd}
  <2>1. CASE out.pc \in OutHas /\ out.fd = f /\ out'.pc \notin OutHas /\ UNCHANGED lsn
    BY <2>1, StillHeld, SMT DEF Holders, Owner, Holds, DialHolds, LsnKeeps
  <2>2. CASE lsn.pc \in LsnHas /\ lsn.fd = f /\ lsn'.pc \notin LsnHas /\ UNCHANGED out
    BY <2>2, StillHeld, SMT DEF Holders, Owner, Holds, ListenHolds, OutKeeps
  <2> QED BY <2>1, <2>2
<1>4. \A o \in Owner \ {a} : Holders'[o] \in {Holders[o], NoFd}
  BY <1>2, <1>3, StillHeld, SMT DEF Owner, Link
<1>5. a \in Owner
  BY SMT DEF Owner
<1>6. Apart(fdTab', Holders')
  BY <1>1, <1>3, <1>4, <1>5, CloseApart DEF OneOwner
<1>7. \A o \in {"dial", "listen"} \ {a} : Holders[o] # f
  BY <1>1, <1>3, <1>5, Apartness, SMT DEF OneOwner, Apart, Owner
<1>8. Named'
  <2>1. CASE out.pc \in OutHas /\ out.fd = f /\ out'.pc \notin OutHas /\ UNCHANGED lsn
    <3>1. Holders["dial"] = f
      BY <2>1, SMT DEF Holders, Owner, Holds, DialHolds
    <3>2. Holders["listen"] # f
      BY <1>1, <3>1, Apartness, SMT DEF OneOwner, Apart, Owner
    <3>3. lsn.pc \in LsnHas => lsn.fd # f
      BY <3>2, SMT DEF Holders, Owner, Holds, ListenHolds
    <3> QED BY <1>1, <2>1, <3>3, SMT DEF Named
  <2>2. CASE lsn.pc \in LsnHas /\ lsn.fd = f /\ lsn'.pc \notin LsnHas /\ UNCHANGED out
    <3>1. Holders["listen"] = f
      BY <2>2, SMT DEF Holders, Owner, Holds, ListenHolds
    <3>2. Holders["dial"] # f
      BY <1>1, <3>1, Apartness, SMT DEF OneOwner, Apart, Owner
    <3>3. out.pc \in OutHas => out.fd # f
      BY <3>2, SMT DEF Holders, Owner, Holds, DialHolds
    <3> QED BY <1>1, <2>2, <3>3, SMT DEF Named
  <2> QED BY <2>1, <2>2
<1> QED BY <1>6, <1>8 DEF OneOwner

\* A thread publishes the descriptor it opened, also over a hang-up that has
\* the link of it in hand.
LEMMA PublishKeepsOwners ==
  ASSUME TypeOK, OneOwner, Named, NEW k \in Link, NEW f,
         linkFd' = [linkFd EXCEPT ![k] = f], UNCHANGED <<fdTab, hang>>,
         \/ /\ out.pc \in OutHas /\ out.fd = f /\ out'.pc \notin OutHas
            /\ UNCHANGED lsn
         \/ /\ lsn.pc \in LsnHas /\ lsn.fd = f /\ lsn'.pc \notin LsnHas
            /\ UNCHANGED out
  PROVE  OneOwner' /\ Named'
<1>1. linkFd \in [Link -> Fd \cup {NoFd}]
  BY Zenon DEF TypeOK
<1>2. HangKeeps /\ \A j \in Link \ {k} : linkFd'[j] = linkFd[j]
  BY <1>1, SMT DEF HangKeeps
<1>3. PICK a \in {"dial", "listen"} :
        /\ Holders[a] = f /\ Holders'[a] = NoFd
        /\ \A o \in {"dial", "listen"} \ {a} : Holders'[o] \in {Holders[o], NoFd}
  <2>1. CASE out.pc \in OutHas /\ out.fd = f /\ out'.pc \notin OutHas /\ UNCHANGED lsn
    BY <2>1, StillHeld, SMT DEF Holders, Owner, Holds, DialHolds, LsnKeeps
  <2>2. CASE lsn.pc \in LsnHas /\ lsn.fd = f /\ lsn'.pc \notin LsnHas /\ UNCHANGED out
    BY <2>2, StillHeld, SMT DEF Holders, Owner, Holds, ListenHolds, OutKeeps
  <2> QED BY <2>1, <2>2
<1>4. Holders'[k] \in {Holders[a], NoFd}
  BY <1>1, <1>3, SMT DEF Holders, Owner, Holds, LinkHolds, Link
<1>5. \A o \in Owner \ {a, k} : Holders'[o] \in {Holders[o], NoFd}
  BY <1>2, <1>3, StillHeld, SMT DEF Owner, Link
<1>6. a \in Owner /\ k \in Owner /\ a # k
  BY SMT DEF Owner, Link
<1>7. Apart(fdTab, Holders')
  BY <1>3, <1>4, <1>5, <1>6, MoveApart DEF OneOwner
<1>8. Named'
  BY SMT DEF Named
<1> QED BY <1>7, <1>8 DEF OneOwner

\* The bulk OUT thread.
LEMMA BulkOutKeepsOwners ==
  ASSUME TypeOK, OneOwner, Named, BulkOut
  PROVE  OneOwner' /\ Named'
<1> USE DEF sessionVars, linkVars, ctxVars
<1>0. out \in OutType /\ out.link \in Link
  BY Zenon DEF TypeOK, OutType
<1>1. CASE SockSocket
  <2>1. PICK f \in Fd, c \in Conn :
          /\ OpenFd(f, c, "sock", "connecting")
          /\ out' = [out EXCEPT !.pc = "connect", !.link = "sock", !.fd = f, !.conn = c]
    BY <1>1, Zenon DEF SockSocket
  <2>2. /\ out'.pc \in OutHas /\ out'.fd = f /\ out'.conn = c /\ out.pc \notin OutHas
        /\ UNCHANGED <<lsn, linkFd, hang>>
    <3>1. out'.pc = "connect" /\ out'.fd = f /\ out'.conn = c
      BY <1>0, <2>1, Zenon DEF OutType
    <3>2. out.pc = "socket" /\ UNCHANGED <<lsn, linkFd, hang>>
      BY <1>1, Zenon DEF SockSocket
    <3> QED BY <3>1, <3>2, SMT DEF OutHas
  <2> QED BY <2>1, <2>2, OpenKeepsOwners
<1>2. CASE PtyOpened /\ UNCHANGED lsn
  <2>1. PICK f \in Fd, c \in Conn :
          /\ OpenFd(f, c, "pty", "unopened")
          /\ out' = [out EXCEPT !.pc = "publish", !.link = "pty", !.fd = f, !.conn = c]
    BY <1>2, Zenon DEF PtyOpened
  <2>2. /\ out'.pc \in OutHas /\ out'.fd = f /\ out'.conn = c /\ out.pc \notin OutHas
        /\ UNCHANGED <<lsn, linkFd, hang>>
    <3>1. out'.pc = "publish" /\ out'.fd = f /\ out'.conn = c
      BY <1>0, <2>1, Zenon DEF OutType
    <3>2. out.pc = "pty" /\ UNCHANGED <<lsn, linkFd, hang>>
      BY <1>2, Zenon DEF PtyOpened
    <3> QED BY <3>1, <3>2, SMT DEF OutHas
  <2> QED BY <2>1, <2>2, OpenKeepsOwners
<1>3. CASE SockConnected
  <2>1. UNCHANGED <<fdTab, linkFd, hang, lsn>> /\ OutKeeps
    BY <1>0, <1>3, SMT DEF SockConnected, OutType, OutKeeps, OutHas
  <2> QED BY <2>1, QuietStep DEF LsnKeeps, HangKeeps
<1>4. CASE SockRefused
  <2>1. /\ CloseFd(out.fd) /\ out.pc \in OutHas /\ out'.pc \notin OutHas
        /\ UNCHANGED <<linkFd, hang, lsn>>
    BY <1>0, <1>4, SMT DEF SockRefused, OutType, OutHas
  <2> QED BY <2>1, CloseKeepsOwners
<1>5. CASE ConnectPublish /\ UNCHANGED lsn
  <2>1. /\ linkFd' = [linkFd EXCEPT ![out.link] = out.fd]
        /\ out.pc \in OutHas /\ out'.pc \notin OutHas /\ UNCHANGED <<fdTab, hang, lsn>>
    BY <1>0, <1>5, SMT DEF ConnectPublish, OutType, OutHas
  <2> QED BY <1>0, <2>1, PublishKeepsOwners
\* No other step of the thread touches a descriptor.
<1>6. ASSUME out'.pc \notin OutHas, UNCHANGED <<fdTab, linkFd, hang, lsn>>
      PROVE  OneOwner' /\ Named'
  BY <1>6, QuietStep DEF OutKeeps, LsnKeeps, HangKeeps
<1>7. CASE \/ PtyFailed /\ UNCHANGED lsn
           \/ setupISP /\ UNCHANGED lsn
           \/ (ConnectSpawn \/ ConnectPointer \/ SendWrite) /\ UNCHANGED lsn
  <2>1. UNCHANGED <<fdTab, linkFd, hang, lsn>>
    BY <1>7, Zenon DEF PtyFailed, setupISP, ConnectSpawn, ConnectPointer, SendWrite
  <2>2. out'.pc \in {"reply", "pointer", "isp", "sent"}
    BY <1>0, <1>7, Zenon DEF PtyFailed, setupISP, ConnectSpawn, ConnectPointer, SendWrite, OutType
  <2> QED BY <1>6, <2>1, <2>2, SMT DEF OutHas
<1>8. CASE \/ OfflineDone \/ TakeLine \/ AtEcho \/ AtExt \/ AtPlain \/ AtAnswer \/ AtPpp
           \/ AtNoSock \/ AtReply \/ AtRaise \/ OnlineDone \/ ClearBuffer
  <2>1. UNCHANGED <<fdTab, linkFd, hang, lsn>>
    BY <1>8, Zenon DEF OfflineDone, TakeLine, AtEcho, AtExt, AtPlain, AtAnswer, AtPpp,
       AtNoSock, AtReply, AtRaise, OnlineDone, ClearBuffer
  <2>2. CASE TakeLine
    <3>1. out'.pc \in {"offline", "echo", "cmd"}
      BY <1>0, <2>2, Zenon DEF TakeLine, OutType
    <3> QED BY <1>6, <2>1, <3>1, SMT DEF OutHas
  <2>3. CASE AtReply
    <3>1. out'.pc \in {"raise", "offline"}
      BY <1>0, <2>3, Zenon DEF AtReply, OutType
    <3> QED BY <1>6, <2>1, <3>1, SMT DEF OutHas
  <2>4. CASE \/ OfflineDone \/ AtEcho \/ AtExt \/ AtPlain \/ AtAnswer \/ AtPpp
             \/ AtNoSock \/ AtRaise \/ OnlineDone \/ ClearBuffer
    <3>1. out'.pc \in {"online", "cmd", "offline", "reply", "pty", "read"}
      BY <1>0, <2>4, Zenon DEF OfflineDone, AtEcho, AtExt, AtPlain, AtAnswer, AtPpp,
         AtNoSock, AtRaise, OnlineDone, ClearBuffer, OutType
    <3> QED BY <1>6, <2>1, <3>1, SMT DEF OutHas
  <2> QED BY <1>8, <2>2, <2>3, <2>4
<1>9. CASE AtDial
  <2>1. UNCHANGED <<fdTab, linkFd, hang, lsn>>
    BY <1>9, Zenon DEF AtDial
  <2>2. out'.pc \in {"cmd", "socket"}
    BY <1>0, <1>9, Zenon DEF AtDial, Cmd, OutType
  <2> QED BY <1>6, <2>1, <2>2, SMT DEF OutHas
<1>10. CASE Route
  <2>1. UNCHANGED <<fdTab, linkFd, hang, lsn>>
    BY <1>10, Zenon DEF Route
  <2>2. out'.pc \in {"sent", "send"}
    BY <1>0, <1>10, Zenon DEF Route, SendLoad, OutType
  <2> QED BY <1>6, <2>1, <2>2, SMT DEF OutHas
<1> QED BY <1>1, <1>2, <1>3, <1>4, <1>5, <1>7, <1>8, <1>9, <1>10, Zenon
        DEF BulkOut, SockConnect, PtyConnect, ConnectTail

\* The listen thread.
LEMMA ListenKeepsOwners ==
  ASSUME TypeOK, OneOwner, Named, ListenTail \/ ListenAccept
  PROVE  OneOwner' /\ Named'
<1>0. lsn \in LsnType /\ "sock" \in Link
  BY Zenon DEF TypeOK, Link
<1>1. CASE ListenAccept
  <2>1. PICK f \in Fd, c \in Conn :
          /\ OpenFd(f, c, "sock", "open")
          /\ lsn' = [lsn EXCEPT !.pc = "check", !.fd = f, !.conn = c, !.callers = @ + 1]
    BY <1>1, Zenon DEF ListenAccept
  <2>2. /\ lsn'.pc \in LsnHas /\ lsn'.fd = f /\ lsn'.conn = c /\ lsn.pc \notin LsnHas
        /\ UNCHANGED <<out, linkFd, hang>>
    <3>1. lsn'.pc = "check" /\ lsn'.fd = f /\ lsn'.conn = c
      BY <1>0, <2>1, Zenon DEF LsnType
    <3>2. lsn.pc = "accept" /\ UNCHANGED <<out, linkFd, hang>>
      BY <1>1, Zenon DEF ListenAccept
    <3> QED BY <3>1, <3>2, SMT DEF LsnHas
  <2> QED BY <2>1, <2>2, OpenKeepsOwners
<1>2. CASE ListenRefuse
  <2>1. /\ CloseFd(lsn.fd) /\ lsn.pc \in LsnHas /\ lsn'.pc \notin LsnHas
        /\ UNCHANGED <<linkFd, hang, out>>
    BY <1>0, <1>2, SMT DEF ListenRefuse, LsnType, LsnHas
  <2> QED BY <2>1, CloseKeepsOwners
<1>3. CASE ListenPublish
  <2>1. /\ linkFd' = [linkFd EXCEPT !["sock"] = lsn.fd]
        /\ lsn.pc \in LsnHas /\ lsn'.pc \notin LsnHas /\ UNCHANGED <<fdTab, hang, out>>
    BY <1>0, <1>3, SMT DEF ListenPublish, LsnType, LsnHas
  <2> QED BY <1>0, <2>1, PublishKeepsOwners
<1>4. CASE ListenCheck
  <2>1. UNCHANGED <<fdTab, linkFd, hang, out>>
    BY <1>4, Zenon DEF ListenCheck, linkVars
  <2>2. LsnKeeps
    BY <1>0, <1>4, SMT DEF ListenCheck, LsnType, LsnKeeps, LsnHas
  <2> QED BY <2>1, <2>2, QuietStep DEF OutKeeps, HangKeeps
<1>5. CASE ListenRing \/ ListenSpawn \/ ListenPointer
  <2>1. UNCHANGED <<fdTab, linkFd, hang, out>>
    BY <1>5, Zenon DEF ListenRing, ListenSpawn, ListenPointer, linkVars
  <2>2. LsnKeeps
    <3>1. lsn'.pc \in {"spawn", "pointer", "accept"}
      BY <1>0, <1>5, Zenon DEF ListenRing, ListenSpawn, ListenPointer, LsnType
    <3> QED BY <3>1, SMT DEF LsnKeeps, LsnHas
  <2> QED BY <2>1, <2>2, QuietStep DEF OutKeeps, HangKeeps
<1> QED BY <1>1, <1>2, <1>3, <1>4, <1>5 DEF ListenTail

\* Every step keeps the owners apart.
LEMMA OwnersInductive ==
  ASSUME TypeOK, OneOwner, Named, [Next]_vars
  PROVE  OneOwner' /\ Named'
<1> USE DEF sessionVars, linkVars, ctxVars
<1>1. CASE HangUpNext
  BY <1>1, HangUpKeepsOwners DEF HangUpNext
<1>2. CASE BulkOutNext
  BY <1>2, BulkOutKeepsOwners DEF BulkOutNext
<1>3. CASE ListenNext \/ CallerNext
  BY <1>3, ListenKeepsOwners DEF ListenNext, CallerNext
<1>4. ASSUME NEW t \in Conn, RecvNext(t)
      PROVE  OneOwner' /\ Named'
  <2>1. UNCHANGED <<fdTab, linkFd, hang, out, lsn>>
    BY <1>4, Zenon DEF RecvNext, RecvThread, RecvStart, RecvSelect, RecvReadable,
       RecvTimeout, RecvLookup, RecvData, RecvEnd, recv_callback, RecvEnqueue
  <2> QED BY <2>1, QuietStep DEF OutKeeps, LsnKeeps, HangKeeps
<1>5. ASSUME NEW c \in Conn, FarEndNext(c)
      PROVE  OneOwner' /\ Named'
  <2>1. UNCHANGED <<fdTab, linkFd, hang, out, lsn>>
    BY <1>5, Zenon DEF FarEndNext, FarEndStep, PeerSend, PeerClose, SlaveOpen
  <2> QED BY <2>1, QuietStep DEF OutKeeps, LsnKeeps, HangKeeps
<1>6. CASE OnHook
  <2>1. UNCHANGED <<fdTab, linkFd, out, lsn>>
    BY <1>6, Zenon DEF OnHook
  <2>2. HangKeeps
    <3>1. hang.pc = "idle" /\ hang'.pc = "check"
      BY <1>6, Zenon DEF OnHook, TypeOK, HangType
    <3> QED BY <3>1, SMT DEF HangKeeps
  <2> QED BY <2>1, <2>2, QuietStep DEF OutKeeps, LsnKeeps
<1>7. ASSUME NEW p \in Packets, HostPacket(p)
      PROVE  OneOwner' /\ Named'
  <2>1. UNCHANGED <<fdTab, linkFd, hang, lsn>>
    BY <1>7, Zenon DEF HostPacket
  <2>2. OutKeeps
    <3>1. out'.pc = "offline"
      BY <1>7, Zenon DEF HostPacket, TypeOK, OutType
    <3> QED BY <3>1, SMT DEF OutKeeps, OutHas
  <2> QED BY <2>1, <2>2, QuietStep DEF LsnKeeps, HangKeeps
<1>8. CASE AcceptFails \/ UNCHANGED vars
  <2>1. UNCHANGED <<fdTab, linkFd, hang, out, lsn>>
    BY <1>8, Zenon DEF AcceptFails, ListenFails, vars
  <2> QED BY <2>1, QuietStep DEF OutKeeps, LsnKeeps, HangKeeps
<1> QED BY <1>1, <1>2, <1>3, <1>4, <1>5, <1>6, <1>7, <1>8
        DEF Next, HostNext, HostStep, WaitForOutside

\* So they are apart in every state.
LEMMA OwnersKept == Spec => [](OneOwner /\ Named)
<1>1. Init => OneOwner /\ Named
  <2> SUFFICES ASSUME Init PROVE OneOwner /\ Named
    OBVIOUS
  <2>1. /\ out.pc = "read" /\ lsn.pc \in {"off", "accept"} /\ hang.pc = "idle"
        /\ linkFd = [k \in Link |-> NoFd]
    BY Zenon DEF Init, LinkInit, SockInit
  <2>2. \A o \in Owner : Holders[o] = NoFd
    BY <2>1, SMT DEF Holders, Owner, Holds, DialHolds, ListenHolds, HangHolds, LinkHolds,
       OutHas, LsnHas, Link
  <2>3. OneOwner
    BY <2>2 DEF OneOwner, Apart
  <2>4. Named
    BY <2>1, SMT DEF Named, OutHas, LsnHas
  <2> QED BY <2>3, <2>4
<1>2. TypeOK /\ OneOwner /\ Named /\ [Next]_vars => OneOwner' /\ Named'
  BY OwnersInductive
<1>3. Spec => []TypeOK
  BY TypeCorrect
<1> QED BY <1>1, <1>2, <1>3, PTL DEF Spec

\* No descriptor is closed twice, neither by disconnect() nor by the listen
\* thread nor by a failing connect(), however a hang-up, a call that comes in
\* and a dialled one run into each other.
THEOREM ClosedOnce == Spec => []NoDoubleClose
<1>1. OneOwner /\ Named => NoDoubleClose
  <2> SUFFICES ASSUME OneOwner, Named PROVE NoDoubleClose
    OBVIOUS
  <2>1. ASSUME hang.pc = "close" PROVE fdTab[hang.fd] # NoConn
    <3>1. hang.fd \in Fd /\ Holders["hang"] = hang.fd /\ "hang" \in Owner
      BY <2>1, SMT DEF Named, Holders, Owner, Holds, HangHolds
    <3> QED BY <3>1, Apartness, SMT DEF OneOwner, Apart
  <2>2. (out.pc = "connect" => fdTab[out.fd] = out.conn) /\ (lsn.pc = "refuse" => fdTab[lsn.fd] = lsn.conn)
    BY SMT DEF Named, OutHas, LsnHas
  <2> QED BY <2>1, <2>2 DEF NoDoubleClose
<1> QED BY <1>1, OwnersKept, PTL

-----------------------------------------------------------------------------
(* Receive threads.                                                        *)

\* Without a collision a hang-up joins the thread the pointer points to, and
\* deletes one that was joined.
Undisturbed ==
  ~collided =>
    /\ ~Collision
    /\ hang.pc = "join" => hang.thr \in Conn /\ linkThr[hang.link] = hang.thr
    /\ hang.pc = "delete" => /\ linkThr[hang.link] \in Conn
                             /\ rcv[linkThr[hang.link]].obj # "joinable"

\* While nobody runs into a hang-up, all others leave the pointers and what
\* the std::thread objects are.
HandsOff == /\ UNCHANGED linkThr
            /\ \A t \in Conn : rcv'[t].obj = rcv[t].obj

\* A step of another thread, no matter which.
LEMMA OthersHandsOff ==
  ASSUME TypeOK, ~Collision, [Next]_vars, ~HangUpNext
  PROVE  /\ hang' = hang \/ hang'.pc = "check"
         /\ hang.pc = "idle" \/ HandsOff
         /\ aborted' \in {aborted, "out_of_range", "accept"}
<1> USE DEF sessionVars, linkVars, ctxVars
<1>1. CASE BulkOutNext
  <2>1. CASE ConnectSpawn \/ ConnectPointer
    <3>1. SettingUp
      BY <2>1, SMT DEF ConnectSpawn, ConnectPointer, SettingUp
    <3>2. hang.pc = "idle"
      BY <3>1 DEF Collision
    <3> QED BY <2>1, <3>2, Zenon DEF ConnectSpawn, ConnectPointer
  <2>2. CASE ~(ConnectSpawn \/ ConnectPointer)
    <3>1. UNCHANGED <<hang, linkThr, rcv>> /\ aborted' \in {aborted, "out_of_range"}
      BY <1>1, <2>2, Zenon DEF BulkOutNext, BulkOut, OfflineDone, TakeLine, AtEcho, AtExt,
         AtPlain, AtAnswer, AtPpp, AtNoSock, AtDial, AtReply, AtRaise, OnlineDone, Route,
         ClearBuffer, SockConnect, SockSocket, SockConnected, SockRefused, PtyConnect,
         PtyOpened, PtyFailed, setupISP, ConnectTail, ConnectPublish, SendWrite
    <3> QED BY <3>1 DEF HandsOff
  <2> QED BY <2>1, <2>2
<1>2. CASE ListenNext
  <2>1. CASE ListenSpawn \/ ListenPointer
    <3>1. TakingCall
      BY <2>1, SMT DEF ListenSpawn, ListenPointer, TakingCall
    <3>2. hang.pc = "idle"
      BY <3>1 DEF Collision
    <3> QED BY <2>1, <3>2, Zenon DEF ListenSpawn, ListenPointer
  <2>2. CASE ~(ListenSpawn \/ ListenPointer)
    <3>1. UNCHANGED <<hang, linkThr, rcv, aborted>>
      BY <1>2, <2>2, Zenon DEF ListenNext, ListenTail, ListenCheck, ListenRefuse,
         ListenPublish, ListenRing
    <3> QED BY <3>1 DEF HandsOff
  <2> QED BY <2>1, <2>2
<1>3. ASSUME NEW t \in Conn, RecvNext(t)
      PROVE  UNCHANGED <<hang, aborted>> /\ HandsOff
  <2>1. UNCHANGED <<hang, linkThr, aborted>>
    BY <1>3, Zenon DEF RecvNext, RecvThread, RecvStart, RecvSelect, RecvReadable,
       RecvTimeout, RecvLookup, RecvData, RecvEnd, recv_callback, RecvEnqueue
  <2>2. rcv \in [Conn -> RcvType] /\ rcv[t] \in RcvType
    BY Zenon DEF TypeOK
  <2>3. \A u \in Conn : Ended(t)[u].obj = rcv[u].obj
    BY <2>2, SMT DEF Ended, NoThread
  <2>4. CASE RecvStart(t) \/ RecvReadable(t) \/ RecvData(t) \/ recv_callback(t) \/ RecvEnqueue(t)
    BY <2>1, <2>2, <2>4, SMT DEF RecvStart, RecvReadable, RecvData, recv_callback,
       RecvEnqueue, RcvType, HandsOff
  <2>5. CASE RecvSelect(t) \/ RecvTimeout(t) \/ RecvLookup(t) \/ RecvEnd(t)
    BY <2>1, <2>2, <2>3, <2>5, SMT DEF RecvSelect, RecvTimeout, RecvLookup, RecvEnd,
       RcvType, HandsOff
  <2> QED BY <1>3, <2>1, <2>4, <2>5 DEF RecvNext, RecvThread
<1>4. CASE CallerNext \/ \E c \in Conn : FarEndNext(c)
  <2>1. UNCHANGED <<hang, linkThr, rcv, aborted>>
    BY <1>4, Zenon DEF CallerNext, ListenAccept, FarEndNext, FarEndStep, PeerSend,
       PeerClose, SlaveOpen
  <2> QED BY <2>1 DEF HandsOff
<1>5. CASE HostNext
  <2>1. UNCHANGED <<linkThr, rcv, aborted>> /\ (UNCHANGED hang \/ OnHook)
    BY <1>5, Zenon DEF HostNext, HostStep, OnHook, HostPacket
  <2>2. OnHook => hang'.pc = "check"
    BY Zenon DEF OnHook, TypeOK, HangType
  <2> QED BY <2>1, <2>2 DEF HandsOff
<1>6. CASE AcceptFails \/ UNCHANGED vars
  <2>1. UNCHANGED <<hang, linkThr, rcv>> /\ aborted' \in {aborted, "accept"}
    BY <1>6, Zenon DEF AcceptFails, ListenFails, vars
  <2> QED BY <2>1 DEF HandsOff
<1> QED BY <1>1, <1>2, <1>3, <1>4, <1>5, <1>6 DEF Next, WaitForOutside

\* The steps of the hang-up itself.
LEMMA HangUpUndisturbed ==
  ASSUME TypeOK, Disconnect,
         hang.pc = "join" => hang.thr \in Conn /\ linkThr[hang.link] = hang.thr,
         hang.pc = "delete" => /\ linkThr[hang.link] \in Conn
                               /\ rcv[linkThr[hang.link]].obj # "joinable"
  PROVE  /\ hang'.pc = "join" => hang'.thr \in Conn /\ linkThr'[hang'.link] = hang'.thr
         /\ hang'.pc = "delete" => /\ linkThr'[hang'.link] \in Conn
                                   /\ rcv'[linkThr'[hang'.link]].obj # "joinable"
         /\ aborted' = aborted
<1>0. /\ hang \in HangType /\ hang.link \in Link
      /\ linkThr \in [Link -> Conn \cup {NoConn}] /\ rcv \in [Conn -> RcvType]
  BY Zenon DEF TypeOK, HangType
<1>1. NextLink.pc \in {"check", "idle"}
  BY <1>0, Zenon DEF NextLink, HangType
<1>2. CASE DisconnectLoad \/ DisconnectClose \/ DisconnectZero \/ DisconnectNull
  <2>1. hang'.pc \in {"check", "idle", "close", "zero", "thread"} /\ aborted' = aborted
    BY <1>0, <1>1, <1>2, Zenon DEF DisconnectLoad, DisconnectClose, DisconnectZero,
       DisconnectNull, HangType
  <2> QED BY <2>1, SMT
<1>3. CASE DisconnectThread
  <2> DEFINE t == linkThr[hang.link]
  <2>1. t \in Conn \cup {NoConn} /\ UNCHANGED <<linkThr, rcv, aborted>>
    BY <1>0, <1>3, Zenon DEF DisconnectThread, linkVars
  <2>2. CASE t = NoConn
    <3>1. hang' = NextLink
      BY <1>3, <2>2, Zenon DEF DisconnectThread
    <3> QED BY <1>1, <2>1, <3>1, SMT
  <2>3. CASE t # NoConn /\ rcv[t].obj = "joinable"
    <3>1. hang' = [hang EXCEPT !.pc = "join", !.thr = t]
      BY <1>3, <2>3, Zenon DEF DisconnectThread
    <3>2. hang'.pc = "join" /\ hang'.thr = t /\ hang'.link = hang.link
      BY <1>0, <3>1, Zenon DEF HangType
    <3> QED BY <2>1, <2>3, <3>2, SMT
  <2>4. CASE t # NoConn /\ rcv[t].obj # "joinable"
    <3>1. hang' = [hang EXCEPT !.pc = "delete"]
      BY <1>3, <2>4, Zenon DEF DisconnectThread
    <3>2. hang'.pc = "delete" /\ hang'.link = hang.link
      BY <1>0, <3>1, Zenon DEF HangType
    <3> QED BY <2>1, <2>4, <3>2, SMT
  <2> QED BY <2>2, <2>3, <2>4
<1>4. CASE DisconnectJoin
  <2>1. hang.pc = "join" /\ hang.thr \in Conn /\ linkThr[hang.link] = hang.thr
        /\ UNCHANGED <<linkThr, aborted>>
    BY <1>4, Zenon DEF DisconnectJoin
  <2>2. hang'.pc = "delete" /\ hang'.link = hang.link
    BY <1>0, <1>4, Zenon DEF DisconnectJoin, HangType
  <2>3. rcv' = [rcv EXCEPT ![hang.thr].obj = "joined"]
    BY <1>4, Zenon DEF DisconnectJoin
  <2>4. rcv'[hang.thr].obj = "joined"
    BY <1>0, <2>1, <2>3, SMT DEF RcvType
  <2> QED BY <2>1, <2>2, <2>4, SMT
<1>5. CASE DisconnectDelete
  <2>1. hang.pc = "delete"
    BY <1>5, Zenon DEF DisconnectDelete
  <2>2. hang' = [hang EXCEPT !.pc = "null"] /\ aborted' = aborted
    BY <1>5, <2>1, Zenon DEF DisconnectDelete
  <2>3. hang'.pc = "null"
    BY <1>0, <2>2, Zenon DEF HangType
  <2> QED BY <2>2, <2>3, SMT
<1> QED BY <1>2, <1>3, <1>4, <1>5 DEF Disconnect

\* It is undisturbed in every state.
LEMMA StaysUndisturbed == Spec => [](Undisturbed /\ TerminateNeedsCollision)
<1> DEFINE Inv == Undisturbed /\ TerminateNeedsCollision
<1>1. Init => Inv
  <2> SUFFICES ASSUME Init PROVE Inv
    OBVIOUS
  <2>1. /\ hang.pc = "idle" /\ out.pc = "read" /\ lsn.pc \in {"off", "accept"}
        /\ aborted = "no"
    BY Zenon DEF Init, LinkInit, SockInit
  <2> QED BY <2>1, SMT DEF Undisturbed, TerminateNeedsCollision, Collision
<1>2. TypeOK /\ Inv /\ [Next]_vars => Inv'
  <2> SUFFICES ASSUME TypeOK, Inv, [Next]_vars, ~collided'
               PROVE  Undisturbed' /\ aborted' # "terminate"
    BY DEF Undisturbed, TerminateNeedsCollision
  <2>1. CASE UNCHANGED vars
    BY <2>1 DEF Undisturbed, TerminateNeedsCollision, Collision, SettingUp, TakingCall,
       vars, linkVars
  <2>2. CASE ~UNCHANGED vars
    <3>1. Ghost
      BY <2>2, Zenon DEF Next, HangUpNext, BulkOutNext, ListenNext, RecvNext, HostNext,
         CallerNext, AcceptFails, FarEndNext, WaitForOutside
    <3>2. ~collided /\ ~Collision'
      BY <3>1, Zenon DEF Ghost, TypeOK
    <3>3. ~Collision /\ aborted # "terminate"
      BY <3>2 DEF Undisturbed, TerminateNeedsCollision
    <3>4. CASE HangUpNext
      BY <3>2, <3>3, <3>4, HangUpUndisturbed DEF HangUpNext, Undisturbed
    <3>5. CASE ~HangUpNext
      <4>1. /\ hang' = hang \/ hang'.pc = "check"
            /\ hang.pc = "idle" \/ HandsOff
            /\ aborted' \in {aborted, "out_of_range", "accept"}
        BY <3>3, <3>5, OthersHandsOff
      <4> QED BY <3>2, <3>3, <4>1, SMT DEF Undisturbed, HandsOff
    <3> QED BY <3>4, <3>5
  <2> QED BY <2>1, <2>2
<1>3. Spec => []TypeOK
  BY TypeCorrect
<1> QED BY <1>1, <1>2, <1>3, PTL DEF Spec

\* The process dies in ~thread() of a running receive thread only after a
\* hang-up ran into a link set-up, or one link was published over another.
THEOREM TerminatesOnlyByCollision == Spec => []TerminateNeedsCollision
BY StaysUndisturbed, PTL

-----------------------------------------------------------------------------
(* Nothing is lost track of.                                               *)

\* The two parties that set up links, and how far each one is: it has a
\* descriptor, has published it, has started the receive thread.
Party == {"dial", "listen"}

Phase == [w \in Party |->
  IF w = "dial"
  THEN IF out.pc \in OutHas THEN "has" ELSE IF out.pc = "spawn" THEN "half"
       ELSE IF out.pc = "pointer" THEN "pointer" ELSE "none"
  ELSE IF lsn.pc \in LsnHas THEN "has" ELSE IF lsn.pc \in {"ring", "spawn"} THEN "half"
       ELSE IF lsn.pc = "pointer" THEN "pointer" ELSE "none"]
FdOf == [w \in Party |-> IF w = "dial" THEN out.fd ELSE lsn.fd]
ConnOf == [w \in Party |-> IF w = "dial" THEN out.conn ELSE lsn.conn]
LinkOf == [w \in Party |-> IF w = "dial" THEN out.link ELSE "sock"]
Published == {"half", "pointer"}

\* An open file is a connection that is in use, and is open once.
Files ==
  /\ \A f \in Fd : fdTab[f] # NoConn => conns[fdTab[f]].link # "none"
  /\ \A f \in Fd, g \in Fd : fdTab[f] # NoConn /\ fdTab[f] = fdTab[g] => f = g
  /\ \A w \in Party : Phase[w] = "has" =>
       FdOf[w] \in Fd /\ ConnOf[w] \in Conn /\ fdTab[FdOf[w]] = ConnOf[w]
       /\ conns[ConnOf[w]].link = LinkOf[w]

\* What a step does to a connection other than to open or close it ...
LinksKept == \A c \in Conn : conns'[c].link = conns[c].link
\* ... and to a std::thread other than to start, join or delete it.
ObjsKept == \A t \in Conn : rcv'[t].obj = rcv[t].obj /\ rcv'[t].link = rcv[t].link

\* What a party does in a step.
Stays(w) == /\ Phase'[w] = Phase[w] /\ FdOf'[w] = FdOf[w]
            /\ ConnOf'[w] = ConnOf[w] /\ LinkOf'[w] = LinkOf[w]
Opens(w) ==
  \E f \in Fd, c \in Conn, p \in {"connecting", "unopened", "open"} :
    /\ OpenFd(f, c, LinkOf'[w], p) /\ LinkOf'[w] \in Link
    /\ Phase[w] = "none" /\ Phase'[w] = "has" /\ FdOf'[w] = f /\ ConnOf'[w] = c
    /\ UNCHANGED <<rcv, linkFd, linkThr>>
Closes(w) ==
  /\ Phase[w] = "has" /\ Phase'[w] = "none"
  /\ CloseFd(FdOf[w])
  /\ \E p : conns' = [conns EXCEPT ![ConnOf[w]] = Forgotten(ConnOf[w], p)]
  /\ UNCHANGED <<rcv, linkFd, linkThr>>
Publishes(w) ==
  /\ Phase[w] = "has" /\ Phase'[w] = "half" /\ linkFd[LinkOf[w]] = NoFd /\ hang.pc = "idle"
  /\ linkFd' = [linkFd EXCEPT ![LinkOf[w]] = FdOf[w]]
  /\ ConnOf'[w] = ConnOf[w] /\ LinkOf'[w] = LinkOf[w]
  /\ UNCHANGED <<fdTab, conns, rcv, linkThr>>
Spawns(w) ==
  /\ Phase[w] = "half" /\ Phase'[w] = "pointer"
  /\ SpawnFor(ConnOf[w], LinkOf[w])
  /\ ConnOf'[w] = ConnOf[w] /\ LinkOf'[w] = LinkOf[w]
  /\ UNCHANGED <<fdTab, conns, linkFd, linkThr>>
Points(w) ==
  /\ Phase[w] = "pointer" /\ Phase'[w] = "none"
  /\ linkThr' = [linkThr EXCEPT ![LinkOf[w]] = ConnOf[w]]
  /\ UNCHANGED <<fdTab, conns, rcv, linkFd>>
Goes(w) ==
  /\ Phase'[w] = Phase[w]
  /\ Phase[w] # "none" => Stays(w)
  /\ UNCHANGED <<fdTab, linkFd, linkThr>> /\ LinksKept /\ ObjsKept

Moves(w) == Opens(w) \/ Closes(w) \/ Publishes(w) \/ Spawns(w) \/ Points(w) \/ Goes(w)

\* The hang-up stands still, or begins.
HangStays == hang' = hang \/ (hang.pc = "idle" /\ hang'.pc = "check" /\ hang'.link = hang.link)

\* A party whose thread does not move.
LEMMA PartyStays ==
  /\ UNCHANGED out => Stays("dial")
  /\ UNCHANGED lsn => Stays("listen")
<1>1. ASSUME UNCHANGED out PROVE Stays("dial")
  BY <1>1, SMT DEF Stays, Phase, FdOf, ConnOf, LinkOf, Party
<1>2. ASSUME UNCHANGED lsn PROVE Stays("listen")
  BY <1>2, SMT DEF Stays, Phase, FdOf, ConnOf, LinkOf, Party
<1> QED BY <1>1, <1>2

\* Every step of the bulk OUT thread is one of the moves.
LEMMA BulkOutMoves ==
  ASSUME TypeOK, ~Collision, BulkOut
  PROVE  hang' = hang /\ Stays("listen") /\ Moves("dial")
<1> USE DEF sessionVars, linkVars, ctxVars
<1>0. /\ out \in OutType /\ out.link \in Link /\ out.conn \in Conn \cup {NoConn}
      /\ conns \in [Conn -> ConnType]
  BY Zenon DEF TypeOK, OutType
<1>1. UNCHANGED <<lsn, hang>>
  BY Zenon DEF BulkOut, OfflineDone, TakeLine, AtEcho, AtExt,
     AtPlain, AtAnswer, AtPpp, AtNoSock, AtDial, AtReply, AtRaise, OnlineDone, Route,
     ClearBuffer, SockConnect, SockSocket, SockConnected, SockRefused, PtyConnect,
     PtyOpened, PtyFailed, setupISP, ConnectTail, ConnectPublish, ConnectSpawn,
     ConnectPointer, SendWrite
<1>2. SUFFICES Moves("dial")
  BY <1>1, PartyStays
<1>3. /\ FdOf["dial"] = out.fd /\ ConnOf["dial"] = out.conn /\ LinkOf["dial"] = out.link
      /\ FdOf'["dial"] = out'.fd /\ ConnOf'["dial"] = out'.conn /\ LinkOf'["dial"] = out'.link
  BY SMT DEF FdOf, ConnOf, LinkOf, Party
<1>4. CASE SockSocket \/ PtyOpened
  <2>1. PICK f \in Fd, c \in Conn, k \in Link, p \in {"connecting", "unopened"},
             q \in {"connect", "publish"} :
          /\ OpenFd(f, c, k, p)
          /\ out' = [out EXCEPT !.pc = q, !.link = k, !.fd = f, !.conn = c]
    <3>1. "sock" \in Link /\ "pty" \in Link
      BY DEF Link
    <3> QED BY <1>4, <3>1, Zenon DEF SockSocket, PtyOpened
  <2>2. out'.pc = q /\ out'.link = k /\ out'.fd = f /\ out'.conn = c
    BY <1>0, <2>1, Zenon DEF OutType
  <2>3. out.pc \in {"socket", "pty"} /\ UNCHANGED <<rcv, linkFd, linkThr>>
    BY <1>4, Zenon DEF SockSocket, PtyOpened
  <2>4. Phase["dial"] = "none" /\ Phase'["dial"] = "has"
    BY <2>2, <2>3, SMT DEF Phase, Party, OutHas
  <2>5. Opens("dial")
    BY <1>3, <2>1, <2>2, <2>3, <2>4, Zenon DEF Opens
  <2> QED BY <2>5 DEF Moves
<1>5. CASE SockRefused
  <2>1. out'.pc = "reply" /\ out.pc = "connect"
    BY <1>0, <1>5, Zenon DEF SockRefused, OutType
  <2>2. Phase["dial"] = "has" /\ Phase'["dial"] = "none"
    BY <2>1, SMT DEF Phase, Party, OutHas
  <2>3. Closes("dial")
    BY <1>3, <1>5, <2>2, Zenon DEF Closes, SockRefused
  <2> QED BY <2>3 DEF Moves
<1>6. CASE ConnectPublish
  <2>1. out'.pc = "spawn" /\ out.pc = "publish" /\ out'.conn = out.conn /\ out'.link = out.link
    BY <1>0, <1>6, Zenon DEF ConnectPublish, OutType
  <2>2. Phase["dial"] = "has" /\ Phase'["dial"] = "half"
    BY <2>1, SMT DEF Phase, Party, OutHas
  <2>3. linkFd[out.link] = NoFd /\ hang.pc = "idle"
    BY <2>1, SMT DEF Collision, SettingUp
  <2>4. Publishes("dial")
    BY <1>3, <1>6, <2>1, <2>2, <2>3, Zenon DEF Publishes, ConnectPublish
  <2> QED BY <2>4 DEF Moves
<1>7. CASE ConnectSpawn
  <2>1. out'.pc = "pointer" /\ out.pc = "spawn" /\ out'.conn = out.conn /\ out'.link = out.link
    BY <1>0, <1>7, Zenon DEF ConnectSpawn, OutType
  <2>2. Phase["dial"] = "half" /\ Phase'["dial"] = "pointer"
    BY <2>1, SMT DEF Phase, Party, OutHas
  <2>3. Spawns("dial")
    BY <1>3, <1>7, <2>1, <2>2, Zenon DEF Spawns, ConnectSpawn
  <2> QED BY <2>3 DEF Moves
<1>8. CASE ConnectPointer
  <2>1. out'.pc \in {"isp", "reply"} /\ out.pc = "pointer"
    BY <1>0, <1>8, Zenon DEF ConnectPointer, OutType
  <2>2. Phase["dial"] = "pointer" /\ Phase'["dial"] = "none"
    BY <2>1, SMT DEF Phase, Party, OutHas
  <2>3. Points("dial")
    BY <1>3, <1>8, <2>2, Zenon DEF Points, ConnectPointer
  <2> QED BY <2>3 DEF Moves
<1>9. CASE SockConnected
  <2>1. /\ out'.pc = "publish" /\ out.pc = "connect" /\ out'.conn = out.conn
        /\ out'.link = out.link /\ out'.fd = out.fd
    BY <1>0, <1>9, Zenon DEF SockConnected, OutType
  <2>2. Phase["dial"] = "has" /\ Phase'["dial"] = "has"
    BY <2>1, SMT DEF Phase, Party, OutHas
  <2>3. LinksKept
    BY <1>0, <1>9, SMT DEF SockConnected, LinksKept, ConnType
  <2>4. UNCHANGED <<fdTab, linkFd, linkThr, rcv>>
    BY <1>9, Zenon DEF SockConnected
  <2>5. Goes("dial")
    BY <1>3, <2>1, <2>2, <2>3, <2>4, SMT DEF Goes, Stays, ObjsKept
  <2> QED BY <2>5 DEF Moves
\* The other steps do not touch a link.
<1>10. ASSUME UNCHANGED linkVars,
             out.pc \notin {"connect", "publish", "spawn", "pointer"},
             out'.pc \notin {"connect", "publish", "spawn", "pointer"}
      PROVE  Moves("dial")
  <2>1. Phase["dial"] = "none" /\ Phase'["dial"] = "none"
    BY <1>10, SMT DEF Phase, Party, OutHas
  <2>2. LinksKept /\ ObjsKept
    BY <1>10 DEF LinksKept, ObjsKept
  <2>3. Goes("dial")
    BY <1>10, <2>1, <2>2, SMT DEF Goes
  <2> QED BY <2>3 DEF Moves
<1>11. CASE PtyFailed \/ setupISP \/ SendWrite \/ Route
  <2>1. UNCHANGED linkVars /\ out.pc \in {"pty", "isp", "send", "online"}
    BY <1>11, Zenon DEF PtyFailed, setupISP, SendWrite, Route
  <2>2. out'.pc \in {"reply", "sent", "send"}
    BY <1>0, <1>11, Zenon DEF PtyFailed, setupISP, SendWrite, Route, SendLoad, OutType
  <2> QED BY <1>10, <2>1, <2>2, SMT
<1>12. CASE AtDial \/ TakeLine \/ AtReply
  <2>1. UNCHANGED linkVars /\ out.pc \in {"cmd", "offline", "reply"}
    BY <1>12, Zenon DEF AtDial, TakeLine, AtReply, Cmd
  <2>2. CASE AtDial
    <3>1. out'.pc \in {"cmd", "socket"}
      BY <1>0, <2>2, Zenon DEF AtDial, Cmd, OutType
    <3> QED BY <1>10, <2>1, <3>1, SMT
  <2>3. CASE TakeLine
    <3>1. out'.pc \in {"offline", "echo", "cmd"}
      BY <1>0, <2>3, Zenon DEF TakeLine, OutType
    <3> QED BY <1>10, <2>1, <3>1, SMT
  <2>4. CASE AtReply
    <3>1. out'.pc \in {"raise", "offline"}
      BY <1>0, <2>4, Zenon DEF AtReply, OutType
    <3> QED BY <1>10, <2>1, <3>1, SMT
  <2> QED BY <1>12, <2>2, <2>3, <2>4
<1>13. CASE \/ OfflineDone \/ AtEcho \/ AtExt \/ AtPlain \/ AtAnswer \/ AtPpp
            \/ AtNoSock \/ AtRaise \/ OnlineDone \/ ClearBuffer
  <2>1. UNCHANGED linkVars /\ out.pc \in {"offline", "echo", "cmd", "raise", "online", "sent"}
    BY <1>13, Zenon DEF OfflineDone, AtEcho, AtExt, AtPlain, AtAnswer, AtPpp, AtNoSock,
       AtRaise, OnlineDone, ClearBuffer, Cmd
  <2>2. out'.pc \in {"online", "cmd", "offline", "reply", "pty", "read"}
    BY <1>0, <1>13, Zenon DEF OfflineDone, AtEcho, AtExt, AtPlain, AtAnswer, AtPpp, AtNoSock,
       AtRaise, OnlineDone, ClearBuffer, OutType
  <2> QED BY <1>10, <2>1, <2>2, SMT
<1> QED BY <1>4, <1>5, <1>6, <1>7, <1>8, <1>9, <1>11, <1>12, <1>13, Zenon
        DEF BulkOut, SockConnect, PtyConnect, ConnectTail

\* And every step of the listen thread.
LEMMA ListenMoves ==
  ASSUME TypeOK, ~Collision, ListenTail \/ ListenAccept
  PROVE  hang' = hang /\ Stays("dial") /\ Moves("listen")
<1> USE DEF linkVars, ctxVars
<1>0. lsn \in LsnType /\ lsn.conn \in Conn \cup {NoConn}
  BY Zenon DEF TypeOK, LsnType
<1>1. UNCHANGED <<out, hang>>
  BY Zenon DEF ListenTail, ListenAccept, ListenCheck, ListenRefuse, ListenPublish, ListenRing,
     ListenSpawn, ListenPointer
<1>2. SUFFICES Moves("listen")
  BY <1>1, PartyStays
<1>3. /\ FdOf["listen"] = lsn.fd /\ ConnOf["listen"] = lsn.conn /\ LinkOf["listen"] = "sock"
      /\ FdOf'["listen"] = lsn'.fd /\ ConnOf'["listen"] = lsn'.conn /\ LinkOf'["listen"] = "sock"
  BY SMT DEF FdOf, ConnOf, LinkOf, Party
<1>4. CASE ListenAccept
  <2>1. PICK f \in Fd, c \in Conn :
          /\ OpenFd(f, c, "sock", "open")
          /\ lsn' = [lsn EXCEPT !.pc = "check", !.fd = f, !.conn = c, !.callers = @ + 1]
    BY <1>4, Zenon DEF ListenAccept
  <2>2. lsn'.pc = "check" /\ lsn'.fd = f /\ lsn'.conn = c
    BY <1>0, <2>1, Zenon DEF LsnType
  <2>3. lsn.pc = "accept" /\ UNCHANGED <<rcv, linkFd, linkThr>>
    BY <1>4, Zenon DEF ListenAccept
  <2>4. Phase["listen"] = "none" /\ Phase'["listen"] = "has"
    BY <2>2, <2>3, SMT DEF Phase, Party, LsnHas
  <2>5. LinkOf'["listen"] \in Link /\ OpenFd(f, c, LinkOf'["listen"], "open")
    BY <1>3, <2>1, Zenon DEF Link
  <2>6. Opens("listen")
    BY <1>3, <2>2, <2>3, <2>4, <2>5, Zenon DEF Opens
  <2> QED BY <2>6 DEF Moves
<1>5. CASE ListenRefuse
  <2>1. lsn'.pc = "accept" /\ lsn.pc = "refuse"
    BY <1>0, <1>5, Zenon DEF ListenRefuse, LsnType
  <2>2. Phase["listen"] = "has" /\ Phase'["listen"] = "none"
    BY <2>1, SMT DEF Phase, Party, LsnHas
  <2>3. Closes("listen")
    BY <1>3, <1>5, <2>2, Zenon DEF Closes, ListenRefuse
  <2> QED BY <2>3 DEF Moves
<1>6. CASE ListenPublish
  <2>1. lsn'.pc = "ring" /\ lsn.pc = "publish" /\ lsn'.conn = lsn.conn
    BY <1>0, <1>6, Zenon DEF ListenPublish, LsnType
  <2>2. Phase["listen"] = "has" /\ Phase'["listen"] = "half"
    BY <2>1, SMT DEF Phase, Party, LsnHas
  <2>3. linkFd["sock"] = NoFd /\ hang.pc = "idle"
    BY <2>1, SMT DEF Collision, TakingCall
  <2>4. Publishes("listen")
    BY <1>3, <1>6, <2>1, <2>2, <2>3, Zenon DEF Publishes, ListenPublish
  <2> QED BY <2>4 DEF Moves
<1>7. CASE ListenSpawn
  <2>1. lsn'.pc = "pointer" /\ lsn.pc = "spawn" /\ lsn'.conn = lsn.conn
    BY <1>0, <1>7, Zenon DEF ListenSpawn, LsnType
  <2>2. Phase["listen"] = "half" /\ Phase'["listen"] = "pointer"
    BY <2>1, SMT DEF Phase, Party, LsnHas
  <2>3. Spawns("listen")
    BY <1>3, <1>7, <2>1, <2>2, Zenon DEF Spawns, ListenSpawn
  <2> QED BY <2>3 DEF Moves
<1>8. CASE ListenPointer
  <2>1. lsn'.pc = "accept" /\ lsn.pc = "pointer"
    BY <1>0, <1>8, Zenon DEF ListenPointer, LsnType
  <2>2. Phase["listen"] = "pointer" /\ Phase'["listen"] = "none"
    BY <2>1, SMT DEF Phase, Party, LsnHas
  <2>3. Points("listen")
    BY <1>3, <1>8, <2>2, Zenon DEF Points, ListenPointer
  <2> QED BY <2>3 DEF Moves
<1>9. CASE ListenCheck \/ ListenRing
  <2>1. lsn'.fd = lsn.fd /\ lsn'.conn = lsn.conn
    BY <1>0, <1>9, Zenon DEF ListenCheck, ListenRing, LsnType
  <2>2. \/ lsn.pc = "check" /\ lsn'.pc \in {"publish", "refuse"}
        \/ lsn.pc = "ring" /\ lsn'.pc = "spawn"
    BY <1>0, <1>9, Zenon DEF ListenCheck, ListenRing, LsnType
  <2>3. Phase'["listen"] = Phase["listen"]
    BY <2>2, SMT DEF Phase, Party, LsnHas
  <2>4. UNCHANGED linkVars
    BY <1>9, Zenon DEF ListenCheck, ListenRing
  <2>5. Goes("listen")
    BY <1>3, <2>1, <2>3, <2>4, SMT DEF Goes, Stays, ObjsKept, LinksKept
  <2> QED BY <2>5 DEF Moves
<1> QED BY <1>4, <1>5, <1>6, <1>7, <1>8, <1>9, Zenon DEF ListenTail

\* A step in which no party moves: of a receive thread, of a far end or of
\* the host, an accept() that fails, or none at all.
LEMMA OutsideMoves ==
  ASSUME TypeOK,
         \/ \E t \in Conn : RecvNext(t)
         \/ \E c \in Conn : FarEndNext(c)
         \/ HostNext
         \/ AcceptFails
         \/ UNCHANGED vars
  PROVE  HangStays /\ Stays("dial") /\ Stays("listen") /\ Goes("dial")
<1> USE DEF sessionVars, linkVars, ctxVars
<1>0. conns \in [Conn -> ConnType] /\ rcv \in [Conn -> RcvType] /\ hang \in HangType
  BY Zenon DEF TypeOK
<1>1. ASSUME UNCHANGED <<lsn, fdTab, linkFd, linkThr>>, HangStays, Stays("dial"),
             LinksKept, ObjsKept
      PROVE  HangStays /\ Stays("dial") /\ Stays("listen") /\ Goes("dial")
  BY <1>1, PartyStays, Zenon DEF Goes, Stays
<1>2. ASSUME NEW t \in Conn, RecvNext(t)
      PROVE  HangStays /\ Stays("dial") /\ Stays("listen") /\ Goes("dial")
  <2>1. UNCHANGED <<lsn, fdTab, linkFd, linkThr, hang, out>> /\ RecvThread(t)
    BY <1>2, Zenon DEF RecvNext, RecvThread, RecvStart, RecvSelect, RecvReadable, RecvTimeout,
       RecvLookup, RecvData, RecvEnd, recv_callback, RecvEnqueue
  <2>2. LinksKept
    <3>1. CASE UNCHANGED conns
      BY <3>1 DEF LinksKept
    <3>2. CASE RecvData(t)
      BY <1>0, <3>2, SMT DEF RecvData, LinksKept, ConnType
    <3> QED BY <2>1, <3>1, <3>2, Zenon DEF RecvThread, RecvStart, RecvSelect, RecvReadable,
            RecvTimeout, RecvLookup, RecvEnd, recv_callback, RecvEnqueue
  <2>3. ObjsKept
    <3>1. \A u \in Conn : Ended(t)[u].obj = rcv[u].obj /\ Ended(t)[u].link = rcv[u].link
      BY <1>0, SMT DEF Ended, NoThread
    <3>2. CASE RecvStart(t) \/ RecvReadable(t) \/ RecvData(t) \/ recv_callback(t) \/ RecvEnqueue(t)
      BY <1>0, <3>2, SMT DEF RecvStart, RecvReadable, RecvData, recv_callback,
         RecvEnqueue, RcvType, ObjsKept
    <3>3. CASE RecvSelect(t) \/ RecvTimeout(t) \/ RecvLookup(t) \/ RecvEnd(t)
      BY <1>0, <3>1, <3>3, SMT DEF RecvSelect, RecvTimeout, RecvLookup, RecvEnd,
         RcvType, ObjsKept
    <3> QED BY <2>1, <3>2, <3>3, Zenon DEF RecvThread
  <2> QED BY <1>1, <2>1, <2>2, <2>3, PartyStays DEF HangStays
<1>3. ASSUME NEW c \in Conn, FarEndNext(c)
      PROVE  HangStays /\ Stays("dial") /\ Stays("listen") /\ Goes("dial")
  <2>1. UNCHANGED <<lsn, fdTab, linkFd, linkThr, hang, out, rcv>>
    BY <1>3, Zenon DEF FarEndNext, FarEndStep, PeerSend, PeerClose, SlaveOpen
  <2>2. LinksKept
    BY <1>0, <1>3, SMT DEF FarEndNext, FarEndStep, PeerSend, PeerClose, SlaveOpen, LinksKept, ConnType
  <2> QED BY <1>1, <2>1, <2>2, PartyStays DEF HangStays, ObjsKept
<1>4. ASSUME HostNext
      PROVE  HangStays /\ Stays("dial") /\ Stays("listen") /\ Goes("dial")
  <2>1. UNCHANGED <<lsn, fdTab, linkFd, linkThr, conns, rcv>>
    BY <1>4, Zenon DEF HostNext, HostStep, OnHook, HostPacket
  <2>2. HangStays
    <3>1. CASE OnHook
      BY <1>0, <3>1, Zenon DEF OnHook, HangStays, HangType
    <3> QED BY <1>4, <3>1, Zenon DEF HostNext, HostStep, HostPacket, HangStays
  <2>3. Stays("dial")
    <3>1. CASE UNCHANGED out
      BY <3>1, PartyStays
    <3>2. ASSUME NEW p \in Packets, HostPacket(p) PROVE Stays("dial")
      <4>1. out \in OutType
        BY Zenon DEF TypeOK
      <4>2. out.pc = "read" /\ out' = [out EXCEPT !.pc = "offline"]
        BY <3>2, Zenon DEF HostPacket
      <4>3. out'.pc = "offline" /\ out'.fd = out.fd /\ out'.conn = out.conn /\ out'.link = out.link
        BY <4>1, <4>2, Zenon DEF OutType
      <4> QED BY <4>2, <4>3, SMT DEF Stays, Phase, FdOf, ConnOf, LinkOf, Party, OutHas
    <3> QED BY <1>4, <3>1, <3>2, Zenon DEF HostNext, HostStep, OnHook
  <2> QED BY <1>1, <2>1, <2>2, <2>3 DEF LinksKept, ObjsKept
<1>5. CASE AcceptFails \/ UNCHANGED vars
  BY <1>1, <1>5, PartyStays DEF AcceptFails, ListenFails, vars, HangStays, LinksKept, ObjsKept
<1> QED BY <1>2, <1>3, <1>4, <1>5

\* Together: all but the hang-up are moves of one party.
LEMMA StepMoves ==
  ASSUME TypeOK, ~Collision, [Next]_vars, ~HangUpNext
  PROVE  /\ HangStays
         /\ \/ Stays("listen") /\ Moves("dial")
            \/ Stays("dial") /\ Moves("listen")
<1>1. CASE BulkOutNext
  BY <1>1, BulkOutMoves DEF BulkOutNext, HangStays
<1>2. CASE ListenNext \/ CallerNext
  BY <1>2, ListenMoves DEF ListenNext, CallerNext, HangStays
<1>3. CASE \/ \E t \in Conn : RecvNext(t)
           \/ \E c \in Conn : FarEndNext(c)
           \/ HostNext
           \/ AcceptFails
           \/ UNCHANGED vars
  BY <1>3, OutsideMoves DEF Moves
<1> QED BY <1>1, <1>2, <1>3, Zenon DEF Next, WaitForOutside

\* A hang-up keeps hold of its link's descriptor until it was closed, and
\* then of its thread until it was joined.
HangUpTracked ==
  /\ hang.pc = "close" => hang.fd = linkFd[hang.link]
  /\ hang.pc = "zero" =>
       \/ fdTab[linkFd[hang.link]] = NoConn
       \/ \E w \in Party : Phase[w] = "has" /\ FdOf[w] = linkFd[hang.link]
  /\ hang.pc \in {"thread", "join", "delete", "null"} => linkFd[hang.link] = NoFd

\* An open descriptor is a link's, or that of the party that opened it.
FdsTracked ==
  \A f \in Fd : fdTab[f] # NoConn =>
    \/ \E k \in Link : linkFd[k] = f
    \/ \E w \in Party : Phase[w] = "has" /\ FdOf[w] = f

\* A thread that is not joined is the one that is pointed to, or is about to
\* be, and its link is up or a hang-up is about to join it.
ThreadsTracked ==
  \A t \in Conn : rcv[t].obj = "joinable" =>
    /\ \/ linkThr[rcv[t].link] = t
       \/ \E w \in Party : Phase[w] = "pointer" /\ ConnOf[w] = t
    /\ \/ linkFd[rcv[t].link] # NoFd
       \/ hang.link = rcv[t].link /\ hang.pc \in {"thread", "join"}

\* A link that has no pointer to its thread yet is that of its party, and no
\* other thread was started for it.
HalfTracked ==
  \A w \in Party : Phase[w] \in Published =>
    /\ ConnOf[w] \in Conn /\ linkFd[LinkOf[w]] \in Fd
    /\ fdTab[linkFd[LinkOf[w]]] = ConnOf[w] /\ conns[ConnOf[w]].link = LinkOf[w]
    /\ Phase[w] = "pointer" => rcv[ConnOf[w]].link = LinkOf[w]
    /\ \A t \in Conn : rcv[t].obj = "joinable" /\ rcv[t].link = LinkOf[w] =>
         Phase[w] = "pointer" /\ ConnOf[w] = t
    /\ \A v \in Party \ {w} : Phase[v] \in Published => LinkOf[v] # LinkOf[w]

Tracked == Files /\ HangUpTracked /\ FdsTracked /\ ThreadsTracked /\ HalfTracked

\* What the parties have in hand has its type, is open, and is theirs alone.
InHand ==
  /\ \A w \in Party :
       /\ FdOf[w] \in Fd \cup {NoFd} /\ ConnOf[w] \in Conn \cup {NoConn} /\ LinkOf[w] \in Link
       /\ Phase[w] \in {"has", "half", "pointer", "none"}
  /\ \A w \in Party : Phase[w] = "has" =>
       /\ FdOf[w] \in Fd /\ ConnOf[w] \in Conn /\ fdTab[FdOf[w]] = ConnOf[w]
       /\ \A v \in Party : v # w /\ Phase[v] = "has" => FdOf[v] # FdOf[w]
       /\ hang.pc = "idle" => \A k \in Link : linkFd[k] # FdOf[w]
       /\ hang.pc = "close" => hang.fd # FdOf[w]
  /\ hang.pc = "close" => hang.fd \in Fd

\* That is what each one being an owner means.
LEMMA OwnersInHand == TypeOK /\ OneOwner /\ Named => InHand
<1> SUFFICES ASSUME TypeOK, OneOwner, Named PROVE InHand
  OBVIOUS
<1>1. ASSUME NEW w \in Party
      PROVE  /\ FdOf[w] \in Fd \cup {NoFd} /\ ConnOf[w] \in Conn \cup {NoConn} /\ LinkOf[w] \in Link
             /\ Phase[w] \in {"has", "half", "pointer", "none"}
  <2>1. /\ out.fd \in Fd \cup {NoFd} /\ out.conn \in Conn \cup {NoConn} /\ out.link \in Link
        /\ lsn.fd \in Fd \cup {NoFd} /\ lsn.conn \in Conn \cup {NoConn}
    BY Zenon DEF TypeOK, OutType, LsnType
  <2>2. "sock" \in Link
    BY DEF Link
  <2> QED BY <2>1, <2>2, SMT DEF FdOf, ConnOf, LinkOf, Phase, Party
<1>2. \A w \in Party : Phase[w] = "has" =>
        /\ FdOf[w] \in Fd /\ ConnOf[w] \in Conn /\ fdTab[FdOf[w]] = ConnOf[w]
        /\ w \in Owner /\ Holders[w] = FdOf[w]
  BY SMT DEF Named, Phase, FdOf, ConnOf, Party, Owner, Holders, Holds, DialHolds, ListenHolds
<1>3. hang.pc = "idle" => \A k \in Link : k \in Owner /\ k \notin Party /\ Holders[k] = linkFd[k]
  BY SMT DEF Link, Owner, Party, Holders, Holds, LinkHolds
<1>4. hang.pc = "close" => hang.fd \in Fd /\ "hang" \in Owner /\ "hang" \notin Party /\ Holders["hang"] = hang.fd
  BY SMT DEF Named, Owner, Party, Holders, Holds, HangHolds
<1>5. \A w \in Party : Phase[w] = "has" => \A o \in Owner : o # w => Holders[o] # FdOf[w]
  BY <1>2, Apartness, SMT DEF OneOwner, Apart
<1>6. ASSUME NEW w \in Party, Phase[w] = "has"
      PROVE  /\ \A v \in Party : v # w /\ Phase[v] = "has" => FdOf[v] # FdOf[w]
             /\ hang.pc = "idle" => \A k \in Link : linkFd[k] # FdOf[w]
             /\ hang.pc = "close" => hang.fd # FdOf[w]
  BY <1>2, <1>3, <1>4, <1>5, <1>6, SMT
<1> QED BY <1>1, <1>2, <1>4, <1>6, Zenon DEF InHand

\* No hang-up is under way while a link is published.
IdleAtHalf == \A w \in Party : Phase[w] \in Published => hang.pc = "idle"

\* It would be a collision, before a step as after it.
LEMMA HalfIsIdle ==
  /\ ~Collision => IdleAtHalf
  /\ ~Collision' => IdleAtHalf'
<1>1. ~Collision => IdleAtHalf
  BY SMT DEF IdleAtHalf, Collision, SettingUp, TakingCall, Phase, Party, Published, OutHas, LsnHas
<1>2. ~Collision' => IdleAtHalf'
  BY SMT DEF IdleAtHalf, Collision, SettingUp, TakingCall, Phase, Party, Published, OutHas, LsnHas
<1> QED BY <1>1, <1>2

\* A party opens f for c.
Opening(w, f, c) ==
  /\ fdTab[f] = NoConn /\ fdTab' = [fdTab EXCEPT ![f] = c] /\ conns[c].link = "none"
  /\ conns'[c].link = LinkOf'[w]
  /\ \A d \in Conn \ {c} : conns'[d].link = conns[d].link
  /\ FdOf'[w] = f /\ ConnOf'[w] = c

\* What moves of a party do, and do not do, to files, links and threads.
LEMMA MoveFacts ==
  ASSUME TypeOK, NEW w \in Party
  PROVE  /\ Opens(w) => \E f \in Fd, c \in Conn : Opening(w, f, c)
         /\ Closes(w) => \A d \in Conn \ {ConnOf[w]} : conns'[d].link = conns[d].link
         /\ Spawns(w) /\ ConnOf[w] \in Conn =>
              /\ rcv'[ConnOf[w]].obj = "joinable" /\ rcv'[ConnOf[w]].link = LinkOf[w]
              /\ \A t \in Conn \ {ConnOf[w]} : rcv'[t] = rcv[t]
<1>0. conns \in [Conn -> ConnType] /\ rcv \in [Conn -> RcvType]
  BY Zenon DEF TypeOK
<1>1. ASSUME Opens(w)
      PROVE  \E f \in Fd, c \in Conn : Opening(w, f, c)
  <2>1. PICK f \in Fd, c \in Conn, p \in {"connecting", "unopened", "open"} :
          OpenFd(f, c, LinkOf'[w], p) /\ FdOf'[w] = f /\ ConnOf'[w] = c
    BY <1>1, Zenon DEF Opens
  <2>2. /\ fdTab[f] = NoConn /\ fdTab' = [fdTab EXCEPT ![f] = c] /\ conns[c].link = "none"
        /\ conns' = [conns EXCEPT ![c] = [UnusedConn EXCEPT !.link = LinkOf'[w], !.peer = p]]
    BY <2>1, Zenon DEF OpenFd, FreeFd, FreshConn
  <2>3. conns'[c].link = LinkOf'[w] /\ \A d \in Conn \ {c} : conns'[d].link = conns[d].link
    BY <1>0, <2>2, SMT DEF UnusedConn
  <2> QED BY <2>1, <2>2, <2>3, Zenon DEF Opening
<1>2. ASSUME Closes(w)
      PROVE  \A d \in Conn \ {ConnOf[w]} : conns'[d].link = conns[d].link
  BY <1>0, <1>2, SMT DEF Closes
<1>3. ASSUME Spawns(w), ConnOf[w] \in Conn
      PROVE  /\ rcv'[ConnOf[w]].obj = "joinable" /\ rcv'[ConnOf[w]].link = LinkOf[w]
             /\ \A t \in Conn \ {ConnOf[w]} : rcv'[t] = rcv[t]
  BY <1>0, <1>3, SMT DEF Spawns, SpawnFor, NoThread
<1> QED BY <1>1, <1>2, <1>3

\* Open files.
LEMMA MovesKeepFiles ==
  ASSUME TypeOK, InHand, InHand', IdleAtHalf, IdleAtHalf', Tracked, HangStays,
         NEW w \in Party, NEW v \in Party, v # w, Stays(v), Moves(w)
  PROVE  Files'
<1> USE DEF Files, Tracked, Stays, InHand
<1>t. fdTab \in [Fd -> Conn \cup {NoConn}] /\ conns \in [Conn -> ConnType]
  BY Zenon DEF TypeOK
<1>0. /\ \A u \in Party : u = w \/ u = v
      /\ NoConn \notin Conn /\ "none" \notin Link
  BY Apartness, SMT DEF Party, Link
<1>1. CASE Opens(w)
  <2>1. PICK f \in Fd, c \in Conn : Opening(w, f, c)
    BY <1>1, MoveFacts, Zenon
  <2> QED BY <1>t, <1>0, <2>1, SMT DEF Opening
<1>2. CASE Closes(w)
  <2>1. /\ Phase[w] = "has" /\ Phase'[w] = "none" /\ fdTab' = [fdTab EXCEPT ![FdOf[w]] = NoConn]
        /\ \A d \in Conn \ {ConnOf[w]} : conns'[d].link = conns[d].link
    BY <1>2, MoveFacts, Zenon DEF Closes, CloseFd
  <2> QED BY <1>t, <1>0, <2>1, SMT
<1>3. CASE Publishes(w) \/ Spawns(w) \/ Points(w)
  <2>1. UNCHANGED <<fdTab, conns>> /\ Phase'[w] # "has"
    BY <1>3, SMT DEF Publishes, Spawns, Points
  <2> QED BY <1>t, <1>0, <2>1, SMT
<1>4. CASE Goes(w)
  BY <1>t, <1>0, <1>4, SMT DEF Goes, LinksKept
<1> QED BY <1>1, <1>2, <1>3, <1>4 DEF Moves

\* The hang-up.
LEMMA MovesKeepHangUp ==
  ASSUME TypeOK, InHand, InHand', IdleAtHalf, IdleAtHalf', Tracked, HangStays,
         NEW w \in Party, NEW v \in Party, v # w, Stays(v), Moves(w)
  PROVE  HangUpTracked'
<1> USE DEF HangUpTracked, Tracked, Stays, InHand, HangStays
<1>t. fdTab \in [Fd -> Conn \cup {NoConn}]
  BY Zenon DEF TypeOK
<1>0. /\ \A u \in Party : u = w \/ u = v
  BY Apartness, SMT DEF Party, Link
<1>1. CASE Opens(w)
  <2>1. PICK f \in Fd, c \in Conn : Opening(w, f, c)
    BY <1>1, MoveFacts, Zenon
  <2>2. UNCHANGED linkFd /\ Phase[w] = "none" /\ Phase'[w] = "has"
    BY <1>1, Zenon DEF Opens
  <2> QED BY <1>t, <1>0, <2>1, <2>2, SMT DEF Opening
<1>2. CASE Closes(w)
  BY <1>t, <1>0, <1>2, SMT DEF Closes, CloseFd
<1>3. CASE Publishes(w)
  BY <1>3, SMT DEF Publishes
<1>4. CASE Spawns(w) \/ Points(w)
  BY <1>t, <1>0, <1>4, SMT DEF Spawns, Points
<1>5. CASE Goes(w)
  BY <1>t, <1>0, <1>5, SMT DEF Goes
<1> QED BY <1>1, <1>2, <1>3, <1>4, <1>5 DEF Moves

\* Descriptors.
LEMMA MovesKeepFds ==
  ASSUME TypeOK, InHand, InHand', IdleAtHalf, IdleAtHalf', Tracked, HangStays,
         NEW w \in Party, NEW v \in Party, v # w, Stays(v), Moves(w)
  PROVE  FdsTracked'
<1> USE DEF FdsTracked, Tracked, Stays, InHand
<1>t. fdTab \in [Fd -> Conn \cup {NoConn}] /\ linkFd \in [Link -> Fd \cup {NoFd}]
  BY Zenon DEF TypeOK
<1>0. /\ \A u \in Party : u = w \/ u = v
      /\ NoFd \notin Fd
  BY Apartness, SMT DEF Party, Link
<1>1. CASE Opens(w)
  <2>1. PICK f \in Fd, c \in Conn : Opening(w, f, c)
    BY <1>1, MoveFacts, Zenon
  <2>2. UNCHANGED linkFd /\ Phase[w] = "none" /\ Phase'[w] = "has"
    BY <1>1, Zenon DEF Opens
  <2> QED BY <1>t, <1>0, <2>1, <2>2, SMT DEF Opening
<1>2. CASE Closes(w)
  BY <1>t, <1>0, <1>2, SMT DEF Closes, CloseFd
<1>3. CASE Publishes(w)
  BY <1>t, <1>0, <1>3, SMT DEF Publishes
<1>4. CASE Spawns(w) \/ Points(w)
  BY <1>t, <1>0, <1>4, SMT DEF Spawns, Points
<1>5. CASE Goes(w)
  BY <1>t, <1>0, <1>5, SMT DEF Goes
<1> QED BY <1>1, <1>2, <1>3, <1>4, <1>5 DEF Moves

\* Threads.
LEMMA MovesKeepThreads ==
  ASSUME TypeOK, InHand, InHand', IdleAtHalf, IdleAtHalf', Tracked, HangStays,
         NEW w \in Party, NEW v \in Party, v # w, Stays(v), Moves(w)
  PROVE  ThreadsTracked'
<1> USE DEF ThreadsTracked, Tracked, Stays, InHand, HangStays
<1>t. linkThr \in [Link -> Conn \cup {NoConn}] /\ linkFd \in [Link -> Fd \cup {NoFd}]
  BY Zenon DEF TypeOK
<1>0. /\ \A u \in Party : u = w \/ u = v
      /\ NoFd \notin Fd
  BY Apartness, SMT DEF Party, Link
<1>1. CASE Opens(w) \/ Closes(w)
  BY <1>t, <1>0, <1>1, SMT DEF Opens, Closes
<1>2. CASE Publishes(w)
  BY <1>t, <1>0, <1>2, SMT DEF Publishes
<1>3. CASE Spawns(w)
  <2>1. /\ rcv'[ConnOf[w]].obj = "joinable" /\ rcv'[ConnOf[w]].link = LinkOf[w]
        /\ \A t \in Conn \ {ConnOf[w]} : rcv'[t] = rcv[t]
    <3>1. ConnOf[w] \in Conn
      BY <1>3, SMT DEF Spawns, HalfTracked, Published
    <3> QED BY <1>3, <3>1, MoveFacts, Zenon
  <2>2. /\ Phase[w] = "half" /\ Phase'[w] = "pointer" /\ ConnOf'[w] = ConnOf[w]
        /\ UNCHANGED <<linkFd, linkThr>>
    BY <1>3, Zenon DEF Spawns
  <2>3. linkFd[LinkOf[w]] # NoFd
    BY <1>t, <1>0, <2>2, SMT DEF HalfTracked, Published
  <2> QED BY <1>t, <1>0, <2>1, <2>2, <2>3, SMT
<1>4. CASE Points(w)
  BY <1>t, <1>0, <1>4, SMT DEF Points, HalfTracked, Published
<1>5. CASE Goes(w)
  BY <1>t, <1>0, <1>5, SMT DEF Goes, ObjsKept
<1> QED BY <1>1, <1>2, <1>3, <1>4, <1>5 DEF Moves

\* Links that are being brought up.
LEMMA MovesKeepHalf ==
  ASSUME TypeOK, InHand, InHand', IdleAtHalf, IdleAtHalf', Tracked, HangStays,
         NEW w \in Party, NEW v \in Party, v # w, Stays(v), Moves(w)
  PROVE  HalfTracked'
<1> USE DEF HalfTracked, Tracked, Stays, InHand, IdleAtHalf, Published
<1>t. /\ fdTab \in [Fd -> Conn \cup {NoConn}] /\ linkFd \in [Link -> Fd \cup {NoFd}]
      /\ rcv \in [Conn -> RcvType] /\ \A t \in Conn : rcv[t].link \in Link
  BY SMT DEF TypeOK, RcvType
<1>0. /\ \A u \in Party : u = w \/ u = v
      /\ NoConn \notin Conn /\ NoFd \notin Fd /\ "none" \notin Link
  BY Apartness, SMT DEF Party, Link
<1>1. CASE Opens(w)
  <2>1. PICK f \in Fd, c \in Conn : Opening(w, f, c)
    BY <1>1, MoveFacts, Zenon
  <2>2. UNCHANGED <<linkFd, rcv>> /\ Phase'[w] = "has"
    BY <1>1, Zenon DEF Opens
  <2> QED BY <1>t, <1>0, <2>1, <2>2, SMT DEF Opening
<1>2. CASE Closes(w)
  <2>1. /\ Phase[w] = "has" /\ Phase'[w] = "none" /\ fdTab' = [fdTab EXCEPT ![FdOf[w]] = NoConn]
        /\ \A d \in Conn \ {ConnOf[w]} : conns'[d].link = conns[d].link
        /\ UNCHANGED <<linkFd, rcv>>
    BY <1>2, MoveFacts, Zenon DEF Closes, CloseFd
  <2>2. Phase[v] \in Published => linkFd[LinkOf[v]] # FdOf[w] /\ ConnOf[v] # ConnOf[w]
    BY <1>t, <1>0, <2>1, SMT DEF Files
  <2> QED BY <1>t, <1>0, <2>1, <2>2, SMT
<1>3. CASE Publishes(w)
  <2>1. \A t \in Conn : rcv[t].obj = "joinable" => rcv[t].link # LinkOf[w]
    BY <1>3, SMT DEF Publishes, ThreadsTracked
  <2> QED BY <1>t, <1>0, <1>3, <2>1, SMT DEF Publishes, Files
<1>4. CASE Spawns(w)
  <2>1. /\ rcv'[ConnOf[w]].obj = "joinable" /\ rcv'[ConnOf[w]].link = LinkOf[w]
        /\ \A t \in Conn \ {ConnOf[w]} : rcv'[t] = rcv[t]
    <3>1. ConnOf[w] \in Conn
      BY <1>4, SMT DEF Spawns, HalfTracked, Published
    <3> QED BY <1>4, <3>1, MoveFacts, Zenon
  <2>2. /\ Phase[w] = "half" /\ Phase'[w] = "pointer" /\ ConnOf'[w] = ConnOf[w]
        /\ LinkOf'[w] = LinkOf[w] /\ UNCHANGED <<fdTab, conns, linkFd>>
    BY <1>4, Zenon DEF Spawns
  <2> QED BY <1>t, <1>0, <2>1, <2>2, SMT
<1>5. CASE Points(w)
  BY <1>t, <1>0, <1>5, SMT DEF Points
<1>6. CASE Goes(w)
  BY <1>t, <1>0, <1>6, SMT DEF Goes, LinksKept, ObjsKept
<1> QED BY <1>1, <1>2, <1>3, <1>4, <1>5, <1>6 DEF Moves

\* Every step but those of the hang-up.
LEMMA MovesKeepTracked ==
  ASSUME TypeOK, InHand, InHand', ~Collision, ~Collision', Tracked, [Next]_vars, ~HangUpNext
  PROVE  Tracked'
<1>1. IdleAtHalf /\ IdleAtHalf'
  BY HalfIsIdle
<1>2. ASSUME NEW w \in Party, NEW v \in Party, v # w, Stays(v), Moves(w), HangStays
      PROVE  Tracked'
  <2>1. Files' /\ HangUpTracked'
    BY <1>1, <1>2, MovesKeepFiles, MovesKeepHangUp
  <2>2. FdsTracked' /\ ThreadsTracked'
    BY <1>1, <1>2, MovesKeepFds, MovesKeepThreads
  <2>3. HalfTracked'
    BY <1>1, <1>2, MovesKeepHalf
  <2> QED BY <2>1, <2>2, <2>3 DEF Tracked
<1>3. "dial" \in Party /\ "listen" \in Party /\ "dial" # "listen"
  BY SMT DEF Party
<1> QED BY <1>2, <1>3, StepMoves

\* The hang-up: it lets go of a descriptor when it was closed, and of a
\* thread when it was joined.
LEMMA HangUpKeepsTracked ==
  ASSUME TypeOK, InHand, InHand', IdleAtHalf, Tracked, Disconnect, UNCHANGED lsn,
         hang.pc = "join" => hang.thr \in Conn /\ linkThr[hang.link] = hang.thr,
         hang.pc = "delete" => /\ linkThr[hang.link] \in Conn
                               /\ rcv[linkThr[hang.link]].obj # "joinable"
  PROVE  Tracked'
<1> USE DEF Tracked
<1>0. /\ hang \in HangType /\ hang.link \in Link
      /\ fdTab \in [Fd -> Conn \cup {NoConn}] /\ linkFd \in [Link -> Fd \cup {NoFd}]
      /\ linkThr \in [Link -> Conn \cup {NoConn}] /\ rcv \in [Conn -> RcvType]
  BY Zenon DEF TypeOK, HangType
<1>1. NoConn \notin Conn /\ NoFd \notin Fd
  BY Apartness
<1>2. /\ UNCHANGED <<out, conns>> /\ hang.pc # "idle"
      /\ \A w \in Party : Stays(w)
  <2>1. UNCHANGED <<out, conns>> /\ hang.pc # "idle"
    BY SMT DEF Disconnect, DisconnectLoad, DisconnectClose, DisconnectZero,
       DisconnectThread, DisconnectJoin, DisconnectDelete, DisconnectNull, linkVars
  <2> QED BY <2>1, PartyStays, SMT DEF Party
<1>3. \A w \in Party : Phase[w] \notin Published /\ Phase'[w] \notin Published
  BY <1>2, SMT DEF IdleAtHalf, Stays
<1>4. HalfTracked'
  BY <1>3 DEF HalfTracked
<1>5. \A t \in Conn : rcv[t].obj = "joinable" => linkThr[rcv[t].link] = t
  BY <1>3, SMT DEF ThreadsTracked, Published
<1>6. NextLink.pc \in {"check", "idle"}
  BY <1>0, Zenon DEF NextLink, HangType
<1>7. ASSUME UNCHANGED <<fdTab, rcv, linkFd, linkThr>>, hang'.pc \notin {"close", "zero"},
             hang'.pc \in {"thread", "join", "delete", "null"} => linkFd[hang'.link] = NoFd,
             \A t \in Conn : rcv[t].obj = "joinable" =>
               \/ linkFd[rcv[t].link] # NoFd
               \/ hang'.link = rcv[t].link /\ hang'.pc \in {"thread", "join"}
      PROVE  Tracked'
  <2>1. Files' /\ FdsTracked'
    BY <1>2, <1>7, SMT DEF Files, FdsTracked, Stays
  <2>2. HangUpTracked'
    BY <1>7, SMT DEF HangUpTracked
  <2>3. ThreadsTracked'
    BY <1>5, <1>7, SMT DEF ThreadsTracked
  <2> QED BY <1>4, <2>1, <2>2, <2>3
<1>8. CASE DisconnectLoad
  <2>1. hang.pc = "check" /\ UNCHANGED <<fdTab, rcv, linkFd, linkThr>>
    BY <1>8, Zenon DEF DisconnectLoad, linkVars
  <2>2. CASE linkFd[hang.link] = NoFd
    <3>1. hang'.pc \in {"check", "idle"}
      BY <1>6, <1>8, <2>2, Zenon DEF DisconnectLoad
    <3>2. \A t \in Conn : rcv[t].obj = "joinable" => linkFd[rcv[t].link] # NoFd
      BY <2>1, SMT DEF ThreadsTracked
    <3> QED BY <1>7, <2>1, <3>1, <3>2, SMT
  <2>3. CASE linkFd[hang.link] # NoFd
    <3>1. hang' = [hang EXCEPT !.pc = "close", !.fd = linkFd[hang.link]]
      BY <1>8, <2>3, Zenon DEF DisconnectLoad
    <3>2. hang'.pc = "close" /\ hang'.fd = linkFd[hang.link] /\ hang'.link = hang.link
      BY <1>0, <3>1, Zenon DEF HangType
    <3>3. Files' /\ FdsTracked'
      BY <1>2, <2>1, SMT DEF Files, FdsTracked, Stays
    <3>4. HangUpTracked' /\ ThreadsTracked'
      BY <1>5, <2>1, <3>2, SMT DEF HangUpTracked, ThreadsTracked
    <3> QED BY <1>4, <3>3, <3>4
  <2> QED BY <2>2, <2>3
<1>9. CASE DisconnectClose
  <2>1. /\ hang.pc = "close" /\ hang' = [hang EXCEPT !.pc = "zero", !.fd = NoFd]
        /\ fdTab' = [fdTab EXCEPT ![hang.fd] = NoConn] /\ UNCHANGED <<rcv, linkFd, linkThr>>
    BY <1>9, Zenon DEF DisconnectClose, CloseFd
  <2>2. hang'.pc = "zero" /\ hang'.link = hang.link
    BY <1>0, <2>1, Zenon DEF HangType
  <2>3. hang.fd \in Fd /\ hang.fd = linkFd[hang.link]
    BY <2>1, SMT DEF InHand, HangUpTracked
  <2>4. Files'
    BY <1>0, <1>1, <1>2, <2>1, <2>3, SMT DEF Files, InHand, Stays
  <2>5. FdsTracked'
    BY <1>0, <1>2, <2>1, <2>3, SMT DEF FdsTracked, Stays
  <2>6. HangUpTracked'
    BY <1>0, <2>1, <2>2, <2>3, SMT DEF HangUpTracked
  <2>7. ThreadsTracked'
    BY <1>5, <2>1, SMT DEF ThreadsTracked
  <2> QED BY <1>4, <2>4, <2>5, <2>6, <2>7
<1>10. CASE DisconnectZero
  <2>1. /\ hang.pc = "zero" /\ hang' = [hang EXCEPT !.pc = "thread"]
        /\ linkFd' = [linkFd EXCEPT ![hang.link] = NoFd] /\ UNCHANGED <<fdTab, rcv, linkThr>>
    BY <1>10, Zenon DEF DisconnectZero
  <2>2. hang'.pc = "thread" /\ hang'.link = hang.link
    BY <1>0, <2>1, Zenon DEF HangType
  <2>3. Files'
    BY <1>2, <2>1, SMT DEF Files, Stays
  <2>4. FdsTracked'
    BY <1>0, <1>1, <1>2, <2>1, SMT DEF FdsTracked, HangUpTracked, Stays
  <2>5. HangUpTracked'
    BY <1>0, <2>1, <2>2, SMT DEF HangUpTracked
  <2>6. ThreadsTracked'
    BY <1>0, <1>5, <2>1, <2>2, SMT DEF ThreadsTracked
  <2> QED BY <1>4, <2>3, <2>4, <2>5, <2>6
<1>11. CASE DisconnectThread
  <2> DEFINE t == linkThr[hang.link]
  <2>1. hang.pc = "thread" /\ UNCHANGED <<fdTab, rcv, linkFd, linkThr>>
    BY <1>11, Zenon DEF DisconnectThread, linkVars
  <2>2. linkFd[hang.link] = NoFd
    BY <2>1, SMT DEF HangUpTracked
  <2>3. CASE t # NoConn /\ rcv[t].obj = "joinable"
    <3>1. hang' = [hang EXCEPT !.pc = "join", !.thr = t]
      BY <1>11, <2>3, Zenon DEF DisconnectThread
    <3>2. hang'.pc = "join" /\ hang'.link = hang.link
      BY <1>0, <3>1, Zenon DEF HangType
    <3>3. \A u \in Conn : rcv[u].obj = "joinable" =>
            linkFd[rcv[u].link] # NoFd \/ hang.link = rcv[u].link
      BY SMT DEF ThreadsTracked
    <3> QED BY <1>7, <2>1, <2>2, <3>2, <3>3, SMT
  <2>4. CASE ~(t # NoConn /\ rcv[t].obj = "joinable")
    <3>1. hang' = NextLink \/ hang' = [hang EXCEPT !.pc = "delete"]
      BY <1>11, <2>4, Zenon DEF DisconnectThread
    <3>2. hang'.pc \in {"check", "idle"} \/ (hang'.pc = "delete" /\ hang'.link = hang.link)
      BY <1>0, <1>6, <3>1, Zenon DEF HangType
    <3>3. \A u \in Conn : rcv[u].obj = "joinable" => linkFd[rcv[u].link] # NoFd
      BY <1>1, <1>5, <2>4, SMT DEF ThreadsTracked
    <3> QED BY <1>7, <2>1, <2>2, <3>2, <3>3, SMT
  <2> QED BY <2>3, <2>4
<1>12. ASSUME UNCHANGED <<fdTab, linkFd>>, linkFd[hang.link] = NoFd,
              hang'.pc \in {"check", "idle"} \/
                (hang'.pc \in {"delete", "null"} /\ hang'.link = hang.link),
              \A t \in Conn : rcv'[t].link = rcv[t].link,
              \A t \in Conn : rcv'[t].obj = "joinable" =>
                rcv[t].obj = "joinable" /\ linkFd[rcv[t].link] # NoFd /\ linkThr'[rcv[t].link] = t
       PROVE  Tracked'
  <2>1. Files' /\ FdsTracked'
    BY <1>2, <1>12, SMT DEF Files, FdsTracked, Stays
  <2>2. HangUpTracked' /\ ThreadsTracked'
    BY <1>12, SMT DEF HangUpTracked, ThreadsTracked
  <2> QED BY <1>4, <2>1, <2>2
<1>13. CASE DisconnectJoin
  <2>1. /\ hang.pc = "join" /\ rcv' = [rcv EXCEPT ![hang.thr].obj = "joined"]
        /\ hang' = [hang EXCEPT !.pc = "delete", !.thr = NoConn]
        /\ UNCHANGED <<fdTab, linkFd, linkThr>>
    BY <1>13, Zenon DEF DisconnectJoin
  <2>2. hang'.pc = "delete" /\ hang'.link = hang.link
    BY <1>0, <2>1, Zenon DEF HangType
  <2>3. linkFd[hang.link] = NoFd
    BY <2>1, SMT DEF HangUpTracked
  <2>4. /\ \A t \in Conn : rcv'[t].link = rcv[t].link
        /\ \A t \in Conn : rcv'[t].obj = "joinable" => rcv[t].obj = "joinable" /\ t # hang.thr
    BY <1>0, <2>1, SMT DEF RcvType
  <2>5. \A t \in Conn : rcv'[t].obj = "joinable" => linkFd[rcv[t].link] # NoFd
    BY <1>5, <2>1, <2>4, SMT DEF ThreadsTracked
  <2> QED BY <1>5, <1>12, <2>1, <2>2, <2>3, <2>4, <2>5, SMT
<1>14. CASE DisconnectDelete
  <2> DEFINE t == linkThr[hang.link]
  <2>1. /\ hang.pc = "delete" /\ rcv' = [rcv EXCEPT ![t].obj = "deleted"]
        /\ hang' = [hang EXCEPT !.pc = "null"] /\ UNCHANGED <<fdTab, linkFd, linkThr>>
    BY <1>14, Zenon DEF DisconnectDelete
  <2>2. hang'.pc = "null" /\ hang'.link = hang.link
    BY <1>0, <2>1, Zenon DEF HangType
  <2>3. linkFd[hang.link] = NoFd
    BY <2>1, SMT DEF HangUpTracked
  <2>4. /\ \A u \in Conn : rcv'[u].link = rcv[u].link
        /\ \A u \in Conn : rcv'[u].obj = "joinable" => rcv[u].obj = "joinable"
    BY <1>0, <2>1, SMT DEF RcvType
  <2>5. \A u \in Conn : rcv'[u].obj = "joinable" => linkFd[rcv[u].link] # NoFd
    BY <2>1, <2>4, SMT DEF ThreadsTracked
  <2> QED BY <1>5, <1>12, <2>1, <2>2, <2>3, <2>4, <2>5, SMT
<1>15. CASE DisconnectNull
  <2>1. /\ hang.pc = "null" /\ linkThr' = [linkThr EXCEPT ![hang.link] = NoConn]
        /\ hang' = NextLink /\ UNCHANGED <<fdTab, linkFd, rcv>>
    BY <1>15, Zenon DEF DisconnectNull
  <2>2. linkFd[hang.link] = NoFd
    BY <2>1, SMT DEF HangUpTracked
  <2>3. \A u \in Conn : rcv[u].obj = "joinable" => linkFd[rcv[u].link] # NoFd
    BY <2>1, SMT DEF ThreadsTracked
  <2>4. \A u \in Conn : rcv[u].obj = "joinable" => linkThr'[rcv[u].link] = u
    <3>1. \A u \in Conn : rcv[u].link \in Link
      BY <1>0, SMT DEF RcvType
    <3> QED BY <1>0, <1>5, <2>1, <2>2, <2>3, <3>1, SMT
  <2> QED BY <1>6, <1>12, <2>1, <2>2, <2>3, <2>4, SMT
<1> QED BY <1>8, <1>9, <1>10, <1>11, <1>13, <1>14, <1>15, Zenon DEF Disconnect

\* Everything is tracked in every state, until there is a collision.
LEMMA StaysTracked == Spec => [](~collided => Tracked)
<1>1. Init => Tracked
  <2> SUFFICES ASSUME Init PROVE Tracked
    OBVIOUS
  <2>1. /\ out.pc = "read" /\ lsn.pc \in {"off", "accept"} /\ hang.pc = "idle"
        /\ fdTab = [f \in Fd |-> NoConn] /\ rcv = [c \in Conn |-> NoThread]
    BY Zenon DEF Init, LinkInit, SockInit
  <2>2. /\ \A w \in Party : Phase[w] = "none"
        /\ \A f \in Fd : fdTab[f] = NoConn
        /\ \A t \in Conn : rcv[t].obj = "none"
    BY <2>1, SMT DEF Phase, Party, OutHas, LsnHas, NoThread
  <2> QED BY <2>1, <2>2, SMT DEF Tracked, Files, HangUpTracked, FdsTracked, ThreadsTracked,
          HalfTracked, Published
<1>2. /\ TypeOK /\ InHand /\ InHand' /\ Undisturbed /\ Undisturbed'
      /\ (~collided => Tracked) /\ [Next]_vars
      => (~collided' => Tracked')
  <2> SUFFICES ASSUME TypeOK, InHand, InHand', Undisturbed, Undisturbed',
                      ~collided => Tracked, [Next]_vars, ~collided'
               PROVE  Tracked'
    OBVIOUS
  <2>1. Ghost \/ UNCHANGED collided
    BY Zenon DEF vars, Next, HangUpNext, BulkOutNext, ListenNext, RecvNext, HostNext,
       CallerNext, AcceptFails, FarEndNext, WaitForOutside
  <2>2. ~collided
    BY <2>1, Zenon DEF Ghost, TypeOK
  <2>3. Tracked /\ ~Collision /\ ~Collision'
    BY <2>2 DEF Undisturbed
  <2>4. CASE HangUpNext
    BY <2>2, <2>3, <2>4, HangUpKeepsTracked, HalfIsIdle DEF HangUpNext, Undisturbed
  <2>5. CASE ~HangUpNext
    BY <2>3, <2>5, MovesKeepTracked
  <2> QED BY <2>4, <2>5
<1>3. Spec => [](TypeOK /\ InHand /\ Undisturbed)
  <2>1. TypeOK /\ OneOwner /\ Named => InHand
    BY OwnersInHand
  <2> QED BY <2>1, TypeCorrect, OwnersKept, StaysUndisturbed, PTL
<1> QED BY <1>1, <1>2, <1>3, PTL DEF Spec

\* Without a collision nothing is lost track of: each open descriptor is
\* comm_fd, master_fd or in the hands of the thread that opened it, and each
\* std::thread that was not joined is the one recv_thread_ptr points to, or
\* about to be.
THEOREM NoneLost == Spec => []NothingLeaks
<1>1. (~collided => Tracked) => NothingLeaks
  <2> SUFFICES ASSUME Tracked PROVE NothingLeaks
    BY DEF NothingLeaks
  <2>1. /\ \A f \in Fd, w \in Party : Phase[w] = "has" /\ FdOf[w] = f =>
             \/ out.pc \in {"connect", "publish"} /\ out.fd = f
             \/ lsn.pc \in {"check", "refuse", "publish"} /\ lsn.fd = f
        /\ \A t \in Conn, w \in Party : Phase[w] = "pointer" /\ ConnOf[w] = t =>
             \/ out.pc = "pointer" /\ out.conn = t
             \/ lsn.pc = "pointer" /\ lsn.conn = t
    BY SMT DEF Phase, FdOf, ConnOf, Party, OutHas, LsnHas
  <2> QED BY <2>1, SMT DEF NothingLeaks, Tracked, FdsTracked, ThreadsTracked
<1> QED BY <1>1, StaysTracked, PTL

-----------------------------------------------------------------------------
(* The carrier has its link.                                               *)

\* The descriptor of a link is that of a connection of its kind, but while a
\* hang-up has closed it and not cleared the variable yet.
Clearing(k) == hang.pc = "zero" /\ hang.link = k
LinkFiles ==
  \A k \in Link : linkFd[k] \in Fd /\ ~Clearing(k) =>
    fdTab[linkFd[k]] \in Conn /\ conns[fdTab[linkFd[k]]].link = k

\* What a party has opened is no link's.
Parted ==
  \A w \in Party : Phase[w] = "has" =>
    \A k \in Link : ~Clearing(k) => linkFd[k] # FdOf[w]

\* That, too, is what each one being an owner means.
LEMMA OwnersParted == TypeOK /\ OneOwner /\ Named => Parted
<1> SUFFICES ASSUME TypeOK, OneOwner, Named, NEW w \in Party, Phase[w] = "has",
                    NEW k \in Link, ~Clearing(k)
             PROVE  linkFd[k] # FdOf[w]
  BY DEF Parted
<1>1. /\ FdOf[w] \in Fd /\ w \in Owner /\ Holders[w] = FdOf[w]
  BY SMT DEF Named, Phase, FdOf, Party, Owner, Holders, Holds, DialHolds, ListenHolds
<1>2. \A o \in Owner : o # w => Holders[o] # FdOf[w]
  BY <1>1, Apartness, SMT DEF OneOwner, Apart
<1>3. k \in Owner /\ k # w /\ "hang" \in Owner /\ "hang" # w
  BY SMT DEF Link, Owner, Party
<1>4. Holders[k] = linkFd[k] \/ Holders["hang"] = linkFd[k]
  BY SMT DEF Clearing, Link, Owner, Holders, Holds, LinkHolds, HangHolds
<1> QED BY <1>2, <1>3, <1>4, SMT

\* Links go on naming what they named: whoever opens, closes or publishes a
\* descriptor, it is none of theirs.
LEMMA MovesKeepLinkFiles ==
  ASSUME TypeOK, InHand, Parted, Files, LinkFiles, HangStays, NEW w \in Party, Moves(w)
  PROVE  LinkFiles'
<1> USE DEF LinkFiles, Clearing, HangStays
<1>t. /\ fdTab \in [Fd -> Conn \cup {NoConn}] /\ linkFd \in [Link -> Fd \cup {NoFd}]
      /\ NoConn \notin Conn /\ "none" \notin Link /\ LinkOf[w] \in Link
  BY Apartness, SMT DEF TypeOK, InHand, Link
<1>1. CASE Opens(w)
  <2>1. PICK f \in Fd, c \in Conn : Opening(w, f, c)
    BY <1>1, MoveFacts, Zenon
  <2>2. UNCHANGED linkFd
    BY <1>1, Zenon DEF Opens
  <2> QED BY <1>t, <2>1, <2>2, SMT DEF Opening
<1>2. CASE Closes(w)
  <2>1. /\ Phase[w] = "has" /\ fdTab' = [fdTab EXCEPT ![FdOf[w]] = NoConn] /\ UNCHANGED linkFd
        /\ \A d \in Conn \ {ConnOf[w]} : conns'[d].link = conns[d].link
    BY <1>2, MoveFacts, Zenon DEF Closes, CloseFd
  <2>2. /\ FdOf[w] \in Fd /\ fdTab[FdOf[w]] = ConnOf[w]
        /\ \A k \in Link : ~Clearing(k) => linkFd[k] # FdOf[w]
    BY <2>1, Zenon DEF InHand, Parted
  <2>3. \A g \in Fd : fdTab[g] \in Conn /\ g # FdOf[w] => fdTab[g] # ConnOf[w]
    BY <1>t, <2>2, SMT DEF Files
  <2> QED BY <1>t, <2>1, <2>2, <2>3, SMT
<1>3. CASE Publishes(w)
  <2>1. /\ FdOf[w] \in Fd /\ fdTab[FdOf[w]] = ConnOf[w] /\ ConnOf[w] \in Conn
        /\ conns[ConnOf[w]].link = LinkOf[w]
    BY <1>3, Zenon DEF Publishes, Files
  <2>2. linkFd' = [linkFd EXCEPT ![LinkOf[w]] = FdOf[w]] /\ UNCHANGED <<fdTab, conns>>
    BY <1>3, Zenon DEF Publishes
  <2> QED BY <1>t, <2>1, <2>2, SMT
<1>4. CASE Spawns(w) \/ Points(w)
  BY <1>4, SMT DEF Spawns, Points
<1>5. CASE Goes(w)
  BY <1>t, <1>5, SMT DEF Goes, LinksKept
<1> QED BY <1>1, <1>2, <1>3, <1>4, <1>5 DEF Moves

\* The hang-up closes only what the link it works on names.
LEMMA HangUpKeepsLinkFiles ==
  ASSUME TypeOK, InHand, HangUpTracked, LinkFiles, Disconnect
  PROVE  LinkFiles'
<1> USE DEF LinkFiles, Clearing
<1>0. /\ hang \in HangType /\ hang.link \in Link
      /\ fdTab \in [Fd -> Conn \cup {NoConn}] /\ linkFd \in [Link -> Fd \cup {NoFd}]
      /\ NoFd \notin Fd /\ NextLink.pc \in {"check", "idle"}
  <2>1. hang \in HangType /\ hang.link \in Link
    BY Zenon DEF TypeOK, HangType
  <2>2. NextLink.pc \in {"check", "idle"}
    BY <2>1, Zenon DEF NextLink, HangType
  <2>3. fdTab \in [Fd -> Conn \cup {NoConn}] /\ linkFd \in [Link -> Fd \cup {NoFd}]
    BY Zenon DEF TypeOK
  <2> QED BY <2>1, <2>2, <2>3, Apartness
<1>1. CASE DisconnectClose
  <2>1. /\ hang.pc = "close" /\ hang' = [hang EXCEPT !.pc = "zero", !.fd = NoFd]
        /\ fdTab' = [fdTab EXCEPT ![hang.fd] = NoConn] /\ UNCHANGED <<linkFd, conns>>
    BY <1>1, Zenon DEF DisconnectClose, CloseFd
  <2>2. hang'.pc = "zero" /\ hang'.link = hang.link
    BY <1>0, <2>1, Zenon DEF HangType
  <2>3. hang.fd \in Fd /\ hang.fd = linkFd[hang.link]
    BY <2>1, SMT DEF InHand, HangUpTracked
  <2>4. \A k \in Link : k # hang.link /\ linkFd[k] \in Fd => linkFd[k] # hang.fd
    BY <1>0, <2>1, <2>3, SMT
  <2> QED BY <1>0, <2>1, <2>2, <2>3, <2>4, SMT
<1>2. CASE DisconnectZero
  <2>1. /\ hang.pc = "zero" /\ hang' = [hang EXCEPT !.pc = "thread"]
        /\ linkFd' = [linkFd EXCEPT ![hang.link] = NoFd] /\ UNCHANGED <<fdTab, conns>>
    BY <1>2, Zenon DEF DisconnectZero
  <2> QED BY <1>0, <2>1, SMT
<1>3. CASE \/ DisconnectLoad \/ DisconnectThread \/ DisconnectJoin \/ DisconnectDelete
           \/ DisconnectNull
  <2>1. UNCHANGED <<fdTab, linkFd, conns>> /\ hang.pc # "zero"
    BY <1>3, SMT DEF DisconnectLoad, DisconnectThread, DisconnectJoin, DisconnectDelete,
       DisconnectNull, linkVars
  <2> QED BY <2>1, SMT
<1> QED BY <1>1, <1>2, <1>3 DEF Disconnect

\* A link names connection c.
OnLine(c) == \E k \in Link : linkFd[k] \in Fd /\ fdTab[linkFd[k]] = c

\* It goes on doing so as long as nobody hangs up.
LEMMA LinesStay ==
  ASSUME TypeOK, InHand, Parted, hang.pc = "idle", NEW w \in Party, Moves(w),
         NEW c \in Conn, OnLine(c)
  PROVE  OnLine(c)'
<1> USE DEF OnLine
<1>t. /\ fdTab \in [Fd -> Conn \cup {NoConn}] /\ linkFd \in [Link -> Fd \cup {NoFd}]
      /\ NoConn \notin Conn /\ NoFd \notin Fd /\ LinkOf[w] \in Link
  BY Apartness, SMT DEF TypeOK, InHand
<1>1. PICK k \in Link : linkFd[k] \in Fd /\ fdTab[linkFd[k]] = c
  OBVIOUS
<1>2. SUFFICES linkFd'[k] = linkFd[k] /\ fdTab'[linkFd[k]] = c
  BY <1>1, SMT
<1>3. CASE Opens(w)
  <2>1. PICK f \in Fd, d \in Conn : Opening(w, f, d)
    BY <1>3, MoveFacts, Zenon
  <2>2. UNCHANGED linkFd
    BY <1>3, Zenon DEF Opens
  <2> QED BY <1>t, <1>1, <2>1, <2>2, SMT DEF Opening
<1>4. CASE Closes(w)
  <2>1. /\ Phase[w] = "has" /\ fdTab' = [fdTab EXCEPT ![FdOf[w]] = NoConn] /\ UNCHANGED linkFd
    BY <1>4, Zenon DEF Closes, CloseFd
  <2>2. linkFd[k] # FdOf[w]
    BY <2>1, SMT DEF Parted, Clearing
  <2> QED BY <1>t, <1>1, <2>1, <2>2, SMT
<1>5. CASE Publishes(w)
  BY <1>t, <1>1, <1>5, SMT DEF Publishes
<1>6. CASE Spawns(w) \/ Points(w) \/ Goes(w)
  BY <1>1, <1>6, SMT DEF Spawns, Points, Goes
<1> QED BY <1>3, <1>4, <1>5, <1>6 DEF Moves

\* The bulk OUT thread has a connection to announce.
Telling == out.pc = "isp" \/ (out.pc = "reply" /\ out.reply = "CONNECT")

\* It is the one whose set-up just ended, or the one the socket has when ATA
\* is executed.
LEMMA TellingMoves ==
  ASSUME TypeOK, [Next]_vars, Telling', out'.conn # NoConn
  PROVE  \/ Telling /\ out'.conn = out.conn
         \/ Phase["dial"] = "pointer" /\ out'.conn = out.conn
         \/ linkFd["sock"] # NoFd /\ out'.conn = fdTab[linkFd["sock"]]
<1> USE DEF sessionVars, linkVars, ctxVars
<1>0. out \in OutType
  BY DEF TypeOK
<1>1. CASE UNCHANGED out
  BY <1>1 DEF Telling
<1>2. CASE BulkOut
  <2>1. CASE ConnectPointer
    <3>1. out.pc = "pointer" /\ out'.conn = out.conn
      BY <1>0, <2>1, Zenon DEF ConnectPointer, OutType
    <3> QED BY <3>1, SMT DEF Phase, Party, OutHas
  <2>2. CASE setupISP
    <3>1. out.pc = "isp" /\ out'.conn = out.conn
      BY <1>0, <2>2, Zenon DEF setupISP, OutType
    <3> QED BY <3>1 DEF Telling
  <2>3. CASE AtAnswer
    <3>1. out'.conn = FileOf(linkFd["sock"])
      BY <1>0, <2>3, Zenon DEF AtAnswer, OutType, FileOf, TypeOK, Link
    <3> QED BY <3>1, Zenon DEF FileOf
  <2>4. CASE AtPlain \/ AtNoSock \/ SockRefused \/ PtyFailed
    <3>1. out'.pc = "reply" /\ out'.reply \in {"OK", "BUSY"}
      BY <1>0, <2>4, Zenon DEF AtPlain, AtNoSock, SockRefused, PtyFailed, OutType, ResultCode
    <3> QED BY <3>1, SMT DEF Telling
  <2>5. CASE AtDial \/ TakeLine \/ AtReply \/ Route
    <3>1. out' = out \/ out'.pc \in {"socket", "echo", "cmd", "raise", "offline", "send", "sent"}
      BY <1>0, <2>5, Zenon DEF AtDial, TakeLine, AtReply, Route, SendLoad, OutType
    <3> QED BY <1>1, <3>1, SMT DEF Telling
  <2>6. CASE \/ OfflineDone \/ AtEcho \/ AtExt \/ AtPpp \/ AtRaise \/ OnlineDone
             \/ ClearBuffer \/ SockSocket \/ SockConnected \/ PtyOpened \/ ConnectPublish
             \/ ConnectSpawn \/ SendWrite
    <3>1. out'.pc \in {"online", "cmd", "offline", "pty", "read", "connect", "publish",
                       "spawn", "pointer", "sent"}
      BY <1>0, <2>6, Zenon DEF OfflineDone, AtEcho, AtExt, AtPpp, AtRaise, OnlineDone,
         ClearBuffer, SockSocket, SockConnected, PtyOpened, ConnectPublish, ConnectSpawn,
         SendWrite, OutType
    <3> QED BY <3>1, SMT DEF Telling
  <2> QED BY <1>2, <2>1, <2>2, <2>3, <2>4, <2>5, <2>6, Zenon
          DEF BulkOut, SockConnect, PtyConnect, ConnectTail
<1>3. CASE ~BulkOutNext
  <2>1. CASE out.pc = "read" /\ out' = [out EXCEPT !.pc = "offline"]
    <3>1. out'.pc = "offline"
      BY <1>0, <2>1, Zenon DEF OutType
    <3> QED BY <3>1, SMT DEF Telling
  <2> QED BY <1>1, <1>3, <2>1, OthersEffect
<1> QED BY <1>2, <1>3 DEF BulkOutNext

\* No CONNECT is sent.
SameCall ==
  \A i \in 1..Len(tx') : IsLastConnect(i)' =>
    i \in 1..Len(tx) /\ IsLastConnect(i) /\ tx'[i] = tx[i]

\* Whatever else is put into the buffer is none.
LEMMA OtherPieces ==
  ASSUME TypeOK
  PROVE  /\ UNCHANGED tx => SameCall
         /\ \A code, c, n : Enqueue(code, c, n) /\ code # "CONNECT" => SameCall
         /\ \A c, n : Enqueue("CONNECT", c, n) =>
              \A i \in 1..Len(tx') : IsLastConnect(i)' => tx'[i].conn = c
<1>1. ASSUME UNCHANGED tx PROVE SameCall
  BY <1>1 DEF SameCall, IsLastConnect
<1>2. ASSUME NEW code, NEW c, NEW n, Enqueue(code, c, n)
      PROVE  /\ Len(tx) \in Nat /\ Len(tx') = Len(tx) + 1
             /\ tx'[Len(tx) + 1].code = code /\ tx'[Len(tx) + 1].conn = c
             /\ \A i \in 1..Len(tx) : tx'[i] = tx[i]
  <2>1. tx \in Seq(Piece)
    BY DEF TypeOK
  <2>2. /\ Len(tx') = Len(tx) + 1
        /\ tx'[Len(tx')] = [code |-> code, conn |-> c, n |-> n]
        /\ \A i \in 1..Len(tx) : tx'[i] = tx[i]
    BY <1>2, <2>1, EnqueueSent
  <2>3. Len(tx) \in Nat
    BY <2>1, SMT
  <2> QED BY <2>2, <2>3
<1>3. ASSUME NEW code, NEW c, NEW n, Enqueue(code, c, n), code # "CONNECT"
      PROVE  SameCall
  <2> SUFFICES ASSUME NEW i \in 1..Len(tx'), IsLastConnect(i)'
               PROVE  i \in 1..Len(tx) /\ IsLastConnect(i) /\ tx'[i] = tx[i]
    BY DEF SameCall
  <2>1. /\ Len(tx) \in Nat /\ Len(tx') = Len(tx) + 1 /\ tx'[Len(tx) + 1].code = code
        /\ \A j \in 1..Len(tx) : tx'[j] = tx[j]
    BY <1>2, <1>3
  <2>2. tx'[i].code = "CONNECT" /\ \A j \in i + 1 .. Len(tx') : tx'[j].code # "CONNECT"
    BY DEF IsLastConnect
  <2>3. i \in 1..Len(tx)
    BY <1>3, <2>1, <2>2, SMT
  <2>4. \A j \in i + 1 .. Len(tx) : j \in i + 1 .. Len(tx') /\ tx'[j] = tx[j]
    BY <2>1, <2>3, SMT
  <2> QED BY <2>1, <2>2, <2>3, <2>4 DEF IsLastConnect
<1>4. ASSUME NEW c, NEW n, Enqueue("CONNECT", c, n), NEW i \in 1..Len(tx'), IsLastConnect(i)'
      PROVE  tx'[i].conn = c
  <2>1. /\ Len(tx) \in Nat /\ Len(tx') = Len(tx) + 1
        /\ tx'[Len(tx) + 1].code = "CONNECT" /\ tx'[Len(tx) + 1].conn = c
    BY <1>2, <1>4
  <2>2. \A j \in i + 1 .. Len(tx') : tx'[j].code # "CONNECT"
    BY <1>4 DEF IsLastConnect
  <2>3. i = Len(tx) + 1
    BY <2>1, <2>2, SMT
  <2> QED BY <2>1, <2>3
<1> QED BY <1>1, <1>3, <1>4

\* The carrier is up, or about to rise.
Rising == connected \/ out.pc = "raise"

\* It rises only with a CONNECT that is sent in the same step, and stays up
\* only over calls that stay the same.
LEMMA RisingMoves ==
  ASSUME TypeOK, CarrierInv, [Next]_vars, Rising'
  PROVE  \/ Rising /\ SameCall
         \/ Telling /\ Enqueue("CONNECT", out.conn, 0)
<1> USE DEF sessionVars, linkVars, ctxVars
<1>0. out \in OutType
  BY DEF TypeOK
<1>1. CASE BulkOut
  <2>1. CASE \/ AtEcho \/ AtExt \/ AtPlain \/ AtAnswer \/ AtPpp \/ AtNoSock \/ AtDial
             \/ SockConnect \/ PtyConnect \/ setupISP \/ ConnectTail
    <3>1. Executing /\ UNCHANGED connected
      BY <2>1, Zenon DEF Executing, AtEcho, AtExt, AtPlain, AtAnswer, AtPpp, AtNoSock, AtDial,
         Cmd, SockConnect, SockSocket, SockConnected, SockRefused, PtyConnect, PtyOpened,
         PtyFailed, setupISP, ConnectTail, ConnectPublish, ConnectSpawn, ConnectPointer
    <3>2. out'.pc # "raise"
      BY <1>0, <2>1, Zenon DEF OutType, AtEcho, AtExt, AtPlain, AtAnswer, AtPpp, AtNoSock,
         AtDial, Cmd, SockConnect, SockSocket, SockConnected, SockRefused, PtyConnect, PtyOpened,
         PtyFailed, setupISP, ConnectTail, ConnectPublish, ConnectSpawn, ConnectPointer
    <3> QED BY <3>1, <3>2, Zenon DEF CarrierInv, Rising
  <2>2. CASE TakeLine
    <3>1. ~connected' /\ out'.pc \in {"offline", "echo", "cmd"}
      BY <1>0, <2>2, Zenon DEF TakeLine, OutType
    <3> QED BY <3>1, SMT DEF Rising
  <2>3. CASE OfflineDone \/ OnlineDone \/ Route \/ ClearBuffer \/ SendWrite
    <3>1. UNCHANGED <<connected, tx>> /\ out'.pc \in {"online", "read", "sent", "send"}
      BY <1>0, <2>3, Zenon DEF OutType, OfflineDone, OnlineDone, Route, SendLoad, ClearBuffer,
         SendWrite
    <3> QED BY <3>1, OtherPieces, SMT DEF Rising
  <2>4. CASE AtReply
    <3>1. out.pc = "reply" /\ UNCHANGED connected /\ Enqueue(out.reply, out.conn, 0)
      BY <2>4, Zenon DEF AtReply
    <3>2. ~connected'
      BY <3>1, Zenon DEF CarrierInv, Executing
    <3>3. out.reply # "CONNECT" => out'.pc = "offline"
      BY <1>0, <2>4, Zenon DEF AtReply, OutType
    <3>4. out.reply = "CONNECT"
      BY <3>2, <3>3, SMT DEF Rising
    <3> QED BY <3>1, <3>4 DEF Telling
  <2>5. CASE AtRaise
    <3>1. out.pc = "raise" /\ UNCHANGED tx
      BY <2>5, Zenon DEF AtRaise
    <3> QED BY <3>1, OtherPieces DEF Rising
  <2> QED BY <1>1, <2>1, <2>2, <2>3, <2>4, <2>5 DEF BulkOut
<1>2. CASE ~BulkOutNext
  <2>1. out'.pc = "raise" => out.pc = "raise"
    <3>1. CASE UNCHANGED out
      BY <3>1
    <3>2. CASE out.pc = "read" /\ out' = [out EXCEPT !.pc = "offline"]
      <4>1. out'.pc = "offline"
        BY <1>0, <3>2, Zenon DEF OutType
      <4> QED BY <4>1
    <3> QED BY <1>2, <3>1, <3>2, OthersEffect
  <2>2. CASE connected' = FALSE /\ UNCHANGED tx
    BY <2>1, <2>2, OtherPieces DEF Rising
  <2>3. CASE UNCHANGED <<connected, tx>>
    BY <2>1, <2>3, OtherPieces DEF Rising
  <2>4. CASE UNCHANGED connected /\ OtherSent
    <3>1. PICK code, c, n : code \in {"RING", "DATA"} /\ Enqueue(code, c, n)
      BY <2>4 DEF OtherSent
    <3>2. SameCall
      BY <3>1, OtherPieces, SMT
    <3> QED BY <2>1, <2>4, <3>2 DEF Rising
  <2> QED BY <1>2, <2>2, <2>3, <2>4, OthersEffect
<1> QED BY <1>1, <1>2 DEF BulkOutNext

\* Nothing goes up under a hang-up, and what goes up has a link.
Carried ==
  /\ LinkFiles
  /\ hang.pc # "idle" => ~Rising /\ ~Telling
  /\ Telling /\ out.conn # NoConn => OnLine(out.conn)
  /\ Rising => \A i \in 1..Len(tx) :
       IsLastConnect(i) /\ tx[i].conn # NoConn => OnLine(tx[i].conn)

\* Under a hang-up the carrier is down, and nobody announces one: it would
\* be a collision.
LEMMA NoneRisesUnderHangUp ==
  ASSUME TypeOK, CarrierInv, ~Collision, ~Collision', Carried, [Next]_vars
  PROVE  hang'.pc # "idle" => ~Rising' /\ ~Telling'
<1> SUFFICES ASSUME hang'.pc # "idle" PROVE ~connected'
  BY SMT DEF Collision, SettingUp, Rising, Telling
<1>1. CASE OnHook
  BY <1>1 DEF OnHook
<1>2. CASE ~OnHook
  <2>1. hang.pc # "idle"
    <3>1. CASE UNCHANGED hang
      BY <3>1
    <3>2. CASE Disconnect
      BY <3>2, SMT DEF Disconnect, DisconnectLoad, DisconnectClose, DisconnectZero,
         DisconnectThread, DisconnectJoin, DisconnectDelete, DisconnectNull
    <3>3. CASE BulkOut \/ ListenTail \/ ListenAccept
      BY <3>1, <3>3, BulkOutMoves, ListenMoves
    <3>4. CASE (\E t \in Conn : RecvNext(t)) \/ (\E c \in Conn : FarEndNext(c))
               \/ HostNext \/ AcceptFails \/ UNCHANGED vars
      <4>1. UNCHANGED hang
        BY <1>2, <3>4, Zenon DEF RecvNext, RecvThread, RecvStart, RecvSelect, RecvReadable,
           RecvTimeout, RecvLookup, RecvData, RecvEnd, recv_callback, RecvEnqueue, FarEndNext,
           FarEndStep, PeerSend, PeerClose, SlaveOpen, HostNext, HostStep, HostPacket,
           AcceptFails, ListenFails, linkVars, vars
      <4> QED BY <3>1, <4>1
    <3> QED BY <3>2, <3>3, <3>4, Zenon DEF Next, HangUpNext, BulkOutNext, ListenNext,
            CallerNext, WaitForOutside
  <2>2. ~Rising /\ ~Telling
    BY <2>1 DEF Carried
  <2>3. ~Rising'
    BY <2>2, RisingMoves
  <2> QED BY <2>3 DEF Rising
<1> QED BY <1>1, <1>2

\* A step between collisions.
LEMMA CarriedInductive ==
  ASSUME TypeOK, InHand, Parted, CarrierInv, ~Collision, ~Collision', Tracked, Carried,
         [Next]_vars
  PROVE  Carried'
<1>1. hang'.pc # "idle" => ~Rising' /\ ~Telling'
  BY NoneRisesUnderHangUp
<1>2. CASE HangUpNext
  <2>1. LinkFiles'
    BY <1>2, HangUpKeepsLinkFiles DEF HangUpNext, Tracked, Carried
  <2>2. hang.pc # "idle"
    BY <1>2, SMT DEF HangUpNext, Disconnect, DisconnectLoad, DisconnectClose, DisconnectZero,
       DisconnectThread, DisconnectJoin, DisconnectDelete, DisconnectNull
  <2>3. UNCHANGED <<connected, out>>
    BY <1>2, Zenon DEF HangUpNext, Disconnect, DisconnectLoad, DisconnectClose, DisconnectZero,
       DisconnectThread, DisconnectJoin, DisconnectDelete, DisconnectNull, linkVars, ctxVars
  <2>4. ~Rising' /\ ~Telling'
    BY <2>2, <2>3 DEF Carried, Rising, Telling
  <2> QED BY <2>1, <2>4 DEF Carried
<1>3. CASE ~HangUpNext
  <2>1. PICK w \in Party : HangStays /\ Moves(w)
    BY <1>3, StepMoves, SMT DEF Party
  <2>2. LinkFiles'
    BY <2>1, MovesKeepLinkFiles DEF Tracked, Carried
  <2>3. CASE hang'.pc # "idle"
    BY <1>1, <2>2, <2>3 DEF Carried
  <2>4. CASE hang'.pc = "idle"
    <3>1. hang.pc = "idle"
      BY <2>1, <2>4, SMT DEF HangStays
    <3>2. \A c \in Conn : OnLine(c) => OnLine(c)'
      BY <2>1, <3>1, LinesStay
    <3>3. out.conn \in Conn \cup {NoConn} /\ fdTab \in [Fd -> Conn \cup {NoConn}]
          /\ linkFd \in [Link -> Fd \cup {NoFd}] /\ tx \in Seq(Piece) /\ "sock" \in Link
      BY Zenon DEF TypeOK, OutType, Link
    <3>4. ASSUME Telling', out'.conn # NoConn PROVE OnLine(out.conn)'
      <4>1. CASE Telling /\ out'.conn = out.conn
        <5>1. OnLine(out.conn) /\ out.conn \in Conn
          BY <3>3, <3>4, <4>1, SMT DEF Carried
        <5>2. OnLine(out.conn)' <=> \E k \in Link : linkFd'[k] \in Fd /\ fdTab'[linkFd'[k]] = out'.conn
          BY DEF OnLine
        <5> QED BY <3>2, <4>1, <5>1, <5>2 DEF OnLine
      <4>2. CASE Phase["dial"] = "pointer" /\ out'.conn = out.conn
        <5>1. "dial" \in Party /\ ConnOf["dial"] = out.conn
          BY SMT DEF Party, ConnOf
        <5>2. /\ linkFd[LinkOf["dial"]] \in Fd /\ fdTab[linkFd[LinkOf["dial"]]] = out.conn
              /\ out.conn \in Conn /\ LinkOf["dial"] \in Link
          BY <4>2, <5>1, SMT DEF Tracked, HalfTracked, Published, InHand
        <5>3. OnLine(out.conn)
          BY <5>2, Zenon DEF OnLine
        <5> QED BY <3>2, <4>2, <5>2, <5>3 DEF OnLine
      <4>3. CASE linkFd["sock"] # NoFd /\ out'.conn = fdTab[linkFd["sock"]]
        <5>1. linkFd["sock"] \in Fd /\ out'.conn \in Conn
          BY <3>3, <3>4, <4>3, SMT
        <5>2. OnLine(fdTab[linkFd["sock"]])
          BY <3>3, <5>1, Zenon DEF OnLine
        <5> QED BY <3>2, <4>3, <5>1, <5>2 DEF OnLine
      <4> QED BY <3>4, <4>1, <4>2, <4>3, TellingMoves
    <3>5. ASSUME Rising', NEW i \in 1..Len(tx'), IsLastConnect(i)', tx'[i].conn # NoConn
          PROVE  OnLine(tx[i].conn)'
      <4>1. CASE Rising /\ SameCall
        <5>1. i \in 1..Len(tx) /\ IsLastConnect(i) /\ tx'[i] = tx[i]
          BY <3>5, <4>1 DEF SameCall
        <5>2. OnLine(tx[i].conn)
          BY <3>5, <4>1, <5>1 DEF Carried
        <5>3. tx[i] \in Piece
          BY <3>3, <5>1, SMT
        <5>4. tx[i].conn \in Conn \cup {NoConn}
          BY <5>3, Zenon DEF Piece
        <5>5. tx[i].conn \in Conn
          BY <3>5, <5>1, <5>4, SMT
        <5> QED BY <3>2, <5>1, <5>2, <5>5 DEF OnLine
      <4>2. CASE Telling /\ Enqueue("CONNECT", out.conn, 0)
        <5>1. tx'[i].conn = out.conn
          BY <3>5, <4>2, OtherPieces
        <5>2. out.conn \in Conn /\ OnLine(out.conn)
          BY <3>3, <3>5, <4>2, <5>1, SMT DEF Carried
        <5> QED BY <3>2, <5>1, <5>2 DEF OnLine
      <4> QED BY <3>5, <4>1, <4>2, RisingMoves
    <3> QED BY <2>2, <2>4, <3>4, <3>5 DEF Carried
  <2> QED BY <2>3, <2>4
<1> QED BY <1>2, <1>3

\* So it is in every state, until there is a collision.
LEMMA StaysCarried == Spec => [](~collided => Carried)
<1>1. Init => Carried /\ CarrierInv
  <2> SUFFICES ASSUME Init PROVE Carried /\ CarrierInv
    OBVIOUS
  <2>1. /\ out.pc = "read" /\ hang.pc = "idle" /\ ~connected
        /\ linkFd = [k \in Link |-> NoFd] /\ NoFd \notin Fd
    BY Apartness, Zenon DEF Init, LinkInit, CtxInit
  <2>2. ~Rising /\ ~Telling /\ LinkFiles
    BY <2>1, SMT DEF Rising, Telling, LinkFiles
  <2> QED BY <2>1, <2>2, SMT DEF Carried, CarrierInv
<1>2. /\ TypeOK /\ InHand /\ Parted /\ CarrierInv /\ Undisturbed /\ Undisturbed'
      /\ (~collided => Tracked) /\ (~collided => Carried) /\ [Next]_vars
      => (~collided' => Carried')
  <2> SUFFICES ASSUME TypeOK, InHand, Parted, CarrierInv, Undisturbed, Undisturbed',
                      ~collided => Tracked, ~collided => Carried, [Next]_vars, ~collided'
               PROVE  Carried'
    OBVIOUS
  <2>1. Ghost \/ UNCHANGED collided
    BY Zenon DEF vars, Next, HangUpNext, BulkOutNext, ListenNext, RecvNext, HostNext,
       CallerNext, AcceptFails, FarEndNext, WaitForOutside
  <2>2. ~collided
    BY <2>1, Zenon DEF Ghost, TypeOK
  <2>3. Tracked /\ Carried /\ ~Collision /\ ~Collision'
    BY <2>2 DEF Undisturbed
  <2> QED BY <2>3, CarriedInductive
<1>3. TypeOK /\ CarrierInv /\ [Next]_vars => CarrierInv'
  BY CarrierInvInductive
<1>4. Spec => [](TypeOK /\ InHand /\ Parted /\ Undisturbed)
  <2>1. TypeOK /\ OneOwner /\ Named => InHand /\ Parted
    BY OwnersInHand, OwnersParted
  <2> QED BY <2>1, TypeCorrect, OwnersKept, StaysUndisturbed, PTL
<1> QED BY <1>1, <1>2, <1>3, <1>4, StaysTracked, PTL DEF Spec

\* A carrier the host was shown for a connection has that connection under
\* it, until a hang-up ran into a set-up.
THEOREM CarrierCarries == Spec => []CarrierHasLink
<1>1. TypeOK /\ (~collided => Carried) => CarrierHasLink
  <2> SUFFICES ASSUME TypeOK, Carried, connected, NEW i \in 1..Len(tx), IsLastConnect(i),
                      tx[i].conn # NoConn
               PROVE  FileOf(linkFd[conns[tx[i].conn].link]) = tx[i].conn
    BY DEF CarrierHasLink
  <2>1. hang.pc = "idle" /\ OnLine(tx[i].conn)
    BY DEF Carried, Rising
  <2>2. PICK k \in Link : linkFd[k] \in Fd /\ fdTab[linkFd[k]] = tx[i].conn
    BY <2>1 DEF OnLine
  <2>3. conns[tx[i].conn].link = k
    BY <2>1, <2>2, SMT DEF Carried, LinkFiles, Clearing
  <2>4. linkFd[k] # NoFd
    BY <2>2, Apartness
  <2> QED BY <2>2, <2>3, <2>4, Zenon DEF FileOf
<1> QED BY <1>1, TypeCorrect, StaysCarried, PTL

=============================================================================
