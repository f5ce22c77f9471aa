---------------------------- MODULE WiiMoteProofs ----------------------------
(***************************************************************************)
(* Theorems about WiiMote: for any number of plugs, any length of the      *)
(* queues and any player indices, the driver never mistakes one answer for *)
(* another, the remote shows its player, and, unless a removal was missed, *)
(* the driver knows what is plugged in.                                    *)
(***************************************************************************)
EXTENDS WiiMote, SequenceTheorems, TLAPS

USE WiiMoteAssumption DEF WiiMoteAssumption

-----------------------------------------------------------------------------
(* Commands under way. *)

Pending(c, cmd) == \E k \in 1..Len(c) : c[k].cmd = cmd

\* Once the commands of c are carried out, what "cmd" sets is v; it is "now".
Sets(c, cmd, now, v) ==
    /\ \A k \in 1..Len(c) :
          c[k].cmd = cmd /\ (\A j \in (k + 1)..Len(c) : c[j].cmd # cmd)
          => c[k].arg = v
    /\ ~Pending(c, cmd) => now = v

\* A new command comes after those under way.
LEMMA Appended ==
    ASSUME NEW S, NEW c \in Seq(S), NEW x \in S
    PROVE  /\ Append(c, x) \in Seq(S)
           /\ Len(Append(c, x)) = Len(c) + 1 /\ Len(c) \in Nat
           /\ \A k \in 1..Len(c) : Append(c, x)[k] = c[k]
           /\ Append(c, x)[Len(c) + 1] = x
BY AppendProperties

\* What is left when the first one was taken.
LEMMA Taken ==
    ASSUME NEW S, NEW c \in Seq(S), c # <<>>
    PROVE  /\ Tail(c) \in Seq(S) /\ Head(c) \in S
           /\ Len(Tail(c)) = Len(c) - 1 /\ Len(c) \in Nat \ {0}
           /\ Head(c) = c[1]
           /\ \A k \in 1..Len(Tail(c)) : Tail(c)[k] = c[k + 1]
           /\ \A k \in 1..Len(c) : k # 1 => k - 1 \in 1..Len(Tail(c))
                                            /\ c[k] = Tail(c)[k - 1]
<1>1. /\ Tail(c) \in Seq(S) /\ Head(c) \in S
      /\ Len(Tail(c)) = Len(c) - 1 /\ Len(c) \in Nat \ {0}
      /\ Head(c) = c[1]
      /\ \A k \in 1..Len(Tail(c)) : Tail(c)[k] = c[k + 1]
  OBVIOUS
<1>2. PICK d : d = Tail(c)
  OBVIOUS
<1>3. \A k \in 1..Len(c) : k # 1 => k - 1 \in 1..Len(d) /\ c[k] = d[k - 1]
  BY <1>1, <1>2
<1> QED BY <1>1, <1>2, <1>3

\* A command decides what it sets.
LEMMA SetsSame ==
    ASSUME NEW S, NEW c \in Seq(S), NEW x \in S, NEW now
    PROVE  Sets(Append(c, x), x.cmd, now, x.arg)
<1>0. PICK d : d = Append(c, x)
  OBVIOUS
<1>1. /\ Len(d) = Len(c) + 1 /\ Len(c) \in Nat /\ d[Len(c) + 1] = x
  BY <1>0, Appended
<1>2. ASSUME NEW k \in 1..Len(d), \A j \in (k + 1)..Len(d) : d[j].cmd # x.cmd
      PROVE  d[k] = x
  <2>1. CASE k = Len(c) + 1
    BY <1>1, <2>1
  <2>2. CASE k # Len(c) + 1
    BY <1>1, <1>2, <2>2
  <2> QED BY <2>1, <2>2
<1>3. Pending(d, x.cmd)
  BY <1>1 DEF Pending
<1> QED BY <1>0, <1>2, <1>3 DEF Sets

\* Another command sets something else.
LEMMA SetsOther ==
    ASSUME NEW S, NEW c \in Seq(S), NEW x \in S, NEW now, NEW cmd, NEW v,
           x.cmd # cmd, Sets(c, cmd, now, v)
    PROVE  Sets(Append(c, x), cmd, now, v)
<1>0. PICK d : d = Append(c, x)
  OBVIOUS
<1>1. /\ Len(d) = Len(c) + 1 /\ Len(c) \in Nat /\ d[Len(c) + 1] = x
      /\ \A k \in 1..Len(c) : d[k] = c[k]
  BY <1>0, Appended
<1>2. ASSUME NEW k \in 1..Len(d), d[k].cmd = cmd,
             \A j \in (k + 1)..Len(d) : d[j].cmd # cmd
      PROVE  d[k].arg = v
  <2>1. k \in 1..Len(c) /\ d[k] = c[k]
    BY <1>1, <1>2
  <2>2. \A j \in (k + 1)..Len(c) : c[j].cmd # cmd
    BY <1>1, <1>2
  <2> QED BY <1>2, <2>1, <2>2 DEF Sets
<1>3. ~Pending(d, cmd) => ~Pending(c, cmd)
  BY <1>1 DEF Pending
<1> QED BY <1>0, <1>2, <1>3 DEF Sets

\* Carrying out the first command.
LEMMA SetsTail ==
    ASSUME NEW S, NEW c \in Seq(S), c # <<>>, NEW now, NEW cmd, NEW v,
           Sets(c, cmd, now, v)
    PROVE  Sets(Tail(c), cmd, IF Head(c).cmd = cmd THEN Head(c).arg ELSE now, v)
<1>0. PICK d : d = Tail(c)
  OBVIOUS
<1>1. /\ Len(d) = Len(c) - 1 /\ Len(c) \in Nat \ {0} /\ Head(c) = c[1]
      /\ \A k \in 1..Len(d) : d[k] = c[k + 1]
      /\ \A k \in 1..Len(c) : k # 1 => k - 1 \in 1..Len(d) /\ c[k] = d[k - 1]
  BY <1>0, Taken
<1>2. ASSUME NEW k \in 1..Len(d), d[k].cmd = cmd,
             \A j \in (k + 1)..Len(d) : d[j].cmd # cmd
      PROVE  d[k].arg = v
  <2>1. k + 1 \in 1..Len(c) /\ c[k + 1] = d[k] /\ (k + 1) + 1 = k + 2
    BY <1>1
  <2>2. ASSUME NEW j \in (k + 2)..Len(c) PROVE c[j].cmd # cmd
    <3>1. j - 1 \in (k + 1)..Len(d) /\ c[j] = d[j - 1]
      BY <1>1
    <3> QED BY <1>2, <3>1
  <2> QED BY <1>2, <2>1, <2>2 DEF Sets
<1>3. ASSUME ~Pending(d, cmd)
      PROVE  (IF Head(c).cmd = cmd THEN Head(c).arg ELSE now) = v
  <2>1. ASSUME NEW j \in 2..Len(c) PROVE c[j].cmd # cmd
    <3>1. j - 1 \in 1..Len(d) /\ c[j] = d[j - 1]
      BY <1>1
    <3> QED BY <1>3, <3>1 DEF Pending
  <2>2. 1 \in 1..Len(c) /\ 1 + 1 = 2
    BY <1>1
  <2>3. CASE Head(c).cmd = cmd
    BY <1>1, <2>1, <2>2, <2>3 DEF Sets
  <2>4. CASE Head(c).cmd # cmd
    <3>1. ~Pending(c, cmd)
      <4>1. ASSUME NEW j \in 1..Len(c) PROVE c[j].cmd # cmd
        BY <1>1, <2>1, <2>4
      <4> QED BY <4>1 DEF Pending
    <3> QED BY <2>4, <3>1 DEF Sets
  <2> QED BY <2>3, <2>4
<1> QED BY <1>0, <1>2, <1>3 DEF Sets

-----------------------------------------------------------------------------
(* Reads under way: commands in d, answers in u. *)

NoReads(d, u) ==
    /\ \A k \in 1..Len(d) : d[k].cmd # "read"
    /\ \A k \in 1..Len(u) : u[k].rpt # "read"

\* There is at most one, and it is for "what".
ReadsOnly(d, u, what) ==
    /\ \A k \in 1..Len(d) : d[k].cmd = "read" =>
          /\ d[k].arg = what
          /\ \A j \in 1..Len(d) : d[j].cmd = "read" => j = k
          /\ \A j \in 1..Len(u) : u[j].rpt # "read"
    /\ \A k \in 1..Len(u) : u[k].rpt = "read" =>
          /\ u[k].of = what
          /\ \A j \in 1..Len(u) : u[j].rpt = "read" => j = k

\* Without one the other holds for whatever is asked.
LEMMA NoReadsIsReadsOnly ==
    ASSUME NEW d, NEW u, NEW what, NoReads(d, u)
    PROVE  ReadsOnly(d, u, what)
BY DEF NoReads, ReadsOnly

\* Commands that read nothing do not matter.
LEMMA ReadsOther ==
    ASSUME NEW S, NEW d \in Seq(S), NEW x \in S, NEW u, x.cmd # "read"
    PROVE  /\ NoReads(d, u) => NoReads(Append(d, x), u)
           /\ \A what : ReadsOnly(d, u, what) => ReadsOnly(Append(d, x), u, what)
<1>0. PICK e : e = Append(d, x)
  OBVIOUS
<1>1. /\ Len(e) = Len(d) + 1 /\ Len(d) \in Nat /\ e[Len(d) + 1] = x
      /\ \A k \in 1..Len(d) : e[k] = d[k]
  BY <1>0, Appended
<1>2. \A k \in 1..Len(e) : e[k].cmd = "read" => k \in 1..Len(d) /\ e[k] = d[k]
  BY <1>1
<1>3. NoReads(d, u) => NoReads(e, u)
  BY <1>2 DEF NoReads
<1>4. \A what : ReadsOnly(d, u, what) => ReadsOnly(e, u, what)
  BY <1>2 DEF ReadsOnly
<1> QED BY <1>0, <1>3, <1>4

\* A read asked for when there is none.
LEMMA ReadsAsked ==
    ASSUME NEW S, NEW d \in Seq(S), NEW x \in S, NEW u, NoReads(d, u)
    PROVE  ReadsOnly(Append(d, x), u, x.arg)
<1>0. PICK e : e = Append(d, x)
  OBVIOUS
<1>1. /\ Len(e) = Len(d) + 1 /\ Len(d) \in Nat /\ e[Len(d) + 1] = x
      /\ \A k \in 1..Len(d) : e[k] = d[k]
  BY <1>0, Appended
<1>2. \A k \in 1..Len(e) : e[k].cmd = "read" => k = Len(d) + 1 /\ e[k] = x
  BY <1>1 DEF NoReads
<1> QED BY <1>0, <1>1, <1>2 DEF ReadsOnly, NoReads

\* Handling a report: an answer was the only one.
LEMMA ReadsHandled ==
    ASSUME NEW S, NEW d, NEW u \in Seq(S), u # <<>>
    PROVE  /\ NoReads(d, u) => NoReads(d, Tail(u)) /\ Head(u).rpt # "read"
           /\ \A what : ReadsOnly(d, u, what) =>
                 /\ ReadsOnly(d, Tail(u), what)
                 /\ Head(u).rpt = "read" => NoReads(d, Tail(u)) /\ Head(u).of = what
<1>0. PICK v : v = Tail(u)
  OBVIOUS
<1>1. /\ Len(v) = Len(u) - 1 /\ Len(u) \in Nat \ {0} /\ Head(u) = u[1]
      /\ \A k \in 1..Len(v) : v[k] = u[k + 1]
  BY <1>0, Taken
<1>2. \A k \in 1..Len(v) : k + 1 \in 1..Len(u) /\ k + 1 # 1 /\ v[k] = u[k + 1]
  BY <1>1
<1>3. 1 \in 1..Len(u)
  BY <1>1
<1>4. NoReads(d, u) => NoReads(d, v) /\ Head(u).rpt # "read"
  BY <1>1, <1>2, <1>3 DEF NoReads
<1>5. ASSUME NEW what, ReadsOnly(d, u, what)
      PROVE  /\ ReadsOnly(d, v, what)
             /\ Head(u).rpt = "read" => NoReads(d, v) /\ Head(u).of = what
  <2>1. ASSUME NEW k \in 1..Len(v), v[k].rpt = "read",
               NEW j \in 1..Len(v), v[j].rpt = "read"
        PROVE  j = k
    <3>1. j + 1 = k + 1
      BY <1>2, <1>5, <2>1 DEF ReadsOnly
    <3> QED BY <3>1
  <2>2. ReadsOnly(d, v, what)
    <3>1. ASSUME NEW k \in 1..Len(d), d[k].cmd = "read"
          PROVE  /\ d[k].arg = what
                 /\ \A j \in 1..Len(d) : d[j].cmd = "read" => j = k
                 /\ \A j \in 1..Len(v) : v[j].rpt # "read"
      BY <1>2, <1>5, <3>1 DEF ReadsOnly
    <3>2. \A k \in 1..Len(v) : v[k].rpt = "read" => v[k].of = what
      BY <1>2, <1>5 DEF ReadsOnly
    <3> QED BY <2>1, <3>1, <3>2 DEF ReadsOnly
  <2>3. Head(u).rpt = "read" => NoReads(d, v) /\ Head(u).of = what
    BY <1>1, <1>2, <1>3, <1>5 DEF ReadsOnly, NoReads
  <2> QED BY <2>2, <2>3
<1> QED BY <1>0, <1>4, <1>5

\* A report that answers no read, or the one that answers the command just taken.
LEMMA ReadsAppended ==
    ASSUME NEW S, NEW d, NEW u \in Seq(S), NEW r \in S, r.rpt # "read"
    PROVE  /\ NoReads(d, u) => NoReads(d, Append(u, r))
           /\ \A what : ReadsOnly(d, u, what) => ReadsOnly(d, Append(u, r), what)
<1>0. PICK v : v = Append(u, r)
  OBVIOUS
<1>1. /\ Len(v) = Len(u) + 1 /\ Len(u) \in Nat /\ v[Len(u) + 1] = r
      /\ \A k \in 1..Len(u) : v[k] = u[k]
  BY <1>0, Appended
<1>2. \A k \in 1..Len(v) : v[k].rpt = "read" => k \in 1..Len(u) /\ v[k] = u[k]
  BY <1>1
<1>3. NoReads(d, u) => NoReads(d, v)
  BY <1>2 DEF NoReads
<1>4. \A what : ReadsOnly(d, u, what) => ReadsOnly(d, v, what)
  BY <1>2 DEF ReadsOnly
<1> QED BY <1>0, <1>3, <1>4

\* Carrying out the first command: a read was the only one.
LEMMA ReadsTaken ==
    ASSUME NEW S, NEW d \in Seq(S), d # <<>>, NEW u
    PROVE  /\ NoReads(d, u) => NoReads(Tail(d), u) /\ Head(d).cmd # "read"
           /\ \A what : ReadsOnly(d, u, what) =>
                 /\ ReadsOnly(Tail(d), u, what)
                 /\ Head(d).cmd = "read" =>
                       NoReads(Tail(d), u) /\ Head(d).arg = what
<1>0. PICK e : e = Tail(d)
  OBVIOUS
<1>1. /\ Len(e) = Len(d) - 1 /\ Len(d) \in Nat \ {0} /\ Head(d) = d[1]
      /\ \A k \in 1..Len(e) : e[k] = d[k + 1]
  BY <1>0, Taken
<1>2. \A k \in 1..Len(e) : k + 1 \in 1..Len(d) /\ k + 1 # 1 /\ e[k] = d[k + 1]
  BY <1>1
<1>3. 1 \in 1..Len(d)
  BY <1>1
<1>4. NoReads(d, u) => NoReads(e, u) /\ Head(d).cmd # "read"
  BY <1>1, <1>2, <1>3 DEF NoReads
<1>5. ASSUME NEW what, ReadsOnly(d, u, what)
      PROVE  /\ ReadsOnly(e, u, what)
             /\ Head(d).cmd = "read" => NoReads(e, u) /\ Head(d).arg = what
  <2>1. ASSUME NEW k \in 1..Len(e), e[k].cmd = "read",
               NEW j \in 1..Len(e), e[j].cmd = "read"
        PROVE  j = k
    <3>1. j + 1 = k + 1
      BY <1>2, <1>5, <2>1 DEF ReadsOnly
    <3> QED BY <3>1
  <2>2. ReadsOnly(e, u, what)
    BY <1>2, <1>5, <2>1 DEF ReadsOnly
  <2>3. Head(d).cmd = "read" => NoReads(e, u) /\ Head(d).arg = what
    BY <1>1, <1>2, <1>3, <1>5 DEF ReadsOnly, NoReads
  <2> QED BY <2>2, <2>3
<1> QED BY <1>0, <1>4, <1>5

\* The answer to the one read there is.
LEMMA ReadsAnswered ==
    ASSUME NEW S, NEW d, NEW u \in Seq(S), NEW r \in S, NoReads(d, u)
    PROVE  ReadsOnly(d, Append(u, r), r.of)
<1>0. PICK v : v = Append(u, r)
  OBVIOUS
<1>1. /\ Len(v) = Len(u) + 1 /\ Len(u) \in Nat /\ v[Len(u) + 1] = r
      /\ \A k \in 1..Len(u) : v[k] = u[k]
  BY <1>0, Appended
<1>2. \A k \in 1..Len(v) : v[k].rpt = "read" => k = Len(u) + 1 /\ v[k] = r
  BY <1>1 DEF NoReads
<1> QED BY <1>0, <1>1, <1>2 DEF ReadsOnly, NoReads

-----------------------------------------------------------------------------
(* What is known of the queues and of the remote. *)

Exps == {"none", "classic", "other"}

Commands ==
    [cmd : {"led"}, arg : -1..3]
    \cup [cmd : {"status", "write"}, arg : {0}]
    \cup [cmd : {"read"}, arg : {"id", "calib"}]
    \cup [cmd : {"mode"}, arg : {"btn", "btnexp"}]

Reports ==
    [rpt : {"status", "read", "btn", "btnexp"}, of : {"none", "id", "calib"},
     exp : Exps, plug : 0..MaxPlugs]

QueuesOK ==
    /\ toDevice \in Seq(Commands) /\ toHost \in Seq(Reports)
    /\ plugged \in Exps /\ plugs \in 0..MaxPlugs

TypeInv == TypeOK /\ QueuesOK

\* What the driver sends is a command.
LEMMA CommandsAreTyped ==
    /\ \A l \in -1..3 : Led(l) \in Commands /\ Led(l).cmd = "led" /\ Led(l).arg = l
    /\ Status \in Commands /\ Status.cmd = "status"
    /\ WriteData \in Commands /\ WriteData.cmd = "write"
    /\ ReadId \in Commands /\ ReadId.cmd = "read" /\ ReadId.arg = "id"
    /\ ReadCalib \in Commands /\ ReadCalib.cmd = "read" /\ ReadCalib.arg = "calib"
    /\ \A m \in {"btn", "btnexp"} :
          ReportIn(m) \in Commands /\ ReportIn(m).cmd = "mode" /\ ReportIn(m).arg = m
BY DEF Commands, Led, Status, WriteData, ReadId, ReadCalib, ReportIn

\* Commands sent together follow each other.
LEMMA SentTogether ==
    ASSUME NEW S, NEW c \in Seq(S), NEW x \in S, NEW y \in S, NEW z \in S
    PROVE  /\ c \o <<x>> = Append(c, x)
           /\ c \o <<x, y>> = Append(Append(c, x), y)
           /\ c \o <<x, y, z>> = Append(Append(Append(c, x), y), z)
OBVIOUS

\* The end of a handshake: the commands set the report mode and, where there is
\* a player, its LED; they read nothing.
LEMMA FinishSends ==
    ASSUME QueuesOK, NEW s, NEW m \in {"btn", "btnexp"}, Finish(s, m)
    PROVE  /\ toDevice' \in Seq(Commands)
           /\ \A now : Sets(toDevice', "mode", now, m)
           /\ unid \in 0..3 => \A now : Sets(toDevice', "led", now, unid)
           /\ \A u : NoReads(toDevice, u) => NoReads(toDevice', u)
<1>1. PICK x : x = ReportIn(m)
  OBVIOUS
<1>2. PICK e : e = Append(toDevice, x)
  OBVIOUS
<1>3. x \in Commands /\ x.cmd = "mode" /\ x.arg = m
  BY <1>1, CommandsAreTyped
<1>4. toDevice \in Seq(Commands) /\ e \in Seq(Commands)
  BY <1>2, <1>3, Appended DEF QueuesOK
<1>5. \A now : Sets(e, "mode", now, m)
  BY <1>2, <1>3, <1>4, SetsSame
<1>6. \A u : NoReads(toDevice, u) => NoReads(e, u)
  BY <1>2, <1>3, <1>4, ReadsOther
<1>7. CASE unid \in 0..3
  <2>1. PICK y : y = Led(unid)
    OBVIOUS
  <2>2. y \in Commands /\ y.cmd = "led" /\ y.arg = unid
    BY <1>7, <2>1, CommandsAreTyped
  <2>3. toDevice' = Append(e, y)
    <3>1. toDevice' = toDevice \o (<<x>> \o <<y>>)
      BY <1>1, <1>7, <2>1 DEF Finish, Send
    <3>2. <<x>> \o <<y>> = <<x, y>>
      <4>1. <<x>> \in Seq(Commands) /\ <<x, y>> = Append(<<x>>, y)
        BY <1>3, <2>2
      <4> QED BY <1>3, <2>2, <4>1, SentTogether
    <3> QED BY <1>2, <1>3, <1>4, <2>2, <3>1, <3>2, SentTogether
  <2>4. Append(e, y) \in Seq(Commands)
    BY <1>4, <2>2, Appended
  <2>5. \A now : Sets(Append(e, y), "mode", now, m)
    BY <1>4, <1>5, <2>2, SetsOther
  <2>6. \A now : Sets(Append(e, y), "led", now, unid)
    BY <1>4, <2>2, SetsSame
  <2>7. \A u : NoReads(toDevice, u) => NoReads(Append(e, y), u)
    BY <1>4, <1>6, <2>2, ReadsOther
  <2> QED BY <2>3, <2>4, <2>5, <2>6, <2>7
<1>8. CASE unid \notin 0..3
  <2>1. toDevice' = toDevice \o (<<x>> \o <<>>)
    BY <1>1, <1>8 DEF Finish, Send
  <2>2. <<x>> \o <<>> = <<x>>
    OBVIOUS
  <2>3. toDevice' = e
    BY <1>2, <1>3, <1>4, <2>1, <2>2, SentTogether
  <2> QED BY <1>4, <1>5, <1>6, <1>8, <2>3
<1> QED BY <1>7, <1>8

-----------------------------------------------------------------------------
(* What a report does: one of these. *)

IsData(r) == r.rpt = "btnexp" /\ HandleExpansion(r)

TellsNothing(r) ==
    /\ r.rpt # "btnexp" /\ (handshake_state \in {4, 5} => r.rpt # "read")
    /\ handshake_state = 1 /\ r.rpt = "status" =>
          IF r.exp = "none" THEN "EXP" \notin state /\ "HANDSHAKE" \notin state
          ELSE "EXP" \in state
    /\ NothingSent

TellsPlugged(r) ==
    /\ handshake_state = 1 /\ r.rpt = "status"
    /\ r.exp # "none" /\ "EXP" \notin state /\ BeginExpansion

TellsRemoved(r) ==
    /\ handshake_state = 1 /\ r.rpt = "status"
    /\ r.exp = "none" /\ "EXP" \in state /\ EndExpansion

TellsEmpty(r) ==
    /\ handshake_state = 1 /\ r.rpt = "status" /\ r.exp = "none"
    /\ "EXP" \notin state /\ "HANDSHAKE" \in state
    /\ Finish(state, "btn") /\ UNCHANGED <<expType, classic>>

TellsClassic(r) ==
    /\ handshake_state = 4 /\ r.rpt = "read" /\ r.exp = "classic"
    /\ Send(<<ReadCalib>>)
    /\ handshake_state' = 5
    /\ UNCHANGED <<state, expType, classic, leds>>

TellsOther(r) ==
    /\ handshake_state = 4 /\ r.rpt = "read" /\ r.exp # "classic"
    /\ Finish(state, "btn") /\ UNCHANGED <<expType, classic>>

Calibrates(r) == handshake_state = 5 /\ r.rpt = "read" /\ HandshakeCalib

\* There is no other case.
LEMMA HandleCases ==
    ASSUME TypeInv, HandlePacket, NEW r, r = Head(toHost)
    PROVE  \/ IsData(r) \/ TellsNothing(r) \/ TellsPlugged(r) \/ TellsRemoved(r)
           \/ TellsEmpty(r) \/ TellsClassic(r) \/ TellsOther(r) \/ Calibrates(r)
<1>1. r \in Reports
  BY Taken DEF HandlePacket, TypeInv, QueuesOK
<1>2. CASE r.rpt = "btnexp"
  BY <1>2 DEF HandlePacket, IsData
<1>3. CASE r.rpt = "btn"
  BY <1>3 DEF HandlePacket, TellsNothing
<1>4. CASE r.rpt = "status"
  <2>1. Handshake(r)
    BY <1>4 DEF HandlePacket
  <2>2. CASE handshake_state = 1
    <3>1. HandshakeStatus(r.exp # "none")
      BY <1>4, <2>1, <2>2 DEF Handshake
    <3> QED BY <1>4, <2>2, <3>1 DEF HandshakeStatus, TellsNothing, TellsPlugged,
                                    TellsRemoved, TellsEmpty
  <2>3. CASE handshake_state # 1
    BY <1>4, <2>1, <2>3 DEF Handshake, TellsNothing
  <2> QED BY <2>2, <2>3
<1>5. CASE r.rpt = "read"
  <2>1. Handshake(r)
    BY <1>5 DEF HandlePacket
  <2>2. CASE handshake_state = 4
    BY <1>5, <2>1, <2>2 DEF Handshake, HandshakeId, TellsClassic, TellsOther
  <2>3. CASE handshake_state = 5
    BY <1>5, <2>1, <2>3 DEF Handshake, Calibrates
  <2>4. CASE handshake_state \notin {4, 5}
    BY <1>5, <2>1, <2>4 DEF Handshake, TellsNothing
  <2> QED BY <2>2, <2>3, <2>4
<1> QED BY <1>1, <1>2, <1>3, <1>4, <1>5 DEF Reports

-----------------------------------------------------------------------------
(* Types. *)

\* The variables have their types at first.
LEMMA InitTypeInv == Init => TypeInv
BY DEF Init, TypeInv, TypeOK, QueuesOK, Exps, Cleared, Flags

\* The reports of the remote are reports.
LEMMA ReportsAreTyped ==
    ASSUME QueuesOK, NEW rpt \in {"status", "read", "btn", "btnexp"},
           NEW of \in {"none", "id", "calib"}
    PROVE  Report(rpt, of) \in Reports
BY DEF QueuesOK, Report, Reports

\* Of handling a report: what the driver keeps.
LEMMA HandleTypeInv == TypeInv /\ HandlePacket => TypeInv'
<1> SUFFICES ASSUME TypeInv, HandlePacket PROVE TypeInv'
  OBVIOUS
<1>0. PICK r : r = Head(toHost)
  OBVIOUS
<1>1. /\ r \in Reports /\ toHost' \in Seq(Reports)
      /\ handshake_state # 0 /\ UNCHANGED <<unid, remoteVars>>
  BY <1>0, Taken DEF HandlePacket, TypeInv, QueuesOK
<1>2. \A s : s \subseteq Flags /\ ("HANDSHAKE" \in s <=> "HANDSHAKE_COMPLETE" \notin s)
             => LET t == Rehandshake(s) IN
                  t \subseteq Flags /\ "HANDSHAKE" \in t /\ "HANDSHAKE_COMPLETE" \notin t
                  /\ ("EXP" \in t <=> "EXP" \in s)
  BY DEF Rehandshake, Flags
<1>3. ASSUME NEW s, s \subseteq Flags, NEW m \in {"btn", "btnexp"}, Finish(s, m)
      PROVE  /\ handshake_state' = 1 /\ state' \subseteq Flags /\ leds' \in -1..3
             /\ "HANDSHAKE" \notin state' /\ "HANDSHAKE_COMPLETE" \in state'
             /\ toDevice' \in Seq(Commands)
  <2>1. toDevice' \in Seq(Commands)
    BY <1>3, FinishSends DEF TypeInv
  <2> QED BY <1>3, <2>1 DEF Finish, Flags, TypeInv, TypeOK
<1>4. state \subseteq Flags /\ ("HANDSHAKE" \in state <=> "HANDSHAKE_COMPLETE" \notin state)
      /\ toDevice \in Seq(Commands)
  BY <1>1 DEF TypeInv, TypeOK, QueuesOK
<1>5. SUFFICES /\ handshake_state' \in {1, 4, 5} /\ state' \subseteq Flags
               /\ expType' \in {"none", "classic"}
               /\ classic' \in {Cleared} \cup 0..MaxPlugs
               /\ leds' \in -1..3 /\ toDevice' \in Seq(Commands)
               /\ "HANDSHAKE" \in state' <=> "HANDSHAKE_COMPLETE" \notin state'
  BY <1>1 DEF TypeInv, TypeOK, QueuesOK, remoteVars
<1>6. CASE IsData(r)
  BY <1>1, <1>4, <1>6 DEF IsData, HandleExpansion, Reports, TypeInv, TypeOK
<1>7. CASE TellsNothing(r)
  BY <1>1, <1>4, <1>7 DEF TellsNothing, NothingSent, TypeInv, TypeOK
<1>8. CASE TellsPlugged(r)
  <2>1. toDevice' \in Seq(Commands)
    BY <1>4, <1>8, CommandsAreTyped, SentTogether, Appended
       DEF TellsPlugged, BeginExpansion, Send
  <2>2. state \cup {"EXP"} \subseteq Flags
        /\ ("HANDSHAKE" \in state \cup {"EXP"}
            <=> "HANDSHAKE_COMPLETE" \notin state \cup {"EXP"})
    BY <1>4 DEF Flags
  <2> QED BY <1>2, <1>8, <2>1, <2>2 DEF TellsPlugged, BeginExpansion, TypeInv, TypeOK
<1>9. CASE TellsRemoved(r)
  <2>1. state \ {"EXP"} \subseteq Flags
        /\ ("HANDSHAKE" \in state \ {"EXP"}
            <=> "HANDSHAKE_COMPLETE" \notin state \ {"EXP"})
    BY <1>4 DEF Flags
  <2>2. Rehandshake(state \ {"EXP"}) \subseteq Flags
    BY <1>2, <2>1
  <2> QED BY <1>3, <1>9, <2>2 DEF TellsRemoved, EndExpansion, TypeInv, TypeOK
<1>10. CASE TellsEmpty(r)
  BY <1>3, <1>4, <1>10 DEF TellsEmpty, TypeInv, TypeOK
<1>11. CASE TellsClassic(r)
  BY <1>1, <1>4, <1>11, CommandsAreTyped, SentTogether, Appended
     DEF TellsClassic, Send, TypeInv, TypeOK
<1>12. CASE TellsOther(r)
  BY <1>3, <1>4, <1>12 DEF TellsOther, TypeInv, TypeOK
<1>13. CASE Calibrates(r)
  BY <1>3, <1>4, <1>13 DEF Calibrates, HandshakeCalib, TypeInv, TypeOK
<1> QED BY <1>0, <1>6, <1>7, <1>8, <1>9, <1>10, <1>11, <1>12, <1>13, HandleCases

\* Every step keeps the types.
LEMMA NextTypeInv == TypeInv /\ [Next]_vars => TypeInv'
<1> SUFFICES ASSUME TypeInv, [Next]_vars PROVE TypeInv'
  OBVIOUS
<1> USE DEF TypeInv, TypeOK, QueuesOK
<1>1. CASE Construct
  <2>1. toDevice' = Append(Append(toDevice, Led(-1)), Status)
    BY <1>1, CommandsAreTyped, SentTogether DEF Construct, Send
  <2>2. toDevice' \in Seq(Commands)
    BY <2>1, CommandsAreTyped, Appended
  <2> QED BY <1>1, <2>2 DEF Construct, Flags, remoteVars
<1>2. CASE HandlePacket
  BY <1>2, HandleTypeInv
<1>3. ASSUME NEW i \in Indices, SetPlayerIndex(i) PROVE TypeInv'
  <2>1. toDevice' \in Seq(Commands)
    <3>1. CASE i \in 0..3
      <4>1. Led(i) \in Commands
        BY <3>1, CommandsAreTyped
      <4>2. toDevice' = toDevice \o <<Led(i)>>
        BY <1>3, <3>1 DEF SetPlayerIndex, Send
      <4>3. toDevice' = Append(toDevice, Led(i))
        BY <4>1, <4>2, SentTogether
      <4> QED BY <4>1, <4>3, Appended
    <3> QED BY <1>3, <3>1 DEF SetPlayerIndex
  <2> QED BY <1>3, <2>1 DEF SetPlayerIndex, remoteVars
<1>4. CASE CarryOut
  <2>1. PICK c : c = Head(toDevice)
    OBVIOUS
  <2>2. c \in Commands /\ toDevice' \in Seq(Commands)
    BY <1>4, <2>1, Taken DEF CarryOut
  <2>3. toHost' \in Seq(Reports)
    <3>1. CASE c.cmd = "status"
      BY <1>4, <2>1, <3>1, ReportsAreTyped, Appended DEF CarryOut
    <3>2. CASE c.cmd = "read"
      <4>1. c.arg \in {"none", "id", "calib"}
        BY <2>2, <3>2 DEF Commands
      <4> QED BY <1>4, <2>1, <3>2, <4>1, ReportsAreTyped, Appended DEF CarryOut
    <3> QED BY <1>4, <2>1, <3>1, <3>2 DEF CarryOut
  <2>4. litLed' \in -1..3 /\ mode' \in {"off", "btn", "btnexp"}
    BY <1>4, <2>1, <2>2 DEF CarryOut, Commands
  <2> QED BY <1>4, <2>2, <2>3, <2>4 DEF CarryOut, driverVars
<1>5. CASE SendData
  BY <1>5, ReportsAreTyped, Appended DEF SendData, driverVars, remoteVars
<1>6. CASE Replug
  <2>1. plugged' \in Exps /\ plugs' \in 0..MaxPlugs
    BY <1>6 DEF Replug, Exps
  <2>2. Report("status", "none")' \in Reports
    BY <2>1 DEF Report, Reports
  <2> QED BY <1>6, <2>1, <2>2, Appended DEF Replug, driverVars
<1>7. CASE UNCHANGED vars
  BY <1>7 DEF vars, driverVars, remoteVars
<1> QED BY <1>1, <1>2, <1>3, <1>4, <1>5, <1>6, <1>7 DEF Next

\* Every variable has its type, and the flags of a handshake that runs and of
\* one that is complete are never set together (wiimote.h's WIIMOTE_STATE_*).
THEOREM RemoteTypeCorrect == Spec => []TypeOK
<1>1. TypeInv => TypeOK
  BY DEF TypeInv
<1> QED BY <1>1, InitTypeInv, NextTypeInv, PTL DEF Spec

-----------------------------------------------------------------------------
(* The LED. *)

\* Before the constructor ran nobody has a player.  From then on the LED
\* commands under way end in that of the player, who is shown without any.
LedInv ==
    /\ handshake_state = 0 => unid = -1 /\ toDevice = <<>>
    /\ unid \in 0..3 => Sets(toDevice, "led", litLed, unid)

\* Two commands that are not for the LED, or three, leave it alone.
LEMMA SentForOther ==
    ASSUME NEW c \in Seq(Commands), NEW x \in Commands, NEW y \in Commands,
           NEW z \in Commands, NEW now, NEW cmd, NEW v, Sets(c, cmd, now, v),
           x.cmd # cmd, y.cmd # cmd, z.cmd # cmd
    PROVE  /\ Sets(c \o <<x>>, cmd, now, v)
           /\ Sets(c \o <<x, y, z>>, cmd, now, v)
<1>1. /\ Append(c, x) \in Seq(Commands) /\ Sets(Append(c, x), cmd, now, v)
  BY Appended, SetsOther
<1>2. PICK d : d = Append(c, x)
  OBVIOUS
<1>3. /\ Append(d, y) \in Seq(Commands) /\ Sets(Append(d, y), cmd, now, v)
  BY <1>1, <1>2, Appended, SetsOther
<1>4. PICK e : e = Append(d, y)
  OBVIOUS
<1>5. Sets(Append(e, z), cmd, now, v)
  BY <1>3, <1>4, SetsOther
<1>6. c \o <<x>> = Append(c, x) /\ c \o <<x, y, z>> = Append(e, z)
  BY <1>2, <1>4, SentTogether
<1> QED BY <1>1, <1>5, <1>6

\* Every step keeps what is known of the LED.
LEMMA NextLedInv == TypeInv /\ LedInv /\ [Next]_vars => LedInv'
<1> SUFFICES ASSUME TypeInv, LedInv, [Next]_vars PROVE LedInv'
  OBVIOUS
<1>0. toDevice \in Seq(Commands) /\ QueuesOK /\ handshake_state \in {0, 1, 4, 5}
  BY DEF TypeInv, QueuesOK, TypeOK
<1>1. CASE Construct
  <2>1. unid' \notin 0..3 /\ handshake_state' = 1
    BY <1>1 DEF Construct, LedInv
  <2> QED BY <2>1 DEF LedInv
<1>2. CASE HandlePacket
  <2>0. PICK r : r = Head(toHost)
    OBVIOUS
  <2>1. unid' = unid /\ litLed' = litLed /\ handshake_state # 0
    BY <1>2 DEF HandlePacket, remoteVars
  <2>2. SUFFICES /\ handshake_state' # 0
                 /\ unid \in 0..3 => Sets(toDevice', "led", litLed, unid)
    BY <2>1 DEF LedInv
  <2>3. ASSUME NEW s, NEW m \in {"btn", "btnexp"}, Finish(s, m)
        PROVE  /\ handshake_state' # 0
               /\ unid \in 0..3 => Sets(toDevice', "led", litLed, unid)
    <3>1. handshake_state' = 1
      BY <2>3 DEF Finish
    <3> QED BY <1>0, <2>3, <3>1, FinishSends
  <2>4. CASE IsData(r)
    BY <2>1, <2>4 DEF IsData, HandleExpansion, LedInv
  <2>5. CASE TellsNothing(r)
    <3>1. handshake_state' = handshake_state /\ toDevice' = toDevice
      BY <2>5 DEF TellsNothing, NothingSent
    <3> QED BY <2>1, <3>1 DEF LedInv
  <2>6. CASE TellsPlugged(r)
    <3>1. handshake_state' = 4 /\ toDevice' = toDevice \o <<WriteData, WriteData, ReadId>>
      BY <2>6 DEF TellsPlugged, BeginExpansion, Send
    <3>2. unid \in 0..3 =>
            Sets(toDevice \o <<WriteData, WriteData, ReadId>>, "led", litLed, unid)
      BY <1>0, CommandsAreTyped, SentForOther DEF LedInv
    <3> QED BY <3>1, <3>2
  <2>7. CASE TellsRemoved(r)
    BY <2>3, <2>7 DEF TellsRemoved, EndExpansion
  <2>8. CASE TellsEmpty(r)
    BY <2>3, <2>8 DEF TellsEmpty
  <2>9. CASE TellsClassic(r)
    <3>1. handshake_state' = 5 /\ toDevice' = toDevice \o <<ReadCalib>>
      BY <2>9 DEF TellsClassic, Send
    <3>2. unid \in 0..3 => Sets(toDevice \o <<ReadCalib>>, "led", litLed, unid)
      BY <1>0, CommandsAreTyped, SentForOther DEF LedInv
    <3> QED BY <3>1, <3>2
  <2>10. CASE TellsOther(r)
    BY <2>3, <2>10 DEF TellsOther
  <2>11. CASE Calibrates(r)
    BY <2>3, <2>11 DEF Calibrates, HandshakeCalib
  <2> QED BY <1>2, <2>0, <2>4, <2>5, <2>6, <2>7, <2>8, <2>9, <2>10, <2>11, HandleCases
<1>3. ASSUME NEW i \in Indices, SetPlayerIndex(i) PROVE LedInv'
  <2>1. handshake_state' # 0 /\ unid' = i /\ litLed' = litLed
    BY <1>3 DEF SetPlayerIndex, remoteVars
  <2>2. CASE i \in 0..3
    <3>1. PICK x : x = Led(i)
      OBVIOUS
    <3>2. x \in Commands /\ x.cmd = "led" /\ x.arg = i
      BY <2>2, <3>1, CommandsAreTyped
    <3>3. toDevice' = Append(toDevice, x)
      BY <1>0, <1>3, <2>2, <3>1, <3>2, SentTogether DEF SetPlayerIndex, Send
    <3>4. Sets(Append(toDevice, x), "led", litLed, i)
      BY <1>0, <3>2, SetsSame
    <3> QED BY <2>1, <3>3, <3>4 DEF LedInv
  <2>3. CASE i \notin 0..3
    BY <2>1, <2>3 DEF LedInv
  <2> QED BY <2>2, <2>3
<1>4. CASE CarryOut
  <2>1. /\ toDevice # <<>> /\ toDevice' = Tail(toDevice)
        /\ litLed' = IF Head(toDevice).cmd = "led" THEN Head(toDevice).arg ELSE litLed
        /\ unid' = unid /\ handshake_state' = handshake_state
    BY <1>4 DEF CarryOut, driverVars
  <2>2. unid \in 0..3 =>
          Sets(Tail(toDevice), "led",
               IF Head(toDevice).cmd = "led" THEN Head(toDevice).arg ELSE litLed, unid)
    BY <1>0, <2>1, SetsTail DEF LedInv
  <2> QED BY <2>1, <2>2 DEF LedInv
<1>5. CASE SendData \/ Replug \/ UNCHANGED vars
  BY <1>5 DEF SendData, Replug, vars, driverVars, remoteVars, LedInv
<1> QED BY <1>1, <1>2, <1>3, <1>4, <1>5 DEF Next

\* The remote shows the LED of its player once the commands are carried out,
\* whatever handshakes (wiimote_handshake) ran in between.
THEOREM LedIsRight == Spec => []LedShowsPlayer
<1>1. Init => LedInv
  BY DEF Init, LedInv
<1>2. LedInv => LedShowsPlayer
  BY DEF LedInv, LedShowsPlayer, Sets, Pending
<1> QED BY <1>1, <1>2, InitTypeInv, NextTypeInv, NextLedInv, PTL DEF Spec

-----------------------------------------------------------------------------
(* Reads. *)

\* The one read under way is the one the handshake waits for.
ReadInv ==
    IF handshake_state \in {4, 5}
    THEN ReadsOnly(toDevice, toHost, IF handshake_state = 4 THEN "id" ELSE "calib")
    ELSE NoReads(toDevice, toHost)

\* A step that leaves the handshake alone and the reads as they are.
LEMMA ReadsKept ==
    ASSUME ReadInv, handshake_state' = handshake_state,
           NoReads(toDevice, toHost) => NoReads(toDevice', toHost'),
           \A what : ReadsOnly(toDevice, toHost, what)
                     => ReadsOnly(toDevice', toHost', what)
    PROVE  ReadInv'
BY DEF ReadInv

\* Handling a report: the answer the handshake waits for, or none.
LEMMA HandleReadInv == TypeInv /\ ReadInv /\ HandlePacket => ReadInv'
<1> SUFFICES ASSUME TypeInv, ReadInv, HandlePacket PROVE ReadInv'
  OBVIOUS
<1>0. PICK r : r = Head(toHost)
  OBVIOUS
<1>1. PICK u : u = Tail(toHost)
  OBVIOUS
<1>2. /\ toDevice \in Seq(Commands) /\ toHost \in Seq(Reports) /\ QueuesOK
      /\ toHost # <<>> /\ toHost' = u /\ handshake_state \in {0, 1, 4, 5}
  BY <1>1 DEF HandlePacket, TypeInv, QueuesOK, TypeOK
<1>3. /\ NoReads(toDevice, toHost) => NoReads(toDevice, u)
      /\ \A what : ReadsOnly(toDevice, toHost, what) =>
            /\ ReadsOnly(toDevice, u, what)
            /\ r.rpt = "read" => NoReads(toDevice, u)
  BY <1>0, <1>1, <1>2, ReadsHandled
<1>4. r.rpt = "read" /\ handshake_state \in {4, 5} => NoReads(toDevice, u)
  BY <1>3 DEF ReadInv
<1>5. ASSUME NEW s, NEW m \in {"btn", "btnexp"}, Finish(s, m), NoReads(toDevice, u)
      PROVE  ReadInv'
  <2>1. handshake_state' = 1 /\ NoReads(toDevice', u)
    BY <1>2, <1>5, FinishSends DEF Finish
  <2> QED BY <1>2, <2>1 DEF ReadInv
<1>6. handshake_state = 1 => NoReads(toDevice, u)
  BY <1>3 DEF ReadInv
<1>7. CASE IsData(r)
  BY <1>2, <1>3, <1>7, ReadsKept DEF IsData, HandleExpansion
<1>8. CASE TellsNothing(r)
  BY <1>2, <1>3, <1>8, ReadsKept DEF TellsNothing, NothingSent
<1>9. CASE TellsPlugged(r)
  <2>1. PICK d : d = Append(Append(toDevice, WriteData), WriteData)
    OBVIOUS
  <2>2. toDevice' = Append(d, ReadId) /\ handshake_state' = 4
    BY <1>2, <1>9, <2>1, CommandsAreTyped, SentTogether
       DEF TellsPlugged, BeginExpansion, Send
  <2>3. d \in Seq(Commands)
    BY <1>2, <2>1, CommandsAreTyped, Appended
  <2>4. NoReads(d, u)
    <3>1. NoReads(Append(toDevice, WriteData), u)
          /\ Append(toDevice, WriteData) \in Seq(Commands)
      BY <1>2, <1>6, <1>9, CommandsAreTyped, ReadsOther, Appended DEF TellsPlugged
    <3> QED BY <2>1, <3>1, CommandsAreTyped, ReadsOther
  <2>5. ReadsOnly(Append(d, ReadId), u, ReadId.arg) /\ ReadId.arg = "id"
    BY <2>3, <2>4, CommandsAreTyped, ReadsAsked
  <2> QED BY <1>2, <2>2, <2>5 DEF ReadInv
<1>10. CASE TellsRemoved(r)
  BY <1>5, <1>6, <1>10 DEF TellsRemoved, EndExpansion
<1>11. CASE TellsEmpty(r)
  BY <1>5, <1>6, <1>11 DEF TellsEmpty
<1>12. CASE TellsClassic(r)
  <2>1. toDevice' = Append(toDevice, ReadCalib) /\ handshake_state' = 5
    BY <1>2, <1>12, CommandsAreTyped, SentTogether DEF TellsClassic, Send
  <2>2. NoReads(toDevice, u)
    BY <1>4, <1>12 DEF TellsClassic
  <2>3. ReadsOnly(Append(toDevice, ReadCalib), u, ReadCalib.arg) /\ ReadCalib.arg = "calib"
    BY <1>2, <2>2, CommandsAreTyped, ReadsAsked
  <2> QED BY <1>2, <2>1, <2>3 DEF ReadInv
<1>13. CASE TellsOther(r)
  BY <1>4, <1>5, <1>13 DEF TellsOther
<1>14. CASE Calibrates(r)
  BY <1>4, <1>5, <1>14 DEF Calibrates, HandshakeCalib
<1> QED BY <1>0, <1>7, <1>8, <1>9, <1>10, <1>11, <1>12, <1>13, <1>14, HandleCases

\* Every step keeps at most one read, the awaited one, under way.
LEMMA NextReadInv == TypeInv /\ ReadInv /\ [Next]_vars => ReadInv'
<1> SUFFICES ASSUME TypeInv, ReadInv, [Next]_vars PROVE ReadInv'
  OBVIOUS
<1>0. /\ toDevice \in Seq(Commands) /\ toHost \in Seq(Reports) /\ QueuesOK
      /\ handshake_state \in {0, 1, 4, 5}
  BY DEF TypeInv, QueuesOK, TypeOK
<1>1. CASE Construct
  <2>1. PICK d : d = Append(toDevice, Led(-1))
    OBVIOUS
  <2>2. /\ toDevice' = Append(d, Status) /\ toHost' = toHost
        /\ handshake_state = 0 /\ handshake_state' = 1
    BY <1>0, <1>1, <2>1, CommandsAreTyped, SentTogether DEF Construct, Send
  <2>3. d \in Seq(Commands) /\ NoReads(d, toHost)
    <3>1. Led(-1) \in Commands /\ Led(-1).cmd # "read" /\ NoReads(toDevice, toHost)
      BY <2>2, CommandsAreTyped DEF ReadInv
    <3> QED BY <1>0, <2>1, <3>1, ReadsOther, Appended
  <2>4. NoReads(Append(d, Status), toHost)
    BY <2>3, CommandsAreTyped, ReadsOther
  <2> QED BY <2>2, <2>4 DEF ReadInv
<1>2. CASE HandlePacket
  BY <1>2, HandleReadInv
<1>3. ASSUME NEW i \in Indices, SetPlayerIndex(i) PROVE ReadInv'
  <2>1. handshake_state' = handshake_state /\ toHost' = toHost
    BY <1>3 DEF SetPlayerIndex
  <2>2. CASE i \in 0..3
    <3>1. PICK x : x = Led(i)
      OBVIOUS
    <3>2. x \in Commands /\ x.cmd # "read"
      BY <2>2, <3>1, CommandsAreTyped
    <3>3. toDevice' = Append(toDevice, x)
      BY <1>0, <1>3, <2>2, <3>1, <3>2, SentTogether DEF SetPlayerIndex, Send
    <3> QED BY <1>0, <2>1, <3>2, <3>3, ReadsOther, ReadsKept
  <2>3. CASE i \notin 0..3
    BY <1>3, <2>1, <2>3, ReadsKept DEF SetPlayerIndex
  <2> QED BY <2>2, <2>3
<1>4. CASE CarryOut
  <2>0. PICK c : c = Head(toDevice)
    OBVIOUS
  <2>1. PICK d : d = Tail(toDevice)
    OBVIOUS
  <2>2. /\ toDevice # <<>> /\ toDevice' = d /\ handshake_state' = handshake_state
        /\ toHost' = CASE c.cmd = "status" -> Append(toHost, Report("status", "none"))
                       [] c.cmd = "read" -> Append(toHost, Report("read", c.arg))
                       [] OTHER -> toHost
    BY <1>4, <2>0, <2>1 DEF CarryOut, driverVars
  <2>3. /\ c \in Commands
        /\ NoReads(toDevice, toHost) => NoReads(d, toHost) /\ c.cmd # "read"
        /\ \A what : ReadsOnly(toDevice, toHost, what) =>
              /\ ReadsOnly(d, toHost, what)
              /\ c.cmd = "read" => NoReads(d, toHost) /\ c.arg = what
    BY <1>0, <2>0, <2>1, <2>2, ReadsTaken, Taken
  <2>4. CASE c.cmd = "status"
    <3>1. PICK r : r = Report("status", "none")
      OBVIOUS
    <3>2. r \in Reports /\ r.rpt # "read" /\ toHost' = Append(toHost, r)
      BY <1>0, <2>2, <2>4, <3>1, ReportsAreTyped DEF Report
    <3>3. /\ NoReads(d, toHost) => NoReads(d, toHost')
          /\ \A what : ReadsOnly(d, toHost, what) => ReadsOnly(d, toHost', what)
      BY <1>0, <3>2, ReadsAppended
    <3> QED BY <2>2, <2>3, <3>3, ReadsKept
  <2>5. CASE c.cmd = "read"
    <3>1. PICK r : r = Report("read", c.arg)
      OBVIOUS
    <3>2. c.arg \in {"id", "calib"}
      BY <2>3, <2>5 DEF Commands
    <3>3. r \in Reports /\ r.of = c.arg /\ toHost' = Append(toHost, r)
      BY <1>0, <2>2, <2>5, <3>1, <3>2, ReportsAreTyped DEF Report
    <3>4. \A what : ReadsOnly(toDevice, toHost, what) => ReadsOnly(d, toHost', what)
      BY <1>0, <2>3, <2>5, <3>3, ReadsAnswered
    <3> QED BY <2>2, <2>3, <2>5, <3>4, ReadsKept
  <2>6. CASE c.cmd \notin {"status", "read"}
    BY <2>2, <2>3, <2>6, ReadsKept
  <2> QED BY <2>4, <2>5, <2>6
<1>5. ASSUME NEW r \in Reports, r.rpt # "read", toHost' = Append(toHost, r),
             UNCHANGED <<driverVars, toDevice>>
      PROVE  ReadInv'
  BY <1>0, <1>5, ReadsAppended, ReadsKept DEF driverVars
<1>6. CASE SendData
  <2>1. Report(mode, "none") \in Reports /\ Report(mode, "none").rpt # "read"
    BY <1>0, <1>6, ReportsAreTyped DEF SendData, Report, TypeInv, TypeOK
  <2> QED BY <1>5, <1>6, <2>1 DEF SendData
<1>7. CASE Replug
  <2>1. PICK r : r = Report("status", "none")'
    OBVIOUS
  <2>2. r.rpt # "read"
    BY <2>1 DEF Report
  <2>3. r \in Reports
    BY <1>7, <2>1 DEF Replug, Report, Reports, Exps, TypeInv, QueuesOK
  <2> QED BY <1>5, <1>7, <2>1, <2>2, <2>3 DEF Replug
<1>8. CASE UNCHANGED vars
  BY <1>8 DEF vars, driverVars, ReadInv
<1> QED BY <1>1, <1>2, <1>3, <1>4, <1>6, <1>7, <1>8 DEF Next

\* A memory report carries no mark of the request it answers (wiimote_handshake
\* tells them by its state): the one at hand is always that which it waits for.
THEOREM ReadsAreNotMistaken == Spec => []ReadsAnswerTheirRequest
<1>1. Init => ReadInv
  BY DEF Init, ReadInv, NoReads
<1>2. TypeInv /\ ReadInv => ReadsAnswerTheirRequest
  <2> SUFFICES ASSUME TypeInv, ReadInv, toHost # <<>>, Head(toHost).rpt = "read"
               PROVE  \/ handshake_state = 4 /\ Head(toHost).of = "id"
                      \/ handshake_state = 5 /\ Head(toHost).of = "calib"
    BY DEF ReadsAnswerTheirRequest
  <2>1. toHost \in Seq(Reports) /\ handshake_state \in {0, 1, 4, 5}
    BY DEF TypeInv, QueuesOK, TypeOK
  <2>2. handshake_state \in {4, 5}
    BY <2>1, ReadsHandled DEF ReadInv
  <2>3. Head(toHost).of = IF handshake_state = 4 THEN "id" ELSE "calib"
    BY <2>1, <2>2, ReadsHandled DEF ReadInv
  <2> QED BY <2>2, <2>3
<1> QED BY <1>1, <1>2, InitTypeInv, NextTypeInv, NextReadInv, PTL DEF Spec

-----------------------------------------------------------------------------
(* What is plugged in, as the driver hears of it. *)

\* What a report says: what was plugged in, and which plug it was.
Says(r) == <<r.exp, r.plug>>

\* What the driver knows once it has handled i reports of u; before it knew seen.
Port(u, seen, i) == IF i = 0 THEN seen ELSE Says(u[i])

\* What comes or goes shows in the next status report.
Follows(p, q) == p = q \/ (p[1] = "none" /\ q[1] # "none") \/ (p[1] # "none" /\ q[1] = "none")

\* Only a status report may tell of a change, and one without the other type of
\* change in between; what is plugged in now is what the last one told.
Chain(u, seen, now) ==
    /\ \A i \in 0..Len(u) :
          (\A j \in (i + 1)..Len(u) : u[j].rpt # "status") => now = Port(u, seen, i)
    /\ \A k \in 1..Len(u) :
          IF u[k].rpt = "status" THEN Follows(Port(u, seen, k - 1), Says(u[k]))
          ELSE Says(u[k]) = Port(u, seen, k - 1)

\* A status report was asked for or is under way.
StatusDue(d, u) == Pending(d, "status") \/ \E k \in 1..Len(u) : u[k].rpt = "status"

\* What the driver's variables say of what it has seen.
Knows(seen) ==
    /\ handshake_state # 1 => expType = "none"
    /\ expType = "classic" => seen[1] = "classic" /\ classic \in {Cleared, seen[2]}
    /\ handshake_state = 0 => state = {}
    /\ handshake_state = 1 /\ "HANDSHAKE" \in state =>
          "EXP" \notin state /\ expType = "none" /\ StatusDue(toDevice, toHost)
    /\ handshake_state = 1 /\ "HANDSHAKE" \notin state =>
          /\ "EXP" \in state <=> seen[1] # "none"
          /\ seen[1] = "classic" => expType = "classic"
          /\ Sets(toDevice, "mode", mode, IF expType = "classic" THEN "btnexp" ELSE "btn")
    /\ handshake_state \in {4, 5} =>
          "EXP" \in state /\ "HANDSHAKE" \in state /\ seen[1] # "none"
    /\ handshake_state = 5 => seen[1] = "classic"

ExpInv ==
    ~missed => \E seen \in Exps \X (0..MaxPlugs) :
                  Chain(toHost, seen, <<plugged, plugs>>) /\ Knows(seen)

\* A report says what is plugged in when it is sent; only a status report may
\* tell of a change.
LEMMA ChainAppended ==
    ASSUME NEW u \in Seq(Reports), NEW seen, NEW now, Chain(u, seen, now),
           NEW r \in Reports,
           IF r.rpt = "status" THEN Follows(now, Says(r)) ELSE Says(r) = now
    PROVE  Chain(Append(u, r), seen, Says(r))
<1>0. PICK v : v = Append(u, r)
  OBVIOUS
<1>1. /\ Len(v) = Len(u) + 1 /\ Len(u) \in Nat /\ v[Len(u) + 1] = r
      /\ \A k \in 1..Len(u) : v[k] = u[k]
  BY <1>0, Appended
<1>2. \A k \in 0..Len(u) : Port(v, seen, k) = Port(u, seen, k)
  BY <1>1 DEF Port
<1>3. Port(u, seen, Len(u)) = now /\ Port(v, seen, Len(u) + 1) = Says(r)
  <2>1. \A j \in (Len(u) + 1)..Len(u) : u[j].rpt # "status"
    BY <1>1
  <2>2. Port(u, seen, Len(u)) = now
    BY <1>1, <2>1 DEF Chain
  <2> QED BY <1>1, <2>2 DEF Port
<1>4. ASSUME NEW i \in 0..Len(v), \A j \in (i + 1)..Len(v) : v[j].rpt # "status"
      PROVE  Says(r) = Port(v, seen, i)
  <2>1. CASE i = Len(u) + 1
    BY <1>3, <2>1
  <2>2. CASE i # Len(u) + 1
    <3>1. i \in 0..Len(u) /\ Len(u) + 1 \in (i + 1)..Len(v)
      BY <1>1, <2>2
    <3>2. \A j \in (i + 1)..Len(u) : u[j].rpt # "status"
      BY <1>1, <1>4, <3>1
    <3>3. now = Port(u, seen, i)
      BY <3>1, <3>2 DEF Chain
    <3>4. r.rpt # "status"
      BY <1>1, <1>4, <3>1
    <3> QED BY <1>2, <3>1, <3>3, <3>4
  <2> QED BY <2>1, <2>2
<1>5. ASSUME NEW k \in 1..Len(v)
      PROVE  IF v[k].rpt = "status" THEN Follows(Port(v, seen, k - 1), Says(v[k]))
             ELSE Says(v[k]) = Port(v, seen, k - 1)
  <2>1. CASE k = Len(u) + 1
    <3>1. v[k] = r /\ Port(v, seen, k - 1) = now
      BY <1>1, <1>2, <1>3, <2>1
    <3> QED BY <3>1
  <2>2. CASE k # Len(u) + 1
    <3>1. k \in 1..Len(u) /\ k - 1 \in 0..Len(u) /\ v[k] = u[k]
      BY <1>1, <2>2
    <3> QED BY <1>2, <3>1 DEF Chain
  <2> QED BY <2>1, <2>2
<1> QED BY <1>0, <1>4, <1>5 DEF Chain

\* The first report, once handled, is what the driver has seen.
LEMMA ChainTail ==
    ASSUME NEW u \in Seq(Reports), u # <<>>, NEW seen, NEW now, Chain(u, seen, now)
    PROVE  /\ Chain(Tail(u), Says(Head(u)), now)
           /\ IF Head(u).rpt = "status" THEN Follows(seen, Says(Head(u)))
              ELSE Says(Head(u)) = seen
<1>0. PICK v : v = Tail(u)
  OBVIOUS
<1>1. /\ Len(v) = Len(u) - 1 /\ Len(u) \in Nat \ {0} /\ Head(u) = u[1]
      /\ \A k \in 1..Len(v) : v[k] = u[k + 1]
      /\ \A k \in 1..Len(u) : k # 1 => k - 1 \in 1..Len(v) /\ u[k] = v[k - 1]
  BY <1>0, Taken
<1>2. PICK new : new = Says(Head(u))
  OBVIOUS
<1>3. \A k \in 0..Len(v) : Port(v, new, k) = Port(u, seen, k + 1)
  BY <1>1, <1>2 DEF Port
<1>4. ASSUME NEW i \in 0..Len(v), \A j \in (i + 1)..Len(v) : v[j].rpt # "status"
      PROVE  now = Port(v, new, i)
  <2>1. i + 1 \in 0..Len(u)
    BY <1>1
  <2>2. ASSUME NEW j \in ((i + 1) + 1)..Len(u) PROVE u[j].rpt # "status"
    <3>1. j - 1 \in (i + 1)..Len(v) /\ u[j] = v[j - 1]
      BY <1>1
    <3> QED BY <1>4, <3>1
  <2>3. now = Port(u, seen, i + 1)
    BY <2>1, <2>2 DEF Chain
  <2> QED BY <1>3, <2>3
<1>5. ASSUME NEW k \in 1..Len(v)
      PROVE  IF v[k].rpt = "status" THEN Follows(Port(v, new, k - 1), Says(v[k]))
             ELSE Says(v[k]) = Port(v, new, k - 1)
  <2>1. k + 1 \in 1..Len(u) /\ (k + 1) - 1 = k /\ k - 1 \in 0..Len(v) /\ (k - 1) + 1 = k
    BY <1>1
  <2>2. Port(v, new, k - 1) = Port(u, seen, k) /\ v[k] = u[k + 1]
    BY <1>1, <1>3, <2>1
  <2> QED BY <2>1, <2>2 DEF Chain
<1>6. IF u[1].rpt = "status" THEN Follows(seen, Says(u[1])) ELSE Says(u[1]) = seen
  <2>1. 1 \in 1..Len(u) /\ Port(u, seen, 1 - 1) = seen
    BY <1>1 DEF Port
  <2> QED BY <2>1 DEF Chain
<1>7. Chain(v, new, now)
  BY <1>4, <1>5 DEF Chain
<1> QED BY <1>0, <1>1, <1>2, <1>6, <1>7

\* With no status report under way the driver has seen what is plugged in.
LEMMA ChainQuiet ==
    ASSUME NEW u \in Seq(Reports), NEW seen, NEW now, Chain(u, seen, now),
           \A k \in 1..Len(u) : u[k].rpt # "status"
    PROVE  now = seen
<1>1. 0 \in 0..Len(u) /\ 0 + 1 = 1
  OBVIOUS
<1> QED BY <1>1 DEF Chain, Port

\* A status report that is due stays due until it is handled.
LEMMA DueAppended ==
    ASSUME NEW S, NEW c \in Seq(S), NEW x \in S, NEW u, NEW d
    PROVE  /\ StatusDue(c, u) => StatusDue(Append(c, x), u)
           /\ x.cmd = "status" => StatusDue(Append(c, x), u)
           /\ StatusDue(d, c) => StatusDue(d, Append(c, x))
           /\ x.rpt = "status" => StatusDue(d, Append(c, x))
<1>0. PICK e : e = Append(c, x)
  OBVIOUS
<1>1. /\ Len(e) = Len(c) + 1 /\ Len(c) \in Nat /\ e[Len(c) + 1] = x
      /\ \A k \in 1..Len(c) : e[k] = c[k]
  BY <1>0, Appended
<1>2. Len(c) + 1 \in 1..Len(e) /\ \A k \in 1..Len(c) : k \in 1..Len(e)
  BY <1>1
<1> QED BY <1>0, <1>1, <1>2 DEF StatusDue, Pending

\* The first command or report is not the one that was due.
LEMMA DueTail ==
    ASSUME NEW S, NEW c \in Seq(S), c # <<>>, NEW u, NEW d
    PROVE  /\ Head(c).cmd # "status" =>
                /\ StatusDue(c, u) => StatusDue(Tail(c), u)
                /\ Pending(c, "status") => Pending(Tail(c), "status")
           /\ StatusDue(d, c) /\ Head(c).rpt # "status" => StatusDue(d, Tail(c))
<1>0. PICK e : e = Tail(c)
  OBVIOUS
<1>1. /\ Head(c) = c[1]
      /\ \A k \in 1..Len(c) : k # 1 => k - 1 \in 1..Len(e) /\ c[k] = e[k - 1]
  BY <1>0, Taken
<1>2. Head(c).cmd # "status" /\ Pending(c, "status") => Pending(e, "status")
  BY <1>1 DEF Pending
<1>3. StatusDue(d, c) /\ Head(c).rpt # "status" => StatusDue(d, e)
  BY <1>1 DEF StatusDue
<1> QED BY <1>0, <1>2, <1>3 DEF StatusDue

\* Handling a report, unless a removal is missed by it: the driver has seen what
\* it says.
LEMMA HandleKnows ==
    ASSUME TypeInv, HandlePacket, NEW r, r = Head(toHost), ~missed',
           NEW seen, NEW new, new = Says(r), Knows(seen),
           IF r.rpt = "status" THEN Follows(seen, new) ELSE new = seen
    PROVE  Knows(new)'
<1>1. /\ toHost \in Seq(Reports) /\ toDevice \in Seq(Commands) /\ QueuesOK
      /\ toHost # <<>> /\ toHost' = Tail(toHost) /\ r \in Reports
      /\ mode' = mode /\ handshake_state \in {1, 4, 5}
      /\ new[1] = r.exp /\ new[2] = r.plug
      /\ handshake_state \in {4, 5} /\ r.rpt = "status" => r.exp # "none"
  BY Taken DEF HandlePacket, TypeInv, TypeOK, QueuesOK, remoteVars, Says
<1>2. ASSUME NEW s, NEW m \in {"btn", "btnexp"}, Finish(s, m)
      PROVE  /\ handshake_state' = 1 /\ "HANDSHAKE" \notin state'
             /\ "EXP" \in state' <=> "EXP" \in s
             /\ Sets(toDevice', "mode", mode', m)
  BY <1>1, <1>2, FinishSends DEF Finish
<1>3. ASSUME new = seen, UNCHANGED <<handshake_state, state, expType, toDevice>>,
             r.rpt # "status",
             expType = "classic" => classic' \in {Cleared, seen[2]}
      PROVE  Knows(new)'
  <2>1. StatusDue(toDevice, toHost) => StatusDue(toDevice', toHost')
    BY <1>1, <1>3, DueTail
  <2> QED BY <1>1, <1>3, <2>1 DEF Knows
<1>4. CASE IsData(r)
  BY <1>1, <1>3, <1>4 DEF IsData, HandleExpansion, Knows
<1>5. CASE TellsNothing(r)
  <2>1. UNCHANGED <<handshake_state, state, expType, classic, toDevice>>
    BY <1>5 DEF TellsNothing, NothingSent
  <2>2. CASE r.rpt # "status"
    BY <1>3, <2>1, <2>2 DEF Knows
  <2>3. CASE r.rpt = "status"
    <3>1. "HANDSHAKE" \notin state \/ handshake_state \in {4, 5}
      BY <1>1, <1>5, <2>3 DEF TellsNothing, Knows
    <3>2. new = seen
      BY <1>1, <1>5, <2>3 DEF TellsNothing, Knows, Follows
    <3> QED BY <1>1, <2>1, <3>1, <3>2 DEF Knows
  <2> QED BY <2>2, <2>3
<1>6. CASE TellsPlugged(r)
  <2>1. /\ handshake_state = 1 /\ handshake_state' = 4 /\ expType' = expType
        /\ state' = Rehandshake(state \cup {"EXP"}) /\ new[1] # "none"
        /\ "EXP" \notin state
    BY <1>1, <1>6 DEF TellsPlugged, BeginExpansion
  <2>2. "EXP" \in state' /\ "HANDSHAKE" \in state'
    BY <2>1 DEF Rehandshake, TypeInv, TypeOK
  <2>3. expType = "none"
    BY <2>1 DEF Knows, TypeInv, TypeOK
  <2> QED BY <2>1, <2>2, <2>3 DEF Knows
<1>7. CASE TellsRemoved(r)
  <2>1. expType' = "none" /\ new[1] = "none" /\ Finish(Rehandshake(state \ {"EXP"}), "btn")
    BY <1>1, <1>7 DEF TellsRemoved, EndExpansion
  <2>2. "EXP" \notin Rehandshake(state \ {"EXP"})
    BY DEF Rehandshake
  <2>3. /\ handshake_state' = 1 /\ "HANDSHAKE" \notin state' /\ "EXP" \notin state'
        /\ Sets(toDevice', "mode", mode', "btn")
    BY <1>2, <2>1, <2>2
  <2> QED BY <2>1, <2>3 DEF Knows
<1>8. CASE TellsEmpty(r)
  <2>1. expType' = "none" /\ new[1] = "none" /\ "EXP" \notin state
    BY <1>1, <1>8 DEF TellsEmpty, Knows
  <2>2. /\ handshake_state' = 1 /\ "HANDSHAKE" \notin state' /\ "EXP" \notin state'
        /\ Sets(toDevice', "mode", mode', "btn")
    BY <1>2, <1>8, <2>1 DEF TellsEmpty
  <2> QED BY <2>1, <2>2 DEF Knows
<1>9. CASE TellsClassic(r)
  BY <1>1, <1>9 DEF TellsClassic, Knows
<1>10. CASE TellsOther(r)
  <2>1. /\ expType' = "none" /\ new[1] # "none" /\ new[1] # "classic" /\ "EXP" \in state
    BY <1>1, <1>10 DEF TellsOther, Knows
  <2>2. /\ handshake_state' = 1 /\ "HANDSHAKE" \notin state' /\ "EXP" \in state'
        /\ Sets(toDevice', "mode", mode', "btn")
    BY <1>2, <1>10, <2>1 DEF TellsOther
  <2> QED BY <2>1, <2>2 DEF Knows
<1>11. CASE Calibrates(r)
  <2>1. /\ expType' = "classic" /\ classic' = Cleared /\ new[1] = "classic"
        /\ "EXP" \in state /\ Finish(state, "btnexp")
    BY <1>1, <1>11 DEF Calibrates, HandshakeCalib, Knows
  <2>2. /\ handshake_state' = 1 /\ "HANDSHAKE" \notin state' /\ "EXP" \in state'
        /\ Sets(toDevice', "mode", mode', "btnexp")
    BY <1>2, <2>1
  <2> QED BY <2>1, <2>2 DEF Knows
<1> QED BY <1>4, <1>5, <1>6, <1>7, <1>8, <1>9, <1>10, <1>11, HandleCases

\* A step of the remote or the frontend, that may only ask or tell more.
LEMMA KnowsKept ==
    ASSUME NEW seen, Knows(seen),
           UNCHANGED <<handshake_state, state, expType, classic>>,
           StatusDue(toDevice, toHost) => StatusDue(toDevice', toHost'),
           \A v : Sets(toDevice, "mode", mode, v) => Sets(toDevice', "mode", mode', v)
    PROVE  Knows(seen)'
BY DEF Knows

\* One report more, that says what is plugged in.
LEMMA ReportSent ==
    ASSUME TypeInv, QueuesOK', NEW seen \in Exps \X (0..MaxPlugs),
           Chain(toHost, seen, <<plugged, plugs>>), Knows(seen),
           NEW r \in Reports, toHost' = Append(toHost, r),
           Says(r) = <<plugged', plugs'>>,
           IF r.rpt = "status" THEN Follows(<<plugged, plugs>>, Says(r))
           ELSE Says(r) = <<plugged, plugs>>,
           UNCHANGED <<handshake_state, state, expType, classic>>,
           Pending(toDevice, "status") => Pending(toDevice', "status")
                                          \/ r.rpt = "status",
           \A v : Sets(toDevice, "mode", mode, v) => Sets(toDevice', "mode", mode', v)
    PROVE  ExpInv'
<1>1. toHost \in Seq(Reports)
  BY DEF TypeInv, QueuesOK
<1>2. Chain(toHost', seen, <<plugged', plugs'>>)
  <2>1. Chain(Append(toHost, r), seen, Says(r))
    BY <1>1, ChainAppended
  <2> QED BY <2>1
<1>3. StatusDue(toDevice, toHost) => StatusDue(toDevice', toHost')
  <2>1. CASE r.rpt = "status"
    BY <1>1, <2>1, DueAppended
  <2>2. CASE r.rpt # "status"
    <3>1. StatusDue(toDevice, toHost) => StatusDue(toDevice', toHost)
      BY <2>2 DEF StatusDue
    <3> QED BY <1>1, <3>1, DueAppended
  <2> QED BY <2>1, <2>2
<1>4. Knows(seen)'
  BY <1>3, KnowsKept
<1> QED BY <1>2, <1>4 DEF ExpInv

\* Every step keeps what the driver knows of the expansion, unless it misses one.
LEMMA NextExpInv == TypeInv /\ LedInv /\ ExpInv /\ [Next]_vars => ExpInv'
<1> SUFFICES ASSUME TypeInv, LedInv, ExpInv, [Next]_vars, ~missed' PROVE ExpInv'
  BY DEF ExpInv
<1>0. /\ toDevice \in Seq(Commands) /\ toHost \in Seq(Reports) /\ QueuesOK
      /\ handshake_state \in {0, 1, 4, 5} /\ TypeInv'
  BY NextTypeInv DEF TypeInv, QueuesOK, TypeOK
<1>1. ~missed
  BY DEF Next, Construct, HandlePacket, SetPlayerIndex, CarryOut, SendData,
         Replug, vars, driverVars
<1>2. PICK seen \in Exps \X (0..MaxPlugs) :
          Chain(toHost, seen, <<plugged, plugs>>) /\ Knows(seen)
  BY <1>1 DEF ExpInv
<1>3. ASSUME UNCHANGED <<toHost, plugged, plugs>>, Knows(seen)'
      PROVE  ExpInv'
  BY <1>2, <1>3 DEF ExpInv
<1>4. CASE Construct
  <2>1. /\ handshake_state = 0 /\ handshake_state' = 1 /\ state' = {"HANDSHAKE"}
        /\ UNCHANGED <<expType, classic, toHost, plugged, plugs>>
    BY <1>4 DEF Construct, remoteVars
  <2>2. StatusDue(toDevice', toHost')
    <3>1. PICK d : d = Append(toDevice, Led(-1))
      OBVIOUS
    <3>2. d \in Seq(Commands) /\ toDevice' = Append(d, Status)
      BY <1>0, <1>4, <3>1, CommandsAreTyped, SentTogether, Appended
         DEF Construct, Send
    <3> QED BY <3>2, CommandsAreTyped, DueAppended
  <2>3. Knows(seen)'
    <3>1. expType = "none"
      BY <1>2, <2>1 DEF Knows
    <3> QED BY <2>1, <2>2, <3>1 DEF Knows
  <2> QED BY <1>3, <2>1, <2>3
<1>5. CASE HandlePacket
  <2>1. PICK r : r = Head(toHost)
    OBVIOUS
  <2>2. /\ toHost # <<>> /\ toHost' = Tail(toHost) /\ UNCHANGED <<plugged, plugs>>
        /\ r \in Reports
    BY <1>0, <1>5, <2>1, Taken DEF HandlePacket, remoteVars
  <2>3. PICK new : new = Says(r)
    OBVIOUS
  <2>4. /\ Chain(Tail(toHost), new, <<plugged, plugs>>)
        /\ IF r.rpt = "status" THEN Follows(seen, new) ELSE new = seen
    BY <1>0, <1>2, <2>1, <2>2, <2>3, ChainTail
  <2>5. Knows(new)'
    BY <1>2, <1>5, <2>1, <2>3, <2>4, HandleKnows
  <2>6. new \in Exps \X (0..MaxPlugs)
    BY <2>2, <2>3 DEF Reports, Says
  <2>7. Chain(toHost', new, <<plugged', plugs'>>)
    BY <2>2, <2>4
  <2> QED BY <2>5, <2>6, <2>7 DEF ExpInv
<1>6. ASSUME NEW i \in Indices, SetPlayerIndex(i) PROVE ExpInv'
  <2>1. UNCHANGED <<handshake_state, state, expType, classic, toHost, mode,
                    plugged, plugs>>
    BY <1>6 DEF SetPlayerIndex, remoteVars
  <2>2. CASE i \in 0..3
    <3>1. PICK x : x = Led(i)
      OBVIOUS
    <3>2. x \in Commands /\ x.cmd = "led"
      BY <2>2, <3>1, CommandsAreTyped
    <3>3. toDevice' = Append(toDevice, x)
      BY <1>0, <1>6, <2>2, <3>1, <3>2, SentTogether DEF SetPlayerIndex, Send
    <3>4. /\ StatusDue(toDevice, toHost) => StatusDue(toDevice', toHost')
          /\ \A v : Sets(toDevice, "mode", mode, v) => Sets(toDevice', "mode", mode', v)
      BY <1>0, <2>1, <3>2, <3>3, DueAppended, SetsOther
    <3> QED BY <1>2, <1>3, <2>1, <3>4, KnowsKept
  <2>3. CASE i \notin 0..3
    <3>1. toDevice' = toDevice
      BY <1>6, <2>3 DEF SetPlayerIndex
    <3> QED BY <1>2, <1>3, <2>1, <3>1, KnowsKept
  <2> QED BY <2>2, <2>3
<1>7. CASE CarryOut
  <2>0. PICK c : c = Head(toDevice)
    OBVIOUS
  <2>1. /\ toDevice # <<>> /\ toDevice' = Tail(toDevice) /\ c \in Commands
        /\ mode' = IF c.cmd = "mode" THEN c.arg ELSE mode
        /\ toHost' = CASE c.cmd = "status" -> Append(toHost, Report("status", "none"))
                       [] c.cmd = "read" -> Append(toHost, Report("read", c.arg))
                       [] OTHER -> toHost
        /\ UNCHANGED <<handshake_state, state, expType, classic, plugged, plugs>>
    BY <1>0, <1>7, <2>0, Taken DEF CarryOut, driverVars
  <2>2. \A v : Sets(toDevice, "mode", mode, v) => Sets(toDevice', "mode", mode', v)
    BY <1>0, <2>0, <2>1, SetsTail
  <2>3. c.cmd # "status" =>
          /\ StatusDue(toDevice, toHost) => StatusDue(toDevice', toHost)
          /\ Pending(toDevice, "status") => Pending(toDevice', "status")
    BY <1>0, <2>0, <2>1, DueTail
  <2>4. CASE c.cmd = "status"
    <3>1. PICK r : r = Report("status", "none")
      OBVIOUS
    <3>2. r \in Reports /\ r.rpt = "status" /\ Says(r) = <<plugged, plugs>>
      BY <1>0, <3>1, ReportsAreTyped DEF Report, Says
    <3> QED BY <1>0, <1>2, <2>1, <2>2, <2>4, <3>1, <3>2, ReportSent
            DEF Follows, TypeInv
  <2>5. CASE c.cmd = "read"
    <3>1. PICK r : r = Report("read", c.arg)
      OBVIOUS
    <3>2. c.arg \in {"id", "calib"}
      BY <2>1, <2>5 DEF Commands
    <3>3. r \in Reports /\ r.rpt = "read" /\ Says(r) = <<plugged, plugs>>
      BY <1>0, <3>1, <3>2, ReportsAreTyped DEF Report, Says
    <3> QED BY <1>0, <1>2, <2>1, <2>2, <2>3, <2>5, <3>1, <3>3, ReportSent
            DEF TypeInv
  <2>6. CASE c.cmd \notin {"status", "read"}
    <3>1. toHost' = toHost
      BY <2>1, <2>6
    <3> QED BY <1>2, <1>3, <2>1, <2>2, <2>3, <2>6, <3>1, KnowsKept
  <2> QED BY <2>4, <2>5, <2>6
<1>8. CASE SendData
  <2>1. PICK r : r = Report(mode, "none")
    OBVIOUS
  <2>2. /\ r \in Reports /\ r.rpt # "status" /\ Says(r) = <<plugged, plugs>>
        /\ toHost' = Append(toHost, r)
    BY <1>0, <1>8, <2>1, ReportsAreTyped DEF SendData, Report, Says, TypeInv, TypeOK
  <2>3. UNCHANGED <<handshake_state, state, expType, classic, toDevice, mode,
                    plugged, plugs>>
    BY <1>8 DEF SendData, driverVars, remoteVars
  <2> QED BY <1>0, <1>2, <2>2, <2>3, ReportSent DEF TypeInv
<1>9. CASE Replug
  <2>1. PICK r : r = Report("status", "none")'
    OBVIOUS
  <2>2. /\ r.rpt = "status" /\ Says(r) = <<plugged', plugs'>>
        /\ toHost' = Append(toHost, r)
        /\ UNCHANGED <<handshake_state, state, expType, classic, toDevice, mode>>
    BY <1>9, <2>1 DEF Replug, driverVars, Report, Says
  <2>3. r \in Reports
    BY <1>0, <2>1 DEF Report, Reports, TypeInv, QueuesOK
  <2>4. Follows(<<plugged, plugs>>, Says(r))
    BY <1>9, <2>2 DEF Replug, Follows
  <2> QED BY <1>0, <1>2, <2>2, <2>3, <2>4, ReportSent DEF TypeInv
<1>10. CASE UNCHANGED vars
  <2>1. UNCHANGED <<handshake_state, state, expType, classic, toDevice, toHost, mode,
                    plugged, plugs>>
    BY <1>10 DEF vars, driverVars, remoteVars
  <2> QED BY <1>2, <1>3, <2>1, KnowsKept
<1> QED BY <1>4, <1>5, <1>6, <1>7, <1>8, <1>9, <1>10 DEF Next

\* At first the driver has seen what is plugged in, and knows nothing of it.
LEMMA InitExpInv == Init => ExpInv
<1> SUFFICES ASSUME Init PROVE ExpInv
  OBVIOUS
<1>1. PICK seen : seen = <<plugged, plugs>>
  OBVIOUS
<1>2. seen \in Exps \X (0..MaxPlugs)
  BY <1>1 DEF Init, Exps
<1>3. Chain(toHost, seen, <<plugged, plugs>>)
  BY <1>1 DEF Init, Chain, Port
<1>4. Knows(seen)
  BY DEF Init, Knows
<1> QED BY <1>2, <1>3, <1>4 DEF ExpInv

\* When no status or read is under way, the driver takes what is plugged in for
\* what it is and the report mode fits, as long as no removal was reported while
\* it waited for a read (state 1 of wiimote_handshake, the mode of states 2, 3).
THEOREM ExpansionIsKnown == Spec => []ExpansionIsFollowedUnlessMissed
<1>1. Init => ExpInv
  BY InitExpInv
<1>2. TypeInv /\ ExpInv => ExpansionIsFollowedUnlessMissed
  <2> SUFFICES ASSUME TypeInv, ExpInv, ~missed, Settled
               PROVE  /\ expType = "classic" <=> plugged = "classic"
                      /\ mode = IF plugged = "classic" THEN "btnexp" ELSE "btn"
    BY DEF ExpansionIsFollowedUnlessMissed
  <2>1. PICK seen \in Exps \X (0..MaxPlugs) :
            Chain(toHost, seen, <<plugged, plugs>>) /\ Knows(seen)
    BY DEF ExpInv
  <2>2. /\ \A k \in 1..Len(toHost) : toHost[k].rpt # "status"
        /\ ~Pending(toDevice, "status") /\ ~Pending(toDevice, "mode")
        /\ toHost \in Seq(Reports) /\ handshake_state = 1
    BY DEF Settled, Pending, TypeInv, QueuesOK
  <2>3. <<plugged, plugs>> = seen
    BY <2>1, <2>2, ChainQuiet
  <2>4. seen[1] = plugged
    BY <2>3
  <2>5. ~StatusDue(toDevice, toHost)
    BY <2>2 DEF StatusDue
  <2>6. "HANDSHAKE" \notin state
    BY <2>1, <2>2, <2>5 DEF Knows
  <2>7. /\ expType = "classic" <=> plugged = "classic"
        /\ Sets(toDevice, "mode", mode, IF expType = "classic" THEN "btnexp" ELSE "btn")
    BY <2>1, <2>2, <2>4, <2>6 DEF Knows
  <2> QED BY <2>2, <2>7 DEF Sets
<1>3. Init => LedInv
  BY DEF Init, LedInv
<1> QED BY <1>1, <1>2, <1>3, InitTypeInv, NextTypeInv, NextLedInv, NextExpInv, PTL
        DEF Spec

\* Only handling a report takes one from those under way.
LEMMA TakenIsHandled ==
    ASSUME TypeInv, TypeInv', [Next]_vars, toHost # <<>>, toHost' = Tail(toHost)
    PROVE  HandlePacket
<1>1. toHost \in Seq(Reports)
  BY DEF TypeInv, QueuesOK
<1>2. toHost' # toHost /\ \A r : toHost' # Append(toHost, r)
  <2>1. PICK n \in Nat \ {0} : n = Len(toHost)
    BY <1>1
  <2>2. Len(toHost') = n - 1 /\ Len(toHost') # n
    BY <1>1, <2>1, Taken
  <2>3. \A r : Len(Append(toHost, r)) = n + 1
    BY <1>1, <2>1
  <2>4. n - 1 # n + 1
    BY <2>1
  <2> QED BY <2>1, <2>2, <2>3, <2>4
<1> QED BY <1>2 DEF Next, Construct, SetPlayerIndex, CarryOut, SendData, Replug, vars

\* The input state sent in the Classic Controller's layout (HandlePacket,
\* exp.classic) is the data of the Classic Controller that was plugged in when the
\* remote sent the report, or none yet, unless a removal was missed.
THEOREM StateIsItsOwn == Spec => StateIsOfThisExpansion
<1>1. Init => ExpInv /\ LedInv
  <2>1. Init => LedInv
    BY DEF Init, LedInv
  <2> QED BY <2>1, InitExpInv
<1>2. ASSUME TypeInv, TypeInv', ExpInv, [Next]_vars, toHost # <<>>,
             toHost' = Tail(toHost), ~missed', expType' = "classic"
      PROVE  /\ Head(toHost).exp = "classic"
             /\ classic' \in {Cleared, Head(toHost).plug}
  <2>1. PICK r : r = Head(toHost)
    OBVIOUS
  <2>2. PICK new : new = Says(r)
    OBVIOUS
  <2>3. HandlePacket /\ toHost \in Seq(Reports)
    BY <1>2, TakenIsHandled DEF TypeInv, QueuesOK
  <2>4. ~missed
    BY <1>2, <2>3 DEF HandlePacket
  <2>5. PICK seen \in Exps \X (0..MaxPlugs) :
            Chain(toHost, seen, <<plugged, plugs>>) /\ Knows(seen)
    BY <1>2, <2>4 DEF ExpInv
  <2>6. IF r.rpt = "status" THEN Follows(seen, new) ELSE new = seen
    BY <1>2, <2>1, <2>2, <2>3, <2>5, ChainTail
  <2>7. Knows(new)'
    BY <1>2, <2>1, <2>2, <2>3, <2>5, <2>6, HandleKnows
  <2>8. new[1] = "classic" /\ classic' \in {Cleared, new[2]}
    BY <1>2, <2>7 DEF Knows
  <2> QED BY <2>1, <2>2, <2>8 DEF Says
<1>3. TypeInv /\ TypeInv' /\ ExpInv /\ [Next]_vars =>
        [toHost # <<>> /\ toHost' = Tail(toHost) =>
           (~missed' /\ expType' = "classic" =>
              /\ Head(toHost).exp = "classic"
              /\ classic' \in {Cleared, Head(toHost).plug})]_vars
  BY <1>2
<1> QED BY <1>1, <1>3, InitTypeInv, NextTypeInv, NextLedInv, NextExpInv, PTL
        DEF Spec, StateIsOfThisExpansion
=============================================================================
