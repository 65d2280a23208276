--------------------------- MODULE CpycStoreProofs ---------------------------
(***************************************************************************)
(* Theorems of module CpycStore, for every set of headers, records, files  *)
(* and processes, with and without crashes and full disks.                 *)
(***************************************************************************)
EXTENDS CpycStore, SequenceTheorems, TLAPS

States == [pc : {"check", "parse", "emit", "write", "written", "open", "read", "loaded"},
           header : Headers, pos : Nat, ir : Seq(Fns \cup {Junk})]

(* What holds of a client in state s while the files are fs.  A file that  *)
(* is being written exists.                                                *)
Typed(fs, s) ==
    /\ s \in {Idle} \cup States
    /\ s.pc = "write" => fs[CpycPath[s.header]] \in Contents

TypeInv ==
    /\ file \in [Files -> Contents \cup {NoFile}]
    /\ client \in [Clients -> {Idle} \cup States]
    /\ \A c \in Clients : Typed(file, client[c])

(* The steps that write to no file. *)
QuietStep(c) ==
    \/ Call(c) \/ Check(c) \/ Parse(c) \/ WriteFails(c) \/ Close(c)
    \/ Open(c) \/ Reject(c) \/ ReadHead(c) \/ ReadFn(c) \/ ReadEnd(c)
    \/ Drop(c) \/ Crash(c)

-----------------------------------------------------------------------------
LEMMA TokensAre ==
    ASSUME NEW h \in Headers
    PROVE  /\ Tokens(h) \in Seq(Fns \cup {Magic, Sentinel, Hole})
           /\ Len(Tokens(h)) = Len(Decl[h]) + 2
           /\ Decl[h] \in Seq(Fns) /\ Len(Decl[h]) \in Nat
           /\ Tokens(h)[1] = Magic
           /\ \A i \in 1..Len(Decl[h]) : Tokens(h)[i + 1] = Decl[h][i] /\ Decl[h][i] \in Fns
           /\ Tokens(h)[Len(Decl[h]) + 2] = Sentinel
<1>1. Decl[h] \in Seq(Fns) /\ Len(Decl[h]) \in Nat
  BY DeclAssumption
<1>. DEFINE T == Fns \cup {Magic, Sentinel, Hole}
<1>2. <<Magic>> \in Seq(T) /\ <<Sentinel>> \in Seq(T) /\ Decl[h] \in Seq(T)
  BY <1>1
<1>3. <<Magic>> \o Decl[h] \in Seq(T) /\ Len(<<Magic>> \o Decl[h]) = Len(Decl[h]) + 1
  BY <1>2, ConcatProperties
<1>4. /\ (<<Magic>> \o Decl[h])[1] = Magic
      /\ \A i \in 1..Len(Decl[h]) : (<<Magic>> \o Decl[h])[i + 1] = Decl[h][i]
  BY <1>1, <1>2
<1>5. \A i \in 1..Len(Decl[h]) : Decl[h][i] \in Fns
  BY <1>1
<1>. DEFINE X == <<Magic>> \o Decl[h]
<1>6. X \in Seq(T) /\ Len(X) = Len(Decl[h]) + 1 /\ Tokens(h) = X \o <<Sentinel>>
  BY <1>3 DEF Tokens
<1>. HIDE DEF X
<1>7. /\ Tokens(h) \in Seq(T) /\ Len(Tokens(h)) = Len(X) + 1
      /\ \A i \in 1..Len(X) : Tokens(h)[i] = X[i]
      /\ Tokens(h)[Len(X) + 1] = Sentinel
  BY <1>2, <1>6, ConcatProperties
<1>8. \A i \in 1..Len(Decl[h]) : i + 1 \in 1..Len(X) /\ 1 \in 1..Len(X)
  BY <1>1, <1>6
<1>9. 1 \in 1..Len(X) /\ Len(X) + 1 = Len(Decl[h]) + 2
  BY <1>1, <1>6
<1>. QED  BY <1>1, <1>4, <1>5, <1>6, <1>7, <1>8, <1>9 DEF X

LEMMA StateOf ==
    ASSUME TypeInv, NEW c \in Clients
    PROVE  /\ client[c] = Idle \/ client[c] \in States
           /\ client[c] = Idle => client[c].pc = "idle"
           /\ client[c] \in States => client[c].pc # "idle"
           /\ client[c] \in States => Path(c) \in Files /\ client[c].header \in Headers
BY CpycPathAssumption DEF TypeInv, States, Idle, Path

(* Where a step that writes to no file takes its client. *)
LEMMA QuietTarget ==
    ASSUME TypeInv, NEW c \in Clients, QuietStep(c)
    PROVE  /\ UNCHANGED file
           /\ \E s \in {Idle} \cup States :
                 client' = [client EXCEPT ![c] = s] /\ s.pc # "write"
<1>1. UNCHANGED file
  BY DEF QuietStep, Call, Check, Parse, WriteFails, Close, Open, Reject, ReadHead, ReadFn,
         ReadEnd, Drop, Crash
<1>2. ASSUME Leave(c)
      PROVE  \E s \in {Idle} \cup States :
                 client' = [client EXCEPT ![c] = s] /\ s.pc # "write"
  <2>1. Idle.pc # "write"
    BY DEF Idle
  <2>. QED  BY <1>2, <2>1 DEF Leave
<1>3. ASSUME client[c].pc # "idle",
             NEW pc \in {"check", "parse", "emit", "written", "open", "read", "loaded"},
             NEW pos \in Nat, NEW ir \in Seq(Fns \cup {Junk}), Go(c, pc, pos, ir)
      PROVE  \E s \in {Idle} \cup States :
                 client' = [client EXCEPT ![c] = s] /\ s.pc # "write"
  <2>. DEFINE s == [pc |-> pc, header |-> client[c].header, pos |-> pos, ir |-> ir]
  <2>1. s \in States /\ s.pc # "write"
    BY <1>3, StateOf DEF States
  <2>. QED  BY <1>3, <2>1 DEF Go
<1>4. << >> \in Seq(Fns \cup {Junk}) /\ \A h \in Headers : Decl[h] \in Seq(Fns \cup {Junk})
  BY DeclAssumption
<1>5. client[c].pc # "idle" => client[c].pos \in Nat /\ client[c].ir \in Seq(Fns \cup {Junk})
                               /\ client[c].header \in Headers
  BY StateOf DEF States
<1>6. CASE Call(c)
  <2>1. PICK h \in Headers, pc \in {"open", "parse", "check"} :
           client' = [client EXCEPT ![c] = [pc |-> pc, header |-> h, pos |-> 0, ir |-> << >>]]
    BY <1>6 DEF Call
  <2>. DEFINE s == [pc |-> pc, header |-> h, pos |-> 0, ir |-> << >>]
  <2>2. s \in States /\ s.pc # "write"
    BY <1>4, <2>1 DEF States
  <2>. QED  BY <1>1, <2>1, <2>2
<1>7. CASE Check(c) \/ Parse(c) \/ Close(c) \/ Open(c)
  <2>1. client[c].pc # "idle"
    BY <1>7 DEF Check, Parse, Close, Open, At
  <2>2. CASE Check(c)
    BY <1>3, <1>4, <2>1, <2>2 DEF Check
  <2>3. CASE Parse(c)
    BY <1>2, <1>3, <1>4, <1>5, <2>1, <2>3 DEF Parse
  <2>4. CASE Close(c)
    BY <1>3, <1>5, <2>1, <2>4 DEF Close
  <2>5. CASE Open(c)
    BY <1>2, <1>3, <1>4, <2>1, <2>5 DEF Open
  <2>. QED  BY <1>7, <2>2, <2>3, <2>4, <2>5
<1>8. CASE ReadHead(c) \/ ReadFn(c) \/ ReadEnd(c)
  <2>1. client[c].pc # "idle"
    BY <1>8 DEF ReadHead, ReadFn, ReadEnd, At
  <2>2. CASE ReadHead(c)
    BY <1>3, <1>4, <2>1, <2>2 DEF ReadHead
  <2>3. CASE ReadFn(c)
    <3>1. \A t : Append(client[c].ir, IF t \in Fns THEN t ELSE Junk) \in Seq(Fns \cup {Junk})
      BY <1>5, <2>1
    <3>2. client[c].pos + 1 \in Nat
      BY <1>5, <2>1
    <3>. QED  BY <1>3, <2>1, <2>3, <3>1, <3>2 DEF ReadFn
  <2>4. CASE ReadEnd(c)
    BY <1>3, <1>5, <2>1, <2>4 DEF ReadEnd
  <2>. QED  BY <1>8, <2>2, <2>3, <2>4
<1>9. CASE WriteFails(c) \/ Reject(c) \/ Drop(c) \/ Crash(c)
  BY <1>2, <1>9 DEF WriteFails, Reject, Drop, Crash
<1>. QED  BY <1>1, <1>6, <1>7, <1>8, <1>9 DEF QuietStep

(* One buffer reaches the file: nothing before it changes. *)
LEMMA WrittenAtIs ==
    ASSUME NEW data \in Contents, NEW pos \in Nat, NEW t \in Fns \cup {Magic, Sentinel, Hole}
    PROVE  /\ WrittenAt(data, pos, t) \in Contents
           /\ Len(data) = pos =>
                 /\ Len(WrittenAt(data, pos, t)) = pos + 1
                 /\ WrittenAt(data, pos, t)[pos + 1] = t
                 /\ \A i \in 1..pos : WrittenAt(data, pos, t)[i] = data[i]
<1>. DEFINE n == IF Len(data) > pos THEN Len(data) ELSE pos + 1
            at(i) == IF i = pos + 1 THEN t ELSE IF i <= Len(data) THEN data[i] ELSE Hole
            T == Fns \cup {Magic, Sentinel, Hole}
<1>1. n \in Nat /\ Len(data) \in Nat
  BY DEF Contents
<1>2. \A i \in 1..n : at(i) \in T
  BY <1>1 DEF Contents
<1>3. WrittenAt(data, pos, t) = [i \in 1..n |-> at(i)]
  BY DEF WrittenAt
<1>. HIDE DEF n
<1>4. [i \in 1..n |-> at(i)] \in Seq(T) /\ Len([i \in 1..n |-> at(i)]) = n
  BY <1>1, <1>2
<1>5. WrittenAt(data, pos, t) \in Contents
  BY <1>3, <1>4 DEF Contents
<1>6. ASSUME Len(data) = pos
      PROVE  /\ Len(WrittenAt(data, pos, t)) = pos + 1
             /\ WrittenAt(data, pos, t)[pos + 1] = t
             /\ \A i \in 1..pos : WrittenAt(data, pos, t)[i] = data[i]
  <2>1. n = pos + 1
    BY <1>6 DEF n
  <2>. QED  BY <1>3, <1>4, <1>6, <2>1
<1>. QED  BY <1>5, <1>6

-----------------------------------------------------------------------------
(* Types. *)

LEMMA TypeInvTruncate ==
    ASSUME TypeInv, NEW c \in Clients, Truncate(c)
    PROVE  TypeInv'
<1>. DEFINE s == [pc |-> "write", header |-> client[c].header, pos |-> 0,
                  ir |-> client[c].ir]
<1>1. client[c] \in States /\ Path(c) \in Files
  BY StateOf DEF Truncate, At
<1>2. s \in States /\ CpycPath[s.header] = Path(c)
  BY <1>1 DEF States, Path
<1>3. client' = [client EXCEPT ![c] = s] /\ file' = [file EXCEPT ![Path(c)] = << >>]
  BY DEF Truncate, Go
<1>. HIDE DEF s
<1>4. << >> \in Contents
  BY DEF Contents
<1>5. file' \in [Files -> Contents \cup {NoFile}] /\ client' \in [Clients -> {Idle} \cup States]
  BY <1>2, <1>3, <1>4 DEF TypeInv
<1>6. \A f \in Files : file'[f] = file[f] \/ file'[f] \in Contents
  BY <1>3, <1>4 DEF TypeInv
<1>7. \A d \in Clients : client'[d] = IF d = c THEN s ELSE client[d]
  BY <1>3 DEF TypeInv
<1>8. ASSUME NEW d \in Clients PROVE Typed(file', client'[d])
  <2>1. CASE d = c
    BY <1>1, <1>2, <1>3, <1>4, <1>7, <2>1 DEF Typed, TypeInv
  <2>2. CASE d # c
    <3>1. client'[d] = client[d] /\ Typed(file, client[d])
      BY <1>7, <2>2 DEF TypeInv
    <3>2. client[d].pc = "write" => CpycPath[client[d].header] \in Files
      BY StateOf DEF Path
    <3>. QED  BY <1>6, <3>1, <3>2 DEF Typed
  <2>. QED  BY <2>1, <2>2
<1>. QED  BY <1>5, <1>8 DEF TypeInv, Typed

LEMMA TypeInvWrite ==
    ASSUME TypeInv, NEW c \in Clients, Write(c)
    PROVE  TypeInv'
<1>. PICK f, pos, t : /\ f = Path(c) /\ pos = client[c].pos
                      /\ t = Tokens(client[c].header)[pos + 1]
  OBVIOUS
<1>. DEFINE s == [pc |-> "write", header |-> client[c].header, pos |-> pos + 1,
                  ir |-> client[c].ir]
<1>1. /\ client[c] \in States /\ f \in Files /\ client[c].header \in Headers
      /\ pos \in Nat /\ f = CpycPath[client[c].header]
  BY StateOf DEF Write, At, Path, States
<1>2. s \in States /\ CpycPath[s.header] = f
  BY <1>1 DEF States
<1>3. /\ client' = [client EXCEPT ![c] = s]
      /\ file' = [file EXCEPT ![f] = WrittenAt(file[f], pos, t)]
      /\ pos < Len(Tokens(client[c].header)) /\ client[c].pc = "write"
  BY DEF Write, Go, At
<1>4. file[f] \in Contents
  BY <1>1, <1>3 DEF TypeInv, Typed
<1>5. t \in Fns \cup {Magic, Sentinel, Hole}
  BY <1>1, <1>3, TokensAre
<1>6. WrittenAt(file[f], pos, t) \in Contents
  BY <1>1, <1>4, <1>5, WrittenAtIs
<1>. HIDE DEF s
<1>7. file' \in [Files -> Contents \cup {NoFile}] /\ client' \in [Clients -> {Idle} \cup States]
  BY <1>2, <1>3, <1>6 DEF TypeInv
<1>8. file'[f] \in Contents /\ \A g \in Files : file'[g] = file[g] \/ file'[g] \in Contents
  BY <1>1, <1>3, <1>6 DEF TypeInv
<1>9. \A d \in Clients : client'[d] = IF d = c THEN s ELSE client[d]
  BY <1>3 DEF TypeInv
<1>10. ASSUME NEW d \in Clients PROVE Typed(file', client'[d])
  <2>1. CASE d = c
    BY <1>2, <1>8, <1>9, <2>1 DEF Typed
  <2>2. CASE d # c
    <3>1. client'[d] = client[d] /\ Typed(file, client[d])
      BY <1>9, <2>2 DEF TypeInv
    <3>2. client[d].pc = "write" => CpycPath[client[d].header] \in Files
      BY StateOf DEF Path
    <3>. QED  BY <1>8, <3>1, <3>2 DEF Typed
  <2>. QED  BY <2>1, <2>2
<1>. QED  BY <1>7, <1>10 DEF TypeInv, Typed

LEMMA TypeInvQuiet ==
    ASSUME TypeInv, NEW c \in Clients, QuietStep(c)
    PROVE  TypeInv'
<1>1. PICK s \in {Idle} \cup States : client' = [client EXCEPT ![c] = s] /\ s.pc # "write"
  BY QuietTarget
<1>2. file' = file
  BY QuietTarget
<1>3. \A d \in Clients : client'[d] = IF d = c THEN s ELSE client[d]
  BY <1>1 DEF TypeInv
<1>4. \A d \in Clients : Typed(file', client'[d])
  BY <1>1, <1>2, <1>3 DEF TypeInv, Typed
<1>5. file' \in [Files -> Contents \cup {NoFile}] /\ client' \in [Clients -> {Idle} \cup States]
  BY <1>1, <1>2 DEF TypeInv
<1>. QED  BY <1>4, <1>5 DEF TypeInv, Typed

LEMMA TypeInvInit == Init => TypeInv
BY DEF Init, TypeInv, Typed, Idle

LEMMA TypeInvNext == TypeInv /\ [Next]_vars => TypeInv'
<1>. SUFFICES ASSUME TypeInv, [Next]_vars PROVE TypeInv'
  OBVIOUS
<1>1. ASSUME NEW c \in Clients, QuietStep(c) PROVE TypeInv'
  BY <1>1, TypeInvQuiet
<1>2. ASSUME NEW c \in Clients, Truncate(c) \/ Write(c) PROVE TypeInv'
  BY <1>2, TypeInvTruncate, TypeInvWrite
<1>3. CASE UNCHANGED vars
  BY <1>3 DEF vars, TypeInv, Typed
<1>. QED  BY <1>1, <1>2, <1>3 DEF Next, QuietStep

(* The types of what the processes hold and of what the files contain,     *)
(* however many of them write a file at once, die or find the disk full.   *)
THEOREM StoreTypeCorrect == Spec => []TypeOK
<1>1. Init => TypeInv
  BY TypeInvInit
<1>2. TypeInv /\ [Next]_vars => TypeInv'
  BY TypeInvNext
<1>3. TypeInv => TypeOK
  BY DEF TypeInv, TypeOK, States
<1>. QED  BY <1>1, <1>2, <1>3, PTL DEF Spec

-----------------------------------------------------------------------------
(* One process at a time generates files; any number of others load them. *)
OneWriter == \A c, d \in Clients \ Readers : c = d

(* data is what an emitter of header h has written at some instant. *)
Beginning(data, h) ==
    /\ data \in Contents
    /\ Len(data) <= Len(Tokens(h))
    /\ \A i \in 1..Len(data) : data[i] = Tokens(h)[i]

FilesBegin(fs) ==
    \A f \in Files : fs[f] # NoFile =>
        \E h \in Headers : CpycPath[h] = f /\ Beginning(fs[f], h)

(* A client that only loads never gets to the emitter, which works from    *)
(* what the parser found and is at the end of the file it writes.          *)
WriterOk(fs, c, s) ==
    /\ c \in Readers => s.pc \in {"idle", "open", "read", "loaded"}
    /\ s.pc \in {"emit", "write", "written"} => s.ir = Decl[s.header]
    /\ s.pc = "write" =>
           /\ Beginning(fs[CpycPath[s.header]], s.header)
           /\ Len(fs[CpycPath[s.header]]) = s.pos

(* Inductive while there is one writer. *)
WriterInv ==
    /\ TypeInv
    /\ FilesBegin(file)
    /\ \A c \in Clients : WriterOk(file, c, client[c])

LEMMA GoIs ==
    ASSUME TypeInv, NEW c \in Clients, NEW pc, NEW pos, NEW ir, Go(c, pc, pos, ir)
    PROVE  /\ client'[c].pc = pc /\ client'[c].header = client[c].header
           /\ client'[c].pos = pos /\ client'[c].ir = ir
<1>1. client'[c] = [pc |-> pc, header |-> client[c].header, pos |-> pos, ir |-> ir]
  BY DEF Go, TypeInv
<1>. QED  BY <1>1

LEMMA LeaveIs ==
    ASSUME TypeInv, NEW c \in Clients, Leave(c)
    PROVE  client'[c] = Idle
BY DEF Leave, TypeInv

LEMMA EmptyBeginning == \A h \in Headers : Beginning(<< >>, h)
<1>. SUFFICES ASSUME NEW h \in Headers PROVE Beginning(<< >>, h)
  OBVIOUS
<1>1. Len(Tokens(h)) \in Nat
  BY TokensAre
<1>2. << >> \in Contents
  BY DEF Contents
<1>. QED  BY <1>1, <1>2 DEF Beginning

(* One more token is a longer beginning. *)
LEMMA LongerBeginning ==
    ASSUME NEW h \in Headers, NEW data, Beginning(data, h), NEW pos \in Nat,
           Len(data) = pos, pos < Len(Tokens(h))
    PROVE  /\ Beginning(WrittenAt(data, pos, Tokens(h)[pos + 1]), h)
           /\ Len(WrittenAt(data, pos, Tokens(h)[pos + 1])) = pos + 1
<1>. DEFINE t == Tokens(h)[pos + 1]
            w == WrittenAt(data, pos, t)
<1>1. t \in Fns \cup {Magic, Sentinel, Hole} /\ Len(Tokens(h)) \in Nat
  BY TokensAre
<1>2. /\ w \in Contents /\ Len(w) = pos + 1 /\ w[pos + 1] = t
      /\ \A i \in 1..pos : w[i] = data[i]
  BY <1>1, WrittenAtIs DEF Beginning
<1>. HIDE DEF w
<1>3. \A i \in 1..pos + 1 : i \in 1..pos \/ i = pos + 1
  OBVIOUS
<1>4. \A i \in 1..Len(w) : w[i] = Tokens(h)[i]
  BY <1>2, <1>3 DEF Beginning
<1>5. Len(w) <= Len(Tokens(h))
  BY <1>1, <1>2
<1>6. Beginning(w, h)
  BY <1>2, <1>4, <1>5 DEF Beginning
<1>. QED  BY <1>2, <1>6 DEF w

LEMMA QuietWriter ==
    ASSUME TypeInv, NEW c \in Clients, WriterOk(file, c, client[c]), QuietStep(c)
    PROVE  WriterOk(file, c, client'[c])
<1>1. ASSUME Leave(c) PROVE WriterOk(file, c, client'[c])
  BY <1>1, LeaveIs DEF WriterOk, Idle
<1>2. ASSUME NEW pc \in {"open", "read", "loaded"}, NEW pos, NEW ir, Go(c, pc, pos, ir)
      PROVE  WriterOk(file, c, client'[c])
  BY <1>2, GoIs DEF WriterOk
<1>3. CASE Call(c)
  <2>1. PICK h \in Headers, pc \in IF c \in Readers THEN {"open"} ELSE {"parse", "check"} :
           client' = [client EXCEPT ![c] = [pc |-> pc, header |-> h, pos |-> 0, ir |-> << >>]]
    BY <1>3 DEF Call
  <2>2. client'[c] = [pc |-> pc, header |-> h, pos |-> 0, ir |-> << >>]
    BY <2>1 DEF TypeInv
  <2>3. pc \in {"open", "parse", "check"} /\ (c \in Readers => pc = "open")
    BY <2>1
  <2>. QED  BY <2>2, <2>3 DEF WriterOk
<1>4. CASE Check(c)
  <2>1. PICK pc \in {"parse", "open"} : Go(c, pc, 0, << >>)
    BY <1>4 DEF Check
  <2>2. c \notin Readers
    BY <1>4 DEF Check, At, WriterOk
  <2>. QED  BY <2>1, <2>2, GoIs DEF WriterOk
<1>5. CASE Parse(c)
  <2>1. c \notin Readers
    BY <1>5 DEF Parse, At, WriterOk
  <2>2. ASSUME Go(c, "emit", 0, Decl[client[c].header]) PROVE WriterOk(file, c, client'[c])
    BY <2>1, <2>2, GoIs DEF WriterOk
  <2>. QED  BY <1>1, <1>5, <2>2 DEF Parse
<1>6. CASE Close(c)
  <2>1. c \notin Readers /\ client[c].ir = Decl[client[c].header]
    BY <1>6 DEF Close, At, WriterOk
  <2>. QED  BY <1>6, <2>1, GoIs DEF WriterOk, Close
<1>7. CASE Open(c) \/ ReadHead(c) \/ ReadFn(c) \/ ReadEnd(c)
  BY <1>1, <1>2, <1>7 DEF Open, ReadHead, ReadFn, ReadEnd
<1>8. CASE WriteFails(c) \/ Reject(c) \/ Drop(c) \/ Crash(c)
  BY <1>1, <1>8 DEF WriteFails, Reject, Drop, Crash
<1>. QED  BY <1>3, <1>4, <1>5, <1>6, <1>7, <1>8 DEF QuietStep

(* A file is changed by its only writer: the others do not write. *)
LEMMA OthersWriteNothing ==
    ASSUME OneWriter, WriterInv, NEW c \in Clients, client[c].pc \in {"emit", "write"},
           NEW d \in Clients, d # c, NEW fs
    PROVE  WriterOk(fs, d, client[d])
<1>1. WriterOk(file, c, client[c]) /\ WriterOk(file, d, client[d])
  BY DEF WriterInv
<1>2. c \notin Readers
  BY <1>1 DEF WriterOk
<1>3. client[d].pc # "write"
  BY <1>1, <1>2 DEF WriterOk, OneWriter
<1>. QED  BY <1>1, <1>3 DEF WriterOk

(* The file f becomes w, what the client's emitter has written so far. *)
LEMMA FileChanges ==
    ASSUME OneWriter, WriterInv, TypeInv', NEW c \in Clients,
           client[c].pc \in {"emit", "write"}, NEW w, NEW pos,
           file' = [file EXCEPT ![Path(c)] = w],
           Go(c, "write", pos, client[c].ir),
           Beginning(w, client[c].header), Len(w) = pos
    PROVE  WriterInv'
<1>. PICK h \in Headers, f \in Files : h = client[c].header /\ f = Path(c)
  BY StateOf DEF WriterInv
<1>1. f = CpycPath[h]
  BY DEF Path
<1>2. /\ file'[f] = w
      /\ \A g \in Files : g # f => file'[g] = file[g]
  BY DEF WriterInv, TypeInv
<1>3. FilesBegin(file')
  <2>1. SUFFICES ASSUME NEW g \in Files, file'[g] # NoFile
                 PROVE  \E k \in Headers : CpycPath[k] = g /\ Beginning(file'[g], k)
    BY DEF FilesBegin
  <2>2. CASE g = f
    BY <1>1, <1>2, <2>2
  <2>3. CASE g # f
    BY <1>2, <2>1, <2>3 DEF WriterInv, FilesBegin
  <2>. QED  BY <2>2, <2>3
<1>4. WriterOk(file', c, client'[c])
  <2>1. /\ client'[c].pc = "write" /\ client'[c].header = h
        /\ client'[c].pos = pos /\ client'[c].ir = client[c].ir
    BY GoIs DEF WriterInv
  <2>2. WriterOk(file, c, client[c])
    BY DEF WriterInv
  <2>. QED  BY <1>1, <1>2, <2>1, <2>2 DEF WriterOk
<1>5. ASSUME NEW d \in Clients PROVE WriterOk(file', d, client'[d])
  <2>1. d # c => client'[d] = client[d]
    BY DEF Go, WriterInv, TypeInv
  <2>. QED  BY <1>4, <2>1, OthersWriteNothing
<1>6. FilesBegin(file)'
  BY <1>3 DEF FilesBegin
<1>7. \A d \in Clients : WriterOk(file, d, client[d])'
  BY <1>5 DEF WriterOk
<1>. QED  BY <1>6, <1>7 DEF WriterInv

LEMMA WriterInvTruncate ==
    ASSUME OneWriter, WriterInv, NEW c \in Clients, Truncate(c)
    PROVE  WriterInv'
<1>1. TypeInv'
  BY TypeInvTruncate DEF WriterInv
<1>2. Beginning(<< >>, client[c].header)
  BY StateOf, EmptyBeginning DEF Truncate, At, WriterInv
<1>. QED  BY <1>1, <1>2, FileChanges DEF Truncate, At

(* What a step of Write does: the file is a beginning, and a longer one after. *)
LEMMA WriteGrows ==
    ASSUME WriterInv, NEW c \in Clients, Write(c)
    PROVE  \E w : /\ file' = [file EXCEPT ![Path(c)] = w]
                  /\ Beginning(w, client[c].header)
                  /\ Len(w) = client[c].pos + 1
<1>. PICK h, pos, f : h = client[c].header /\ pos = client[c].pos /\ f = Path(c)
  OBVIOUS
<1>1. client[c] \in States /\ h \in Headers /\ f \in Files /\ pos \in Nat
  BY StateOf DEF Write, At, WriterInv, States
<1>2. /\ file' = [file EXCEPT ![f] = WrittenAt(file[f], pos, Tokens(h)[pos + 1])]
      /\ pos < Len(Tokens(h))
  BY DEF Write
<1>3. Beginning(file[f], h) /\ Len(file[f]) = pos
  BY DEF WriterInv, WriterOk, Write, At, Path
<1>4. /\ Beginning(WrittenAt(file[f], pos, Tokens(h)[pos + 1]), h)
      /\ Len(WrittenAt(file[f], pos, Tokens(h)[pos + 1])) = pos + 1
  BY <1>1, <1>2, <1>3, LongerBeginning
<1>. QED  BY <1>2, <1>4

LEMMA WriterInvWrite ==
    ASSUME OneWriter, WriterInv, NEW c \in Clients, Write(c)
    PROVE  WriterInv'
<1>1. TypeInv'
  BY TypeInvWrite DEF WriterInv
<1>2. PICK w : /\ file' = [file EXCEPT ![Path(c)] = w]
               /\ Beginning(w, client[c].header)
               /\ Len(w) = client[c].pos + 1
  BY WriteGrows
<1>. QED  BY <1>1, <1>2, FileChanges DEF Write, At

LEMMA WriterInvQuiet ==
    ASSUME WriterInv, NEW c \in Clients, QuietStep(c)
    PROVE  WriterInv'
<1>1. file' = file /\ \A d \in Clients : d # c => client'[d] = client[d]
  <2>1. PICK s : client' = [client EXCEPT ![c] = s]
    BY QuietTarget DEF WriterInv
  <2>. QED  BY <2>1, QuietTarget DEF WriterInv, TypeInv
<1>2. WriterOk(file, c, client'[c])
  BY QuietWriter DEF WriterInv
<1>3. \A d \in Clients : WriterOk(file', d, client'[d])
  BY <1>1, <1>2 DEF WriterInv
<1>4. FilesBegin(file)' /\ \A d \in Clients : WriterOk(file, d, client[d])'
  BY <1>1, <1>3 DEF WriterInv, FilesBegin, WriterOk
<1>5. TypeInv'
  BY TypeInvQuiet DEF WriterInv
<1>. QED  BY <1>4, <1>5 DEF WriterInv

LEMMA WriterInvInit == Init => WriterInv
<1>. SUFFICES ASSUME Init PROVE WriterInv
  OBVIOUS
<1>1. FilesBegin(file)
  BY DEF Init, FilesBegin
<1>2. \A c \in Clients : WriterOk(file, c, client[c])
  BY DEF Init, WriterOk, Idle
<1>. QED  BY <1>1, <1>2, TypeInvInit DEF WriterInv

LEMMA WriterInvNext ==
    ASSUME OneWriter
    PROVE  WriterInv /\ [Next]_vars => WriterInv'
<1>. SUFFICES ASSUME WriterInv, [Next]_vars PROVE WriterInv'
  OBVIOUS
<1>1. ASSUME NEW c \in Clients, QuietStep(c) PROVE WriterInv'
  BY <1>1, WriterInvQuiet
<1>2. ASSUME NEW c \in Clients, Truncate(c) \/ Write(c) PROVE WriterInv'
  BY <1>2, WriterInvTruncate, WriterInvWrite
<1>3. CASE UNCHANGED vars
  BY <1>3 DEF vars, WriterInv, TypeInv, Typed, FilesBegin, WriterOk
<1>. QED  BY <1>1, <1>2, <1>3 DEF Next, QuietStep

LEMMA BeginningIsPrefix ==
    ASSUME NEW h \in Headers, NEW data, Beginning(data, h)
    PROVE  IsPrefix(data, Tokens(h))
<1>. PICK m, n, w : m = Len(data) /\ n = Len(Tokens(h)) /\ w = Tokens(h)
  OBVIOUS
<1>1. data \in Contents /\ m \in Nat /\ m <= n /\ \A i \in 1..m : data[i] = w[i]
  BY DEF Beginning, Contents
<1>2. w \in Seq(Fns \cup {Magic, Sentinel, Hole})
  BY TokensAre
<1>3. SubSeq(data, 1, m) = [i \in 1..m |-> data[i]]
  BY <1>1 DEF Contents
<1>4. SubSeq(w, 1, m) = [i \in 1..m |-> w[i]]
  BY <1>1, <1>2
<1>. QED  BY <1>1, <1>3, <1>4 DEF IsPrefix

(* As long as one process at a time generates files, a file is at every    *)
(* instant a beginning of the encoding of a header that has this file,     *)
(* whoever reads it, and wherever writers die or the disk fills            *)
(* (emitter.c:28-63).                                                      *)
THEOREM FilesAreBeginnings ==
    ASSUME OneWriter
    PROVE  Spec => []FilesArePrefixes
<1>1. Init => WriterInv
  BY WriterInvInit
<1>2. WriterInv /\ [Next]_vars => WriterInv'
  BY WriterInvNext
<1>3. WriterInv => FilesArePrefixes
  BY BeginningIsPrefix DEF WriterInv, FilesBegin, FilesArePrefixes
<1>. QED  BY <1>1, <1>2, <1>3, PTL DEF Spec

-----------------------------------------------------------------------------
(* No two headers share a file. *)
OwnFiles == \A g, h \in Headers : CpycPath[g] = CpycPath[h] => g = h

(* The loader has collected the records up to its position, even when the  *)
(* file has been cut behind it.                                            *)
HasRead(s) ==
    \/ s.pos = 0
    \/ /\ s.pos \in 1..Len(Decl[s.header]) + 1
       /\ Len(s.ir) = s.pos - 1
       /\ \A i \in 1..s.pos - 1 : s.ir[i] = Decl[s.header][i]

ReaderOk(fs, s) ==
    /\ s.pc = "read" => HasRead(s) /\ Beginning(fs[CpycPath[s.header]], s.header)
    /\ s.pc = "loaded" => s.ir = Decl[s.header]

(* Inductive while there is one writer and no file is shared. *)
StoreInv ==
    /\ WriterInv
    /\ \A c \in Clients : ReaderOk(file, client[c])

(* What the loader finds at its position. *)
LEMMA TokenIs ==
    ASSUME StoreInv, NEW c \in Clients, At(c, "read"), ~AtEof(c), client[c].pos > 0
    PROVE  /\ client[c] \in States
           /\ client[c].pos \in 1..Len(Decl[client[c].header]) + 1
           /\ IF Token(c) = Sentinel
              THEN client[c].pos = Len(Decl[client[c].header]) + 1
              ELSE /\ client[c].pos <= Len(Decl[client[c].header])
                   /\ Token(c) = Decl[client[c].header][client[c].pos]
                   /\ Token(c) \in Fns
<1>. PICK h, pos, data : /\ h = client[c].header /\ pos = client[c].pos
                         /\ data = file[Path(c)]
  OBVIOUS
<1>1. client[c] \in States /\ h \in Headers /\ pos \in Nat
  BY StateOf DEF At, StoreInv, WriterInv, States
<1>2. Beginning(data, h) /\ pos \in 1..Len(Decl[h]) + 1
  BY <1>1 DEF StoreInv, ReaderOk, HasRead, At, Path
<1>3. Len(data) \in Nat /\ pos < Len(data)
  BY <1>1, <1>2 DEF AtEof, Beginning, Contents
<1>4. Token(c) = Tokens(h)[pos + 1]
  <2>1. pos + 1 \in 1..Len(data)
    BY <1>1, <1>3
  <2>2. data[pos + 1] = Tokens(h)[pos + 1]
    BY <1>2, <2>1 DEF Beginning
  <2>. QED  BY <2>2 DEF Token
<1>5. Len(Decl[h]) \in Nat /\ Sentinel \notin Fns
  BY <1>1, TokensAre, TokensAssumption
<1>6. CASE pos = Len(Decl[h]) + 1
  <2>1. Tokens(h)[pos + 1] = Sentinel
    BY <1>1, <1>5, <1>6, TokensAre
  <2>. QED  BY <1>1, <1>2, <1>4, <1>6, <2>1
<1>7. CASE pos <= Len(Decl[h])
  <2>1. Tokens(h)[pos + 1] = Decl[h][pos] /\ Decl[h][pos] \in Fns
    BY <1>1, <1>2, <1>5, <1>7, TokensAre
  <2>. QED  BY <1>1, <1>2, <1>4, <1>5, <1>7, <2>1
<1>. QED  BY <1>2, <1>5, <1>6, <1>7

LEMMA ReaderOpen ==
    ASSUME OwnFiles, StoreInv, NEW c \in Clients, Open(c)
    PROVE  ReaderOk(file, client'[c])
<1>1. client[c] \in States /\ Path(c) \in Files /\ client[c].header \in Headers
  BY StateOf DEF Open, At, StoreInv, WriterInv
<1>2. CASE Leave(c)
  BY <1>2, LeaveIs DEF StoreInv, WriterInv, ReaderOk, Idle
<1>3. CASE file[Path(c)] # NoFile /\ Go(c, "read", 0, << >>)
  <2>1. PICK h \in Headers : CpycPath[h] = Path(c) /\ Beginning(file[Path(c)], h)
    BY <1>1, <1>3 DEF StoreInv, WriterInv, FilesBegin
  <2>2. h = client[c].header
    BY <1>1, <2>1 DEF OwnFiles, Path
  <2>3. /\ client'[c].pc = "read" /\ client'[c].header = client[c].header
        /\ client'[c].pos = 0
    BY <1>3, GoIs DEF StoreInv, WriterInv
  <2>. QED  BY <2>1, <2>2, <2>3 DEF ReaderOk, HasRead
<1>. QED  BY <1>2, <1>3 DEF Open

LEMMA ReaderReads ==
    ASSUME StoreInv, NEW c \in Clients, ReadHead(c) \/ ReadFn(c) \/ ReadEnd(c)
    PROVE  ReaderOk(file, client'[c])
<1>. PICK h, pos, ir : h = client[c].header /\ pos = client[c].pos /\ ir = client[c].ir
  OBVIOUS
<1>1. /\ client[c] \in States /\ h \in Headers /\ pos \in Nat
      /\ ir \in Seq(Fns \cup {Junk})
  BY StateOf DEF ReadHead, ReadFn, ReadEnd, At, StoreInv, WriterInv, States
<1>2. HasRead(client[c]) /\ Beginning(file[CpycPath[h]], h)
  BY DEF ReadHead, ReadFn, ReadEnd, At, StoreInv, ReaderOk
<1>3. Len(Decl[h]) \in Nat /\ Decl[h] \in Seq(Fns)
  BY <1>1, TokensAre
<1>4. CASE ReadHead(c)
  <2>1. /\ client'[c].pc = "read" /\ client'[c].header = h
        /\ client'[c].pos = 1 /\ client'[c].ir = << >>
    BY <1>4, GoIs DEF ReadHead, StoreInv, WriterInv
  <2>2. 1 \in 1..Len(Decl[h]) + 1 /\ Len(<< >>) = 1 - 1 /\ 1..1 - 1 = {}
    BY <1>3
  <2>. QED  BY <1>2, <2>1, <2>2 DEF ReaderOk, HasRead
<1>5. CASE ReadFn(c)
  <2>. DEFINE t == IF Token(c) \in Fns THEN Token(c) ELSE Junk
  <2>. HIDE DEF t
  <2>0. Go(c, "read", pos + 1, Append(ir, t))
    BY <1>5 DEF ReadFn, t
  <2>1. /\ client'[c].pc = "read" /\ client'[c].header = h
        /\ client'[c].pos = pos + 1 /\ client'[c].ir = Append(ir, t)
    BY <2>0, GoIs DEF StoreInv, WriterInv
  <2>2. pos \in 1..Len(Decl[h]) /\ t = Decl[h][pos]
    BY <1>3, <1>5, TokenIs DEF ReadFn, t
  <2>3. Len(ir) = pos - 1 /\ \A i \in 1..pos - 1 : ir[i] = Decl[h][i]
    BY <1>2, <2>2 DEF HasRead
  <2>4. t \in Fns \cup {Junk}
    BY DEF t
  <2>5. /\ Len(Append(ir, t)) = pos /\ Append(ir, t)[pos] = t
        /\ \A i \in 1..pos - 1 : Append(ir, t)[i] = ir[i]
    BY <1>1, <2>2, <2>3, <2>4
  <2>6. \A i \in 1..pos : i = pos \/ i \in 1..pos - 1
    BY <1>1
  <2>7. \A i \in 1..pos : Append(ir, t)[i] = Decl[h][i]
    BY <2>2, <2>3, <2>5, <2>6
  <2>8. pos + 1 \in 1..Len(Decl[h]) + 1 /\ (pos + 1) - 1 = pos
    BY <1>1, <1>3, <2>2
  <2>. QED  BY <1>2, <2>1, <2>5, <2>7, <2>8 DEF ReaderOk, HasRead
<1>6. CASE ReadEnd(c)
  <2>1. /\ client'[c].pc = "loaded" /\ client'[c].header = h /\ client'[c].ir = ir
    BY <1>6, GoIs DEF ReadEnd, StoreInv, WriterInv
  <2>2. pos = Len(Decl[h]) + 1
    BY <1>6, TokenIs DEF ReadEnd
  <2>3. Len(ir) = Len(Decl[h]) /\ \A i \in 1..Len(ir) : ir[i] = Decl[h][i]
    BY <1>2, <1>3, <2>2 DEF HasRead
  <2>4. ir = Decl[h]
    BY <1>1, <1>3, <2>3, SeqEqual, SMTT(30)
  <2>. QED  BY <2>1, <2>4 DEF ReaderOk
<1>. QED  BY <1>4, <1>5, <1>6

LEMMA QuietReader ==
    ASSUME OwnFiles, StoreInv, NEW c \in Clients, QuietStep(c)
    PROVE  ReaderOk(file, client'[c])
<1>1. ASSUME Leave(c) PROVE ReaderOk(file, client'[c])
  BY <1>1, LeaveIs DEF StoreInv, WriterInv, ReaderOk, Idle
<1>2. ASSUME NEW pc \in {"parse", "open", "emit", "written"}, NEW pos, NEW ir,
             Go(c, pc, pos, ir)
      PROVE  ReaderOk(file, client'[c])
  <2>1. client'[c].pc = pc
    BY <1>2, GoIs DEF StoreInv, WriterInv
  <2>. QED  BY <2>1 DEF ReaderOk
<1>3. CASE Call(c)
  <2>1. PICK h \in Headers, pc \in {"open", "parse", "check"} :
           client' = [client EXCEPT ![c] = [pc |-> pc, header |-> h, pos |-> 0, ir |-> << >>]]
    BY <1>3 DEF Call
  <2>2. client'[c] = [pc |-> pc, header |-> h, pos |-> 0, ir |-> << >>]
    BY <2>1 DEF StoreInv, WriterInv, TypeInv
  <2>. QED  BY <2>2 DEF ReaderOk
<1>4. CASE Check(c) \/ Parse(c) \/ Close(c)
  BY <1>1, <1>2, <1>4 DEF Check, Parse, Close
<1>5. CASE WriteFails(c) \/ Reject(c) \/ Drop(c) \/ Crash(c)
  BY <1>1, <1>5 DEF WriteFails, Reject, Drop, Crash
<1>. QED  BY <1>3, <1>4, <1>5, ReaderOpen, ReaderReads DEF QuietStep

(* The writer turns the file into another beginning of the same header:    *)
(* whoever reads it goes on with what it has read.                         *)
LEMMA ReadersFollow ==
    ASSUME OwnFiles, StoreInv, WriterInv', NEW c \in Clients, client[c] \in States,
           NEW w, file' = [file EXCEPT ![Path(c)] = w],
           Beginning(w, client[c].header), NEW pos, Go(c, "write", pos, client[c].ir)
    PROVE  StoreInv'
<1>1. SUFFICES ASSUME NEW d \in Clients PROVE ReaderOk(file', client'[d])
  BY DEF StoreInv, ReaderOk
<1>2. CASE d = c
  <2>1. client'[c].pc = "write"
    BY GoIs DEF StoreInv, WriterInv
  <2>. QED  BY <1>2, <2>1 DEF ReaderOk
<1>3. CASE d # c
  <2>1. client'[d] = client[d]
    BY <1>3 DEF Go, StoreInv, WriterInv, TypeInv
  <2>2. ReaderOk(file, client[d])
    BY DEF StoreInv
  <2>3. ASSUME client[d].pc = "read"
        PROVE  Beginning(file'[CpycPath[client[d].header]], client[d].header)
    <3>1. client[d].header \in Headers /\ client[c].header \in Headers /\ Path(d) \in Files
      BY <2>3, StateOf DEF StoreInv, WriterInv
    <3>2. CASE Path(d) = Path(c)
      <4>1. client[d].header = client[c].header
        BY <3>1, <3>2 DEF OwnFiles, Path
      <4>2. file'[Path(d)] = w
        BY <3>1, <3>2 DEF StoreInv, WriterInv, TypeInv
      <4>. QED  BY <4>1, <4>2 DEF Path
    <3>3. CASE Path(d) # Path(c)
      <4>1. file'[Path(d)] = file[Path(d)]
        BY <3>1, <3>3 DEF StoreInv, WriterInv, TypeInv
      <4>. QED  BY <2>2, <2>3, <4>1 DEF ReaderOk, Path
    <3>. QED  BY <3>2, <3>3
  <2>. QED  BY <2>1, <2>2, <2>3 DEF ReaderOk
<1>. QED  BY <1>2, <1>3

LEMMA StoreInvInit == Init => StoreInv
<1>1. Init => \A c \in Clients : ReaderOk(file, client[c])
  BY DEF Init, ReaderOk, Idle
<1>. QED  BY <1>1, WriterInvInit DEF StoreInv

LEMMA StoreInvNext ==
    ASSUME OneWriter, OwnFiles
    PROVE  StoreInv /\ [Next]_vars => StoreInv'
<1>. SUFFICES ASSUME StoreInv, [Next]_vars PROVE StoreInv'
  OBVIOUS
<1>1. WriterInv'
  BY WriterInvNext DEF StoreInv
<1>2. ASSUME NEW c \in Clients, QuietStep(c) PROVE StoreInv'
  <2>1. file' = file /\ \A d \in Clients : d # c => client'[d] = client[d]
    <3>1. PICK s : client' = [client EXCEPT ![c] = s]
      BY <1>2, QuietTarget DEF StoreInv, WriterInv
    <3>. QED  BY <1>2, <3>1, QuietTarget DEF StoreInv, WriterInv, TypeInv
  <2>2. \A d \in Clients : ReaderOk(file', client'[d])
    BY <1>2, <2>1, QuietReader DEF StoreInv
  <2>. QED  BY <1>1, <2>2 DEF StoreInv, ReaderOk
<1>3. ASSUME NEW c \in Clients, Truncate(c) PROVE StoreInv'
  <2>1. client[c] \in States /\ client[c].header \in Headers
    BY <1>3, StateOf DEF Truncate, At, StoreInv, WriterInv
  <2>. QED  BY <1>1, <1>3, <2>1, EmptyBeginning, ReadersFollow DEF Truncate
<1>4. ASSUME NEW c \in Clients, Write(c) PROVE StoreInv'
  <2>1. client[c] \in States
    BY <1>4, StateOf DEF Write, At, StoreInv, WriterInv
  <2>2. PICK w : /\ file' = [file EXCEPT ![Path(c)] = w]
                 /\ Beginning(w, client[c].header)
    BY <1>4, WriteGrows DEF StoreInv
  <2>. QED  BY <1>1, <1>4, <2>1, <2>2, ReadersFollow DEF Write
<1>5. CASE UNCHANGED vars
  <2>1. \A d \in Clients : ReaderOk(file', client'[d])
    BY <1>5 DEF vars, StoreInv
  <2>. QED  BY <1>1, <2>1 DEF StoreInv, ReaderOk
<1>. QED  BY <1>2, <1>3, <1>4, <1>5 DEF Next, QuietStep

(* A load that is refused finds a file that is no whole encoding. *)
LEMMA RefusedIsUnfinished ==
    ASSUME StoreInv, NEW c \in Clients, Reject(c), NEW g \in Headers
    PROVE  file[Path(c)] # Tokens(g)
<1>. SUFFICES ASSUME file[Path(c)] = Tokens(g) PROVE FALSE
  OBVIOUS
<1>. PICK h, pos : h = client[c].header /\ pos = client[c].pos
  OBVIOUS
<1>1. h \in Headers /\ pos \in Nat
  BY StateOf DEF Reject, At, StoreInv, WriterInv, States
<1>2. HasRead(client[c]) /\ Beginning(Tokens(g), h)
  BY DEF Reject, At, StoreInv, ReaderOk, Path
<1>. DEFINE n == Len(Decl[g]) + 2
            m == Len(Decl[h])
<1>3. /\ Len(Tokens(g)) = n /\ Tokens(g)[1] = Magic /\ Tokens(g)[n] = Sentinel
      /\ n \in Nat /\ n >= 2 /\ m \in Nat
  BY <1>1, TokensAre
<1>4. AtEof(c)
  BY <1>3 DEF Reject, Token
<1>5. n <= pos
  BY <1>3, <1>4 DEF AtEof
<1>6. pos \in 1..m + 1
  BY <1>2, <1>3, <1>5 DEF HasRead
<1>7. n - 1 \in 1..m /\ n = (n - 1) + 1
  <2>1. n \in Nat /\ n >= 2 /\ m \in Nat
    BY <1>3
  <2>. HIDE DEF n, m
  <2>. QED  BY <1>1, <1>5, <1>6, <2>1
<1>8. Tokens(h)[n] = Sentinel
  BY <1>2, <1>3 DEF Beginning
<1>9. Tokens(h)[n] = Decl[h][n - 1] /\ Decl[h][n - 1] \in Fns
  <2>. HIDE DEF n
  <2>1. Tokens(h)[(n - 1) + 1] = Decl[h][n - 1] /\ Decl[h][n - 1] \in Fns
    BY <1>1, <1>7, TokensAre
  <2>. QED  BY <1>7, <2>1
<1>. QED  BY <1>8, <1>9, TokensAssumption

LEMMA StoreLoads == StoreInv => LoadsRequested
<1>. SUFFICES ASSUME StoreInv, NEW c \in Clients, At(c, "written") \/ At(c, "loaded")
              PROVE  client[c].ir = Decl[client[c].header]
  BY DEF LoadsRequested
<1>. QED  BY DEF StoreInv, WriterInv, WriterOk, ReaderOk, At

(* With one process that generates, any number that load, and no header    *)
(* that shares a base name with another: whoever gets an IR gets the whole *)
(* of the header asked for, however writers died before                    *)
(* (LoadHeader, LoadCPyC).                                                 *)
THEOREM LoadsAreWhole ==
    ASSUME OneWriter, OwnFiles
    PROVE  Spec => []LoadsRequested
<1>1. Init => StoreInv
  BY StoreInvInit
<1>2. StoreInv /\ [Next]_vars => StoreInv'
  BY StoreInvNext
<1>. QED  BY <1>1, <1>2, StoreLoads, PTL DEF Spec

(* Under the same conditions the loader refuses no file that the emitter   *)
(* completed (loader.c:48-141).                                            *)
THEOREM CompleteFilesLoad ==
    ASSUME OneWriter, OwnFiles
    PROVE  Spec => RefusesOnlyUnfinished
<1>1. Init => StoreInv
  BY StoreInvInit
<1>2. StoreInv /\ [Next]_vars => StoreInv'
  BY StoreInvNext
<1>3. StoreInv /\ [Next]_vars =>
          [\A c \in Clients : Reject(c) =>
               \A h \in Headers : file[Path(c)] # Tokens(h)]_vars
  BY RefusedIsUnfinished
<1>. QED  BY <1>1, <1>2, <1>3, PTL DEF Spec, RefusesOnlyUnfinished
=============================================================================
