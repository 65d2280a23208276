----------------------------- MODULE CpycStore -----------------------------
(***************************************************************************)
(* The .cpyc files of __cpyc__/: LoadHeader, GenCPyC and LoadCPyC          *)
(* (src/cinpy/__init__.py) over cinpy_emit_cpyc (src/src/emitter.c) and    *)
(* cinpy_load_cpyc (src/src/loader.c).                                     *)
(*                                                                         *)
(* A file is truncated and rewritten in place, by processes that do not    *)
(* know of each other, through stdio buffers.  Its content is a sequence   *)
(* of tokens, each standing for bytes that one buffer carries: the head    *)
(* (magic, versions and header name), one function record, the sentinel.   *)
(* A read or a write of one token is a step.                               *)
(***************************************************************************)
EXTENDS Naturals, Sequences, FiniteSets, SequencesExt

CONSTANTS
    Headers,      \* header files, by path
    Fns,          \* function records
    Decl,         \* header -> the records the parser finds in it
    Files,        \* names in __cpyc__/
    CpycPath,     \* header -> its file, by base name
    Clients,      \* activations, each in a process of its own
    Readers,      \* the clients that only call LoadCPyC
    MayCrash,     \* a process may die
    DiskMayFill,  \* writing to the disk may fail
    Magic, Sentinel,    \* tokens
    Hole,         \* zero bytes where nothing was written
    Junk,         \* the record that loading a Hole makes
    NoFile

ASSUME DeclAssumption == Decl \in [Headers -> Seq(Fns)]
ASSUME CpycPathAssumption == CpycPath \in [Headers -> Files]
ASSUME ReadersAssumption == Readers \subseteq Clients
ASSUME FaultsAssumption == MayCrash \in BOOLEAN /\ DiskMayFill \in BOOLEAN
ASSUME TokensAssumption ==
    /\ Cardinality({Magic, Sentinel, Hole, Junk}) = 4
    /\ Fns \cap {Magic, Sentinel, Hole, Junk} = {}

VARIABLES
    file,     \* name -> the tokens of that file, or NoFile
    client    \* client -> where it is, its header, file position and IR

vars == <<file, client>>

Idle == [pc |-> "idle"]

At(c, pc) == client[c].pc = pc

Path(c) == CpycPath[client[c].header]

Tokens(h) == <<Magic>> \o Decl[h] \o <<Sentinel>>

Init ==
    /\ file = [f \in Files |-> NoFile]
    /\ client = [c \in Clients |-> Idle]

(* c goes on at pc with the IR it has and its position in the file. *)
Go(c, pc, pos, ir) ==
    client' = [client EXCEPT ![c] =
        [pc |-> pc, header |-> client[c].header, pos |-> pos, ir |-> ir]]

(* c is over: an exception reaches the caller, or the caller is gone. *)
Leave(c) == client' = [client EXCEPT ![c] = Idle]

-----------------------------------------------------------------------------
(* LoadHeader(h, aot=True) and GenCPyC(h) parse, LoadHeader(h) looks for   *)
(* the file first, LoadCPyC opens the file it is given.                    *)
Call(c) ==
    /\ At(c, "idle")
    /\ \E h \in Headers,
          pc \in IF c \in Readers THEN {"open"} ELSE {"parse", "check"} :
            client' = [client EXCEPT ![c] =
                [pc |-> pc, header |-> h, pos |-> 0, ir |-> << >>]]
    /\ UNCHANGED file

(* _resolve_cpyc *)
Check(c) ==
    /\ At(c, "check")
    /\ Go(c, IF file[Path(c)] = NoFile THEN "parse" ELSE "open", 0, << >>)
    /\ UNCHANGED file

(* _parse_header: what it returns, or an exception. *)
Parse(c) ==
    /\ At(c, "parse")
    /\ Go(c, "emit", 0, Decl[client[c].header]) \/ Leave(c)
    /\ UNCHANGED file

(* cinpy_emit_cpyc: fopen(out_path, "wb") *)
Truncate(c) ==
    /\ At(c, "emit")
    /\ file' = [file EXCEPT ![Path(c)] = << >>]
    /\ Go(c, "write", 0, client[c].ir)

(* data with token t at position pos + 1, zero bytes before it if need be. *)
WrittenAt(data, pos, t) ==
    [i \in 1..(IF Len(data) > pos THEN Len(data) ELSE pos + 1) |->
        IF i = pos + 1 THEN t ELSE IF i <= Len(data) THEN data[i] ELSE Hole]

(* Mutant: a write that fails goes unnoticed. *)
WriteUnchecked(c) ==
    LET pos == client[c].pos
        out == Tokens(client[c].header)
    IN  /\ At(c, "write")
        /\ pos < Len(out)
        /\ \/ file' = [file EXCEPT ![Path(c)] = WrittenAt(@, pos, out[pos + 1])]
           \/ DiskMayFill /\ UNCHANGED file
        /\ Go(c, "write", pos + 1, client[c].ir)

(* A buffer reaches the file at this writer's own position. *)
Write(c) ==
    LET pos == client[c].pos
        out == Tokens(client[c].header)
    IN  /\ At(c, "write")
        /\ pos < Len(out)
        /\ file' = [file EXCEPT ![Path(c)] = WrittenAt(@, pos, out[pos + 1])]
        /\ Go(c, "write", pos + 1, client[c].ir)

(* The file cannot be opened, or a write fails and is reported: _gen_cpyc  *)
(* raises.                                                                 *)
WriteFails(c) ==
    /\ DiskMayFill
    /\ At(c, "emit") \/ At(c, "write")
    /\ Leave(c)
    /\ UNCHANGED file

(* fclose.  It writes what is still buffered, and its result is ignored.   *)
Close(c) ==
    /\ At(c, "write")
    /\ DiskMayFill \/ client[c].pos = Len(Tokens(client[c].header))
    /\ Go(c, "written", 0, client[c].ir)
    /\ UNCHANGED file

(* cinpy_load_cpyc: fopen(path, "rb") *)
Open(c) ==
    /\ At(c, "open")
    /\ IF file[Path(c)] = NoFile THEN Leave(c) ELSE Go(c, "read", 0, << >>)
    /\ UNCHANGED file

(* The reader's next token.  The file may have shrunk since it was opened. *)
Token(c) == file[Path(c)][client[c].pos + 1]

AtEof(c) == Len(file[Path(c)]) <= client[c].pos

(* Mutant: a header without functions is refused. *)
RejectEmpty(c) ==
    /\ At(c, "read")
    /\ \/ AtEof(c)
       \/ ~AtEof(c) /\ client[c].pos = 0 /\ Token(c) # Magic
       \/ ~AtEof(c) /\ client[c].pos = 1 /\ Token(c) = Sentinel
    /\ Leave(c)
    /\ UNCHANGED file

(* The magic is wrong, or the file ends without a sentinel: LoadCPyC       *)
(* raises.                                                                 *)
Reject(c) ==
    /\ At(c, "read")
    /\ AtEof(c) \/ (~AtEof(c) /\ client[c].pos = 0 /\ Token(c) # Magic)
    /\ Leave(c)
    /\ UNCHANGED file

ReadHead(c) ==
    /\ At(c, "read")
    /\ ~AtEof(c) /\ client[c].pos = 0 /\ Token(c) = Magic
    /\ Go(c, "read", 1, << >>)
    /\ UNCHANGED file

(* A record.  Zero bytes are a nameless function without parameters. *)
ReadFn(c) ==
    /\ At(c, "read")
    /\ ~AtEof(c) /\ client[c].pos > 0 /\ Token(c) # Sentinel
    /\ Go(c, "read", client[c].pos + 1,
          Append(client[c].ir, IF Token(c) \in Fns THEN Token(c) ELSE Junk))
    /\ UNCHANGED file

(* Mutants: the end of the file ends the list; the sentinel is a record. *)
ReadEndAtEof(c) ==
    /\ At(c, "read")
    /\ client[c].pos > 0
    /\ AtEof(c) \/ (~AtEof(c) /\ Token(c) = Sentinel)
    /\ Go(c, "loaded", 0, client[c].ir)
    /\ UNCHANGED file

ReadEndKeepsSentinel(c) ==
    /\ At(c, "read")
    /\ ~AtEof(c) /\ client[c].pos > 0 /\ Token(c) = Sentinel
    /\ Go(c, "loaded", 0, Append(client[c].ir, Sentinel))
    /\ UNCHANGED file

ReadEnd(c) ==
    /\ At(c, "read")
    /\ ~AtEof(c) /\ client[c].pos > 0 /\ Token(c) = Sentinel
    /\ Go(c, "loaded", 0, client[c].ir)
    /\ UNCHANGED file

(* The caller is done with the HeaderProxy. *)
Drop(c) ==
    /\ At(c, "written") \/ At(c, "loaded")
    /\ Leave(c)
    /\ UNCHANGED file

(* The process of c is killed.  What it wrote stays. *)
Crash(c) ==
    /\ MayCrash
    /\ ~At(c, "idle")
    /\ Leave(c)
    /\ UNCHANGED file

Next ==
    \E c \in Clients :
        \/ Call(c) \/ Check(c) \/ Parse(c)
        \/ Truncate(c) \/ Write(c) \/ WriteFails(c) \/ Close(c)
        \/ Open(c) \/ Reject(c) \/ ReadHead(c) \/ ReadFn(c) \/ ReadEnd(c)
        \/ Drop(c) \/ Crash(c)

Spec == Init /\ [][Next]_vars

-----------------------------------------------------------------------------
Contents == Seq(Fns \cup {Magic, Sentinel, Hole})

(* Types of the variables. *)
TypeOK ==
    /\ file \in [Files -> Contents \cup {NoFile}]
    /\ client \in [Clients -> {Idle} \cup
           [pc : {"check", "parse", "emit", "write", "written", "open", "read", "loaded"},
            header : Headers, pos : Nat, ir : Seq(Fns \cup {Junk})]]

(* What a caller gets is the IR of the header it asked for, whole, however *)
(* writers were killed or ran out of disk before                           *)
(* (LoadHeader, LoadCPyC, README.md:40).                                   *)
LoadsRequested ==
    \A c \in Clients :
        At(c, "written") \/ At(c, "loaded") => client[c].ir = Decl[client[c].header]

(* At every instant a file is a beginning of one header's encoding: no     *)
(* write lands behind a place that was not written (emitter.c:28-63).      *)
FilesArePrefixes ==
    \A f \in Files : file[f] # NoFile =>
        \E h \in Headers : CpycPath[h] = f /\ IsPrefix(file[f], Tokens(h))

(* A load is refused only while the file is unfinished: no encoding that   *)
(* the emitter completes is one that the loader rejects (loader.c:48-141). *)
RefusesOnlyUnfinished ==
    [][\A c \in Clients : Reject(c) =>
           \A h \in Headers : file[Path(c)] # Tokens(h)]_vars
=============================================================================
