------------------------------- MODULE KeyFiles -------------------------------
(***************************************************************************)
(* The life of a key pair: the client's KeyContainer keeps it in files of  *)
(* the working directory, named after a key id drawn from the clock; the   *)
(* program reads the files back and registers the public part with the     *)
(* server, whose KeyContainer keeps what it is given first.                *)
(*                                                                         *)
(* Several client processes may run in one directory.  Each opens, writes  *)
(* and closes one file at a time.                                          *)
(***************************************************************************)
EXTENDS Integers, Sequences

CONSTANTS
    Procs,             \* client processes in one working directory
    KeyIds,
    FirstRand,         \* FirstRand[s]: rand() after srand(s)
    MaxClock,          \* bound: seconds explored
    MaxPairs,          \* bound: key pairs generated
    Absent

Seconds == 0 .. MaxClock
Pairs   == 1 .. MaxPairs
Torn    == 0           \* a file that is open for writing
Mixed   == -1          \* what is left when two writers had it open at once

\* What load may find in a file.
Readable == Pairs \cup {Mixed}

ASSUME KeyFilesAssumption ==
    /\ MaxClock \in Nat /\ MaxPairs \in Nat
    /\ FirstRand \in [Seconds -> KeyIds]
    /\ Absent \notin Pairs \cup {Torn, Mixed} \cup KeyIds

\* KeyFilenames names four files; KeyKind_t has a fifth kind between them.
FileKinds  == {"pub", "sec", "relin", "param"}
KindOrder  == <<"pub", "sec", "galois", "relin", "param">>
WriteOrder == <<"pub", "sec", "param", "relin">>

VARIABLES
    clock,
    files,       \* the directory: the pair a file was written for
    known,       \* map_ of each process: the key ids it can use
    pc, id, at,  \* where each process is in new_keys or delete_keys
    pair,        \* the pair that new_keys has generated
    loaded,      \* what the process has read: the id and, per kind, the pair
    server,      \* the server's keymap_: what each id was registered with
    used,        \* number of pairs generated
    drawn,       \* history: the pairs generated under each id
    deleted      \* history: ids whose delete_keys has ended, and not redrawn

keyVars == <<clock, files, known, pc, id, at, pair, loaded, server, used, drawn,
             deleted>>

Nothing == [kind \in FileKinds |-> Absent]
NoFiles == [k \in KeyIds |-> Nothing]

-----------------------------------------------------------------------------
\* Mutant: the name does not hold the id.
FileOfOneName(k) == FirstRand[0]

\* filenames_ puts the id into the name.
FileOf(k) == k

File(k, kind) == files[FileOf(k)][kind]

SetFile(k, kind, content) ==
    files' = [files EXCEPT ![FileOf(k)][kind] = content]

\* A call ends, by its return or by its exception.
Leave(p) ==
    /\ pc' = [pc EXCEPT ![p] = "idle"]
    /\ id' = [id EXCEPT ![p] = Absent]
    /\ at' = [at EXCEPT ![p] = 1]
    /\ pair' = [pair EXCEPT ![p] = Absent]

\* new_keys: gen_uuid, the map entry (kept if the id is known) and the
\* generation of a pair.
NewKeys(p) ==
    /\ pc[p] = "idle"
    /\ used < MaxPairs
    /\ used' = used + 1
    /\ pair' = [pair EXCEPT ![p] = used + 1]
    /\ LET k == FirstRand[clock]
       IN  /\ id' = [id EXCEPT ![p] = k]
           /\ known' = [known EXCEPT ![p] = @ \cup {k}]
           /\ drawn' = [drawn EXCEPT ![k] = @ \cup {used + 1}]
           /\ deleted' = deleted \ {k}
    /\ at' = [at EXCEPT ![p] = 1]
    /\ pc' = [pc EXCEPT ![p] = "open"]
    /\ UNCHANGED <<clock, files, loaded, server>>

\* ofstream's constructor creates or truncates the file; if another process
\* has it open, the writes of the two interleave.
OpenFile(p) ==
    /\ pc[p] = "open"
    /\ LET others == {o \in Procs \ {p} :
                         /\ pc[o] = "write" /\ at[o] = at[p]
                         /\ FileOf(id[o]) = FileOf(id[p])}
       IN  SetFile(id[p], WriteOrder[at[p]],
                   IF others = {} THEN Torn ELSE Mixed)
    /\ pc' = [pc EXCEPT ![p] = "write"]
    /\ UNCHANGED <<clock, known, id, at, pair, loaded, server, used, drawn,
                   deleted>>

\* save and close leave the key in the file, if it is still this process's
\* own: a removed file stays removed.
WriteFile(p) ==
    /\ pc[p] = "write"
    /\ LET kind == WriteOrder[at[p]]
           old == File(id[p], kind)
       IN  SetFile(id[p], kind, IF old = Torn THEN pair[p] ELSE old)
    /\ IF at[p] = Len(WriteOrder)
       THEN Leave(p)
       ELSE /\ pc' = [pc EXCEPT ![p] = "open"]
            /\ at' = [at EXCEPT ![p] = @ + 1]
            /\ UNCHANGED <<id, pair>>
    /\ UNCHANGED <<clock, known, loaded, server, used, drawn, deleted>>

\* get and get_param: both need the parameter file, whole.  Where either
\* file is missing or unfinished the call throws and nothing is loaded.
Get(p, k, kind) ==
    /\ pc[p] = "idle"
    /\ k \in known[p]
    /\ File(k, kind) \in Readable /\ File(k, "param") \in Readable
    /\ loaded' = [loaded EXCEPT ![p] =
          [id |-> k,
           keys |-> [IF @.id = k THEN @.keys ELSE Nothing
                       EXCEPT ![kind] = File(k, kind)]]]
    /\ UNCHANGED <<clock, files, known, pc, id, at, pair, server, used, drawn,
                   deleted>>

\* Mutant: the loop starts after the first kind.
CallDeleteLate(p, k) ==
    /\ pc[p] = "idle"
    /\ k \in known[p]
    /\ id' = [id EXCEPT ![p] = k]
    /\ at' = [at EXCEPT ![p] = 2]
    /\ pc' = [pc EXCEPT ![p] = "remove"]
    /\ UNCHANGED <<clock, files, known, pair, loaded, server, used, drawn,
                   deleted>>

\* delete_keys: map_.at throws for an unknown id; that changes nothing.
CallDelete(p, k) ==
    /\ pc[p] = "idle"
    /\ k \in known[p]
    /\ id' = [id EXCEPT ![p] = k]
    /\ at' = [at EXCEPT ![p] = 1]
    /\ pc' = [pc EXCEPT ![p] = "remove"]
    /\ UNCHANGED <<clock, files, known, pair, loaded, server, used, drawn,
                   deleted>>

\* One turn of the loop of remove_keyfiles.  filename(kind) throws for the
\* kind without a name, remove_file reports a missing file and that throws:
\* either way map_.erase is not reached.
RemoveFile(p) ==
    /\ pc[p] = "remove"
    /\ LET kind == KindOrder[at[p]]
       IN  IF kind \in FileKinds /\ File(id[p], kind) # Absent
           THEN /\ SetFile(id[p], kind, Absent)
                /\ at' = [at EXCEPT ![p] = @ + 1]
                /\ UNCHANGED <<pc, id, pair, deleted>>
           ELSE /\ Leave(p)
                /\ deleted' = deleted \cup {id[p]}
                /\ UNCHANGED files
    /\ UNCHANGED <<clock, known, loaded, server, used, drawn>>

\* register_enckeys sends the id, the public key and the relinearisation keys
\* just read; register_keys emplaces them, so that the first ones stay.
Register(p) ==
    LET mine == loaded[p].keys
    IN  /\ pc[p] = "idle"
        /\ mine.pub # Absent /\ mine.relin # Absent
        /\ server' = [server EXCEPT ![loaded[p].id] =
              IF @ = Absent THEN [pub |-> mine.pub, relin |-> mine.relin] ELSE @]
        /\ UNCHANGED <<clock, files, known, pc, id, at, pair, loaded, used,
                       drawn, deleted>>

Tick ==
    /\ clock < MaxClock
    /\ clock' = clock + 1
    /\ UNCHANGED <<files, known, pc, id, at, pair, loaded, server, used, drawn,
                   deleted>>

Init ==
    /\ clock = 0
    /\ files = NoFiles
    /\ known = [p \in Procs |-> {}]
    /\ pc = [p \in Procs |-> "idle"]
    /\ id = [p \in Procs |-> Absent]
    /\ at = [p \in Procs |-> 1]
    /\ pair = [p \in Procs |-> Absent]
    /\ loaded = [p \in Procs |-> [id |-> Absent, keys |-> Nothing]]
    /\ server = [k \in KeyIds |-> Absent]
    /\ used = 0
    /\ drawn = [k \in KeyIds |-> {}]
    /\ deleted = {}

Next ==
    \/ Tick
    \/ \E p \in Procs :
          \/ NewKeys(p) \/ OpenFile(p) \/ WriteFile(p) \/ RemoveFile(p)
          \/ Register(p)
          \/ \E k \in KeyIds : CallDelete(p, k)
          \/ \E k \in KeyIds, kind \in FileKinds : Get(p, k, kind)

Spec == Init /\ [][Next]_keyVars

-----------------------------------------------------------------------------
\* Two pairs were generated under one id: in one second, or unlucky.
Repeated(k) == \E g, h \in drawn[k] : g # h

\* What a key read under the id k may be.
Genuine(k) == drawn[k] \cup {m \in {Mixed} : Repeated(k)}

Busy(k) == \E p \in Procs : pc[p] # "idle" /\ id[p] = k

ServerKeys == [pub : Readable, relin : Readable]

\* Files, maps and locals hold what their types allow.
TypeOK ==
    /\ clock \in Seconds
    /\ files \in [KeyIds -> [FileKinds -> Readable \cup {Torn, Absent}]]
    /\ known \in [Procs -> SUBSET KeyIds]
    /\ pc \in [Procs -> {"idle", "open", "write", "remove"}]
    /\ id \in [Procs -> KeyIds \cup {Absent}]
    /\ at \in [Procs -> 1 .. Len(KindOrder)]
    /\ pair \in [Procs -> Pairs \cup {Absent}]
    /\ loaded \in [Procs -> [id : KeyIds \cup {Absent},
                             keys : [FileKinds -> Readable \cup {Absent}]]]
    /\ server \in [KeyIds -> ServerKeys \cup {Absent}]
    /\ used \in 0 .. MaxPairs
    /\ drawn \in [KeyIds -> SUBSET Pairs]
    /\ deleted \subseteq KeyIds

\* What get returns for an id was generated under that id, however processes
\* write, read and remove, or is a mixture and then two pairs were; so while
\* an id is drawn once, the public, secret and relinearisation keys read back
\* are one pair.
OwnKeys ==
    \A p \in Procs, kind \in FileKinds :
       loaded[p].keys[kind] # Absent =>
          loaded[p].keys[kind] \in Genuine(loaded[p].id)

\* The keys the server computes with under an id belong to the secret key
\* its owner decrypts with, unless the id was drawn twice.
Decryptable ==
    \A p \in Procs :
       LET k == loaded[p].id
           sec == loaded[p].keys.sec
       IN  (sec # Absent /\ ~Repeated(k) /\ server[k] # Absent) =>
              server[k].pub = sec /\ server[k].relin = sec

\* When delete_keys has ended, by its exception, the key pair at least cannot
\* be read back.
DeletedPairGone ==
    \A k \in deleted :
       ~Busy(k) /\ ~Repeated(k) =>
          File(k, "pub") = Absent /\ File(k, "sec") = Absent

\* keycontainer.hpp says of delete_keys: "Delete keys."
DeletedIsGone == \A k \in deleted : Busy(k) \/ files[k] = Nothing

\* Inductive: every copy of a key is of a pair generated under its id, and no
\* two processes write the same pair.
CopiesOK ==
    /\ \A k \in KeyIds : drawn[k] \subseteq 1 .. used
    /\ \A p, o \in Procs :
          p # o /\ pc[p] \in {"open", "write"} /\ pc[o] \in {"open", "write"} =>
             pair[p] # pair[o]
    /\ \A k \in KeyIds, kind \in FileKinds :
          files[k][kind] \in Genuine(k) \cup {Torn, Absent}
    /\ \A p \in Procs :
          pc[p] \in {"open", "write"} =>
             id[p] \in KeyIds /\ pair[p] \in drawn[id[p]] /\ at[p] <= 4
    /\ \A p \in Procs : pc[p] = "remove" => id[p] \in KeyIds /\ at[p] <= 3
    /\ \A k \in KeyIds : server[k] # Absent =>
          server[k].pub \in Genuine(k) /\ server[k].relin \in Genuine(k)
    /\ \A p \in Procs : loaded[p].id = Absent => loaded[p].keys = Nothing
    /\ OwnKeys

\* Inductive: a key pair has one owner while its id was drawn once; its
\* public file is written before and removed before its secret one, and
\* what was deleted is nobody's to write.
OwnersOK ==
    /\ \A p \in Procs : pc[p] # "idle" => id[p] \in known[p]
    /\ \A p \in Procs : \A k \in known[p] : drawn[k] # {}
    /\ \A p, o \in Procs :
          p # o => \A k \in known[p] \cap known[o] : Repeated(k)

Writes(p, k) == pc[p] \in {"open", "write"} /\ id[p] = k
Removes(p, k) == pc[p] = "remove" /\ id[p] = k

PairOK(k) ==
    /\ \A p \in Procs : Writes(p, k) =>
          /\ k \notin deleted
          /\ at[p] > 1 \/ pc[p] = "write" => File(k, "pub") # Absent
    /\ \A p \in Procs : Removes(p, k) =>
          /\ at[p] > 1 => File(k, "pub") = Absent
          /\ at[p] > 2 => File(k, "sec") = Absent
    /\ File(k, "pub") = Absent /\ File(k, "sec") # Absent =>
          \E p \in Procs : Removes(p, k) /\ at[p] = 2
    /\ k \in deleted => File(k, "pub") = Absent /\ File(k, "sec") = Absent

GoneOK == OwnersOK /\ \A k \in KeyIds : ~Repeated(k) => PairOK(k)

IndInv == TypeOK /\ CopiesOK /\ GoneOK
=============================================================================
