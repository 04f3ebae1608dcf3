--------------------------- MODULE KeyFiles_proofs ---------------------------
(***************************************************************************)
(* For any number of processes, ids, seconds and key pairs.                *)
(***************************************************************************)
EXTENDS KeyFiles, TLAPS

\* The kinds that new_keys writes, and those that the removal loop meets.
LEMMA KindsByPosition ==
  /\ \A i \in 1 .. 5 : i <= 4 => WriteOrder[i] \in FileKinds
  /\ Len(WriteOrder) = 4 /\ Len(KindOrder) = 5
  /\ \A i \in 1 .. 5 : i <= 3 /\ KindOrder[i] \in FileKinds => i <= 2
  BY DEF WriteOrder, KindOrder, FileKinds

\* No mark is a pair or an id.
LEMMA AbsentIsNoPair ==
  /\ Absent \notin Readable /\ Absent # Torn /\ Absent \notin KeyIds
  /\ Torn \notin Readable /\ Torn # Mixed /\ Pairs \subseteq Readable
  BY KeyFilesAssumption DEF Torn, Mixed, Pairs, Readable

\* More pairs under an id leave genuine what was.
LEMMA GenuineGrows ==
  ASSUME \A j \in KeyIds : drawn[j] \subseteq drawn'[j]
  PROVE  \A j \in KeyIds : Genuine(j) \subseteq Genuine(j)'
  BY DEF Genuine, Repeated

\* A mixture is genuine where two pairs were drawn.
LEMMA GenuineHolds ==
  ASSUME NEW k \in KeyIds
  PROVE  /\ drawn[k] \subseteq Genuine(k)
         /\ \A g, h \in drawn[k] : g # h => Mixed \in Genuine(k)
  BY DEF Genuine, Repeated

\* A new value for one file keeps the directory well typed and touches
\* nothing else in it.
LEMMA OneFile ==
  ASSUME TypeOK, NEW k \in KeyIds, NEW kind \in FileKinds,
         NEW content \in Readable \cup {Torn, Absent}, SetFile(k, kind, content)
  PROVE  /\ files' \in [KeyIds -> [FileKinds -> Readable \cup {Torn, Absent}]]
         /\ \A j \in KeyIds, other \in FileKinds :
               files'[j][other] = IF j = k /\ other = kind THEN content
                                  ELSE files[j][other]
  BY DEF TypeOK, SetFile, FileOf

\* The invariant of the copies holds with no files.
LEMMA InitOK == Init => TypeOK /\ CopiesOK
<1> SUFFICES ASSUME Init PROVE TypeOK /\ CopiesOK
  OBVIOUS
<1>1. TypeOK
  BY KeyFilesAssumption, KindsByPosition
  DEF Init, TypeOK, NoFiles, Nothing, Seconds
<1>2. CopiesOK
  BY AbsentIsNoPair DEF Init, CopiesOK, OwnKeys, NoFiles, Nothing, Genuine
<1> QED
  BY <1>1, <1>2

\* new_keys draws a pair and starts to write it.
LEMMA NewKeysOK ==
  ASSUME TypeOK, CopiesOK, NEW p \in Procs, NewKeys(p)
  PROVE  TypeOK' /\ CopiesOK'
<1> PICK k \in KeyIds : k = FirstRand[clock]
  BY KeyFilesAssumption DEF TypeOK
<1>1. /\ used + 1 \in Pairs /\ used + 1 \in 0 .. MaxPairs
  BY KeyFilesAssumption DEF NewKeys, TypeOK, Pairs
<1>2. TypeOK'
  BY <1>1, KindsByPosition DEF NewKeys, TypeOK
<1>3. \A j \in KeyIds : drawn[j] \subseteq drawn'[j]
  BY DEF NewKeys, TypeOK
<1>4. used + 1 \in drawn'[k]
  BY DEF NewKeys, TypeOK
<1>5. \A j \in KeyIds : Genuine(j) \subseteq Genuine(j)'
  BY <1>3, GenuineGrows
<1>6. UNCHANGED <<clock, files, loaded, server>>
  BY DEF NewKeys
<1>7. \A j \in KeyIds : drawn'[j] \subseteq 1 .. used'
  BY <1>1 DEF NewKeys, TypeOK, CopiesOK
<1>8. \A q \in Procs : pc[q] \in {"open", "write"} => pair[q] # used + 1
  <2> SUFFICES ASSUME NEW q \in Procs, pc[q] \in {"open", "write"}
               PROVE  pair[q] # used + 1
    OBVIOUS
  <2>1. pair[q] \in 1 .. used
    BY DEF CopiesOK
  <2> QED
    BY <2>1 DEF TypeOK
<1>9. \A q, o \in Procs :
         q # o /\ pc'[q] \in {"open", "write"} /\ pc'[o] \in {"open", "write"} =>
            pair'[q] # pair'[o]
  <2>1. \A q \in Procs : q # p => pc'[q] = pc[q] /\ pair'[q] = pair[q]
    BY DEF NewKeys, TypeOK
  <2>2. pair'[p] = used + 1
    BY DEF NewKeys, TypeOK
  <2> QED
    BY <1>8, <2>1, <2>2 DEF CopiesOK
<1>10. \A q \in Procs :
         /\ pc'[q] \in {"open", "write"} =>
               id'[q] \in KeyIds /\ pair'[q] \in drawn'[id'[q]] /\ at'[q] <= 4
         /\ pc'[q] = "remove" => id'[q] \in KeyIds /\ at'[q] <= 3
  BY <1>3, <1>4 DEF NewKeys, TypeOK, CopiesOK
<1>11. \A j \in KeyIds, kind \in FileKinds :
         files'[j][kind] \in Genuine(j)' \cup {Torn, Absent}
  BY <1>5, <1>6 DEF CopiesOK
<1>12. /\ \A j \in KeyIds : server'[j] # Absent =>
            server'[j].pub \in Genuine(j)' /\ server'[j].relin \in Genuine(j)'
       /\ \A q \in Procs : loaded'[q].id = Absent => loaded'[q].keys = Nothing
  BY <1>5, <1>6 DEF CopiesOK
<1>13. OwnKeys'
  <2>1. \A q \in Procs, kind \in FileKinds :
           loaded[q].keys[kind] # Absent => loaded[q].id \in KeyIds
    BY DEF TypeOK, CopiesOK, Nothing
  <2>2. SUFFICES ASSUME NEW q \in Procs, NEW kind \in FileKinds,
                        loaded[q].keys[kind] # Absent
                 PROVE  (loaded[q].keys[kind] \in Genuine(loaded[q].id))'
    BY <1>6 DEF OwnKeys
  <2>3. PICK j \in KeyIds : j = loaded[q].id
    BY <2>1, <2>2
  <2>4. loaded[q].keys[kind] \in Genuine(j)
    BY <2>2, <2>3 DEF CopiesOK, OwnKeys
  <2>5. loaded[q].keys[kind] \in Genuine(j)'
    BY <1>5, <2>4
  <2>6. Genuine(j)' = Genuine(loaded[q].id)'
    BY <1>6, <2>3 DEF Genuine, Repeated
  <2> QED
    BY <1>6, <2>5, <2>6
<1> QED
  BY <1>2, <1>7, <1>9, <1>10, <1>11, <1>12, <1>13 DEF CopiesOK, Nothing

\* Opening and writing a file puts the own pair or a torn one there.
LEMMA WriteOK ==
  ASSUME TypeOK, CopiesOK, NEW p \in Procs, OpenFile(p) \/ WriteFile(p)
  PROVE  TypeOK' /\ CopiesOK'
<1>1. /\ id[p] \in KeyIds /\ pair[p] \in drawn[id[p]] /\ pair[p] \in Pairs
      /\ at[p] \in 1 .. 5 /\ at[p] <= 4 /\ WriteOrder[at[p]] \in FileKinds
  BY KindsByPosition, AbsentIsNoPair
  DEF OpenFile, WriteFile, CopiesOK, TypeOK
<1>2. PICK content \in Genuine(id[p]) \cup {Torn, Absent} :
         SetFile(id[p], WriteOrder[at[p]], content)
  <2>1. CASE OpenFile(p)
    <3> DEFINE others == {o \in Procs \ {p} :
                             /\ pc[o] = "write" /\ at[o] = at[p]
                             /\ FileOf(id[o]) = FileOf(id[p])}
    <3>1. CASE others = {}
      BY <2>1, <3>1 DEF OpenFile
    <3>2. CASE others # {}
      <4>1. PICK o \in Procs \ {p} : pc[o] = "write" /\ id[o] = id[p]
        BY <3>2 DEF FileOf
      <4>2. pair[o] \in drawn[id[p]] /\ pair[o] # pair[p]
        BY <2>1, <4>1 DEF OpenFile, CopiesOK
      <4>3. Mixed \in Genuine(id[p])
        BY <1>1, <4>2, GenuineHolds
      <4> QED
        BY <2>1, <3>2, <4>3 DEF OpenFile
    <3> QED
      BY <3>1, <3>2
  <2>2. CASE WriteFile(p)
    <3>1. pair[p] \in Genuine(id[p])
      BY <1>1, GenuineHolds
    <3>2. File(id[p], WriteOrder[at[p]]) \in Genuine(id[p]) \cup {Torn, Absent}
      BY <1>1 DEF File, FileOf, CopiesOK
    <3> QED
      BY <2>2, <3>1, <3>2 DEF WriteFile
  <2> QED
    BY <2>1, <2>2
<1>3. /\ files' \in [KeyIds -> [FileKinds -> Readable \cup {Torn, Absent}]]
      /\ \A j \in KeyIds, other \in FileKinds :
            files'[j][other] =
               IF j = id[p] /\ other = WriteOrder[at[p]] THEN content
               ELSE files[j][other]
  <2>1. content \in Readable \cup {Torn, Absent}
    <3>1. drawn[id[p]] \subseteq Pairs
      BY <1>1 DEF TypeOK
    <3> QED
      BY <3>1 DEF Genuine, Readable
  <2> QED
    BY <1>1, <1>2, <2>1, OneFile
<1>4. TypeOK'
  <2>1. CASE OpenFile(p)
    BY <1>3, <2>1 DEF OpenFile, TypeOK
  <2>2. CASE WriteFile(p) /\ at[p] = Len(WriteOrder)
    <3>1. Leave(p) /\ UNCHANGED <<clock, known, loaded, server, used, drawn,
                                   deleted>>
      BY <2>2 DEF WriteFile
    <3>2. 1 \in 1 .. Len(KindOrder)
      BY KindsByPosition
    <3> QED
      BY <1>3, <3>1, <3>2 DEF Leave, TypeOK
  <2>3. CASE WriteFile(p) /\ at[p] # Len(WriteOrder)
    <3>1. /\ at' = [at EXCEPT ![p] = at[p] + 1] /\ at[p] + 1 \in 1 .. 5
          /\ pc' = [pc EXCEPT ![p] = "open"]
          /\ UNCHANGED <<id, pair, clock, known, loaded, server, used, drawn,
                         deleted>>
      BY <1>1, <2>3, KindsByPosition DEF WriteFile
    <3> QED
      BY <1>3, <3>1, KindsByPosition DEF TypeOK
  <2> QED
    BY <2>1, <2>2, <2>3
<1>5. \A j \in KeyIds, kind \in FileKinds :
         files'[j][kind] \in Genuine(j) \cup {Torn, Absent}
  BY <1>1, <1>2, <1>3 DEF CopiesOK
<1>6. \A q \in Procs :
         /\ pc'[q] \in {"open", "write"} =>
               id'[q] \in KeyIds /\ pair'[q] \in drawn[id'[q]] /\ at'[q] <= 4
         /\ pc'[q] = "remove" => id'[q] \in KeyIds /\ at'[q] <= 3
  BY <1>1, KindsByPosition DEF OpenFile, WriteFile, Leave, TypeOK, CopiesOK
<1>7. UNCHANGED <<drawn, used, server, loaded>>
  BY DEF OpenFile, WriteFile
<1>8. \A q \in Procs :
         pc'[q] \in {"open", "write"} =>
            pc[q] \in {"open", "write"} /\ pair'[q] = pair[q]
  BY DEF OpenFile, WriteFile, Leave, TypeOK
<1>9. \A j \in KeyIds : Genuine(j)' = Genuine(j)
  BY <1>7 DEF Genuine, Repeated
<1>10. OwnKeys'
  BY <1>7 DEF CopiesOK, OwnKeys, Genuine, Repeated
<1> QED
  BY <1>4, <1>5, <1>6, <1>7, <1>8, <1>9, <1>10 DEF CopiesOK, Nothing

\* delete_keys takes copies away and adds none.
LEMMA DeleteOK ==
  ASSUME TypeOK, CopiesOK, NEW p \in Procs,
         RemoveFile(p) \/ \E k \in KeyIds : CallDelete(p, k)
  PROVE  TypeOK' /\ CopiesOK'
<1>1. CASE \E k \in KeyIds : CallDelete(p, k)
  BY <1>1, KindsByPosition
  DEF CallDelete, TypeOK, CopiesOK, OwnKeys, Genuine, Repeated
<1>2. CASE RemoveFile(p)
  <2>1. id[p] \in KeyIds /\ at[p] \in 1 .. 5 /\ at[p] <= 3
    BY <1>2, KindsByPosition DEF RemoveFile, TypeOK, CopiesOK
  <2>2. UNCHANGED <<clock, known, loaded, server, used, drawn>>
    BY <1>2 DEF RemoveFile
  <2>3. CASE KindOrder[at[p]] \in FileKinds /\ File(id[p], KindOrder[at[p]]) # Absent
    <3>1. /\ SetFile(id[p], KindOrder[at[p]], Absent) /\ pc[p] = "remove"
          /\ at' = [at EXCEPT ![p] = at[p] + 1]
          /\ UNCHANGED <<pc, id, pair, deleted>>
      BY <1>2, <2>3 DEF RemoveFile
    <3>2. at[p] <= 2
      BY <2>1, <2>3, KindsByPosition
    <3>3. /\ files' \in [KeyIds -> [FileKinds -> Readable \cup {Torn, Absent}]]
          /\ \A j \in KeyIds, other \in FileKinds :
                files'[j][other] \in {Absent, files[j][other]}
      BY <2>1, <2>3, <3>1, OneFile
    <3>4. TypeOK'
      BY <2>1, <2>2, <3>1, <3>2, <3>3, KindsByPosition DEF TypeOK
    <3>5. CopiesOK'
      BY <2>1, <2>2, <3>1, <3>2, <3>3
      DEF TypeOK, CopiesOK, OwnKeys, Genuine, Repeated
    <3> QED
      BY <3>4, <3>5
  <2>4. CASE ~(KindOrder[at[p]] \in FileKinds
                  /\ File(id[p], KindOrder[at[p]]) # Absent)
    <3>1. Leave(p) /\ deleted' = deleted \cup {id[p]} /\ UNCHANGED files
      BY <1>2, <2>4 DEF RemoveFile
    <3>2. TypeOK'
      BY <2>1, <2>2, <3>1, KindsByPosition DEF Leave, TypeOK
    <3>3. CopiesOK'
      BY <2>1, <2>2, <3>1
      DEF Leave, TypeOK, CopiesOK, OwnKeys, Genuine, Repeated
    <3> QED
      BY <3>2, <3>3
  <2> QED
    BY <2>3, <2>4
<1> QED
  BY <1>1, <1>2

\* get reads a file and keeps what the previous load of the id left.
LEMMA GetOK ==
  ASSUME TypeOK, CopiesOK, NEW p \in Procs, NEW k \in KeyIds,
         NEW kind \in FileKinds, Get(p, k, kind)
  PROVE  TypeOK' /\ CopiesOK'
<1>1. files[k][kind] \in Readable /\ files[k][kind] \in Genuine(k)
  BY AbsentIsNoPair DEF Get, File, FileOf, CopiesOK, TypeOK
<1>2. PICK old \in [FileKinds -> Readable \cup {Absent}] :
         /\ old = IF loaded[p].id = k THEN loaded[p].keys ELSE Nothing
         /\ \A other \in FileKinds : old[other] # Absent => old[other] \in Genuine(k)
  BY DEF TypeOK, CopiesOK, OwnKeys, Nothing
<1>3. loaded' = [loaded EXCEPT ![p] =
                    [id |-> k, keys |-> [old EXCEPT ![kind] = files[k][kind]]]]
  BY <1>2 DEF Get, File, FileOf
<1>4. UNCHANGED <<clock, files, known, pc, id, at, pair, server, used, drawn,
                  deleted>>
  BY DEF Get
<1>5. TypeOK'
  BY <1>1, <1>2, <1>3, <1>4 DEF TypeOK
<1>6. \A q \in Procs : q # p => loaded'[q] = loaded[q]
  BY <1>3 DEF TypeOK
<1>7. /\ loaded'[p].id = k
      /\ \A other \in FileKinds :
            loaded'[p].keys[other] # Absent => loaded'[p].keys[other] \in Genuine(k)
  BY <1>1, <1>2, <1>3 DEF TypeOK
<1>8. OwnKeys'
  BY <1>4, <1>6, <1>7 DEF OwnKeys, CopiesOK, Genuine, Repeated
<1>9. \A q \in Procs : loaded'[q].id = Absent => loaded'[q].keys = Nothing
  BY <1>6, <1>7, AbsentIsNoPair DEF CopiesOK
<1> QED
  BY <1>4, <1>5, <1>8, <1>9 DEF CopiesOK, Nothing, Genuine, Repeated

\* register_enckeys sends what is loaded.
LEMMA RegisterOK ==
  ASSUME TypeOK, CopiesOK, NEW p \in Procs, Register(p)
  PROVE  TypeOK' /\ CopiesOK'
<1>1. loaded[p].id \in KeyIds
  <2>1. "pub" \in FileKinds /\ loaded[p].keys["pub"] # Absent
    BY DEF Register, FileKinds
  <2> QED
    BY <2>1 DEF TypeOK, CopiesOK, Nothing
<1>2. PICK keys \in ServerKeys :
         /\ keys = [pub |-> loaded[p].keys.pub, relin |-> loaded[p].keys.relin]
         /\ keys.pub \in Genuine(loaded[p].id) /\ keys.relin \in Genuine(loaded[p].id)
  <2>1. loaded[p].keys["pub"] # Absent /\ loaded[p].keys["relin"] # Absent
    BY DEF Register
  <2>2. "pub" \in FileKinds /\ "relin" \in FileKinds
    BY DEF FileKinds
  <2>3. loaded[p].keys \in [FileKinds -> Readable \cup {Absent}]
    BY DEF TypeOK
  <2>4. /\ loaded[p].keys["pub"] \in Readable /\ loaded[p].keys["relin"] \in Readable
        /\ loaded[p].keys["pub"] # Absent /\ loaded[p].keys["relin"] # Absent
        /\ "pub" \in FileKinds /\ "relin" \in FileKinds
    BY <2>1, <2>2, <2>3
  <2>5. /\ loaded[p].keys["pub"] \in Genuine(loaded[p].id)
        /\ loaded[p].keys["relin"] \in Genuine(loaded[p].id)
    BY <2>4 DEF CopiesOK, OwnKeys
  <2>6. [pub |-> loaded[p].keys["pub"], relin |-> loaded[p].keys["relin"]]
           \in ServerKeys
    BY <2>4 DEF ServerKeys
  <2> QED
    BY <2>5, <2>6
<1>3. /\ server' = [server EXCEPT ![loaded[p].id] =
                       IF server[loaded[p].id] = Absent THEN keys
                       ELSE server[loaded[p].id]]
      /\ UNCHANGED <<clock, files, known, pc, id, at, pair, loaded, used, drawn,
                     deleted>>
  BY <1>2 DEF Register
<1>4. TypeOK'
  BY <1>1, <1>3 DEF TypeOK
<1>5. \A k \in KeyIds : server'[k] # Absent =>
         server'[k].pub \in Genuine(k) /\ server'[k].relin \in Genuine(k)
  BY <1>1, <1>2, <1>3 DEF TypeOK, CopiesOK
<1> QED
  BY <1>3, <1>4, <1>5 DEF CopiesOK, OwnKeys, Nothing, Genuine, Repeated

\* Every step keeps types and copies in order.
LEMMA StepOK == TypeOK /\ CopiesOK /\ [Next]_keyVars => (TypeOK /\ CopiesOK)'
<1> SUFFICES ASSUME TypeOK, CopiesOK, [Next]_keyVars PROVE TypeOK' /\ CopiesOK'
  OBVIOUS
<1>1. CASE Tick
  <2>1. clock' \in Seconds
    BY <1>1, KeyFilesAssumption DEF Tick, TypeOK, Seconds
  <2>2. UNCHANGED <<files, known, pc, id, at, pair, loaded, server, used, drawn,
                    deleted>>
    BY <1>1 DEF Tick
  <2>3. TypeOK'
    BY <2>1, <2>2 DEF TypeOK
  <2>4. CopiesOK'
    BY <2>2 DEF CopiesOK, OwnKeys, Nothing, Genuine, Repeated
  <2> QED
    BY <2>3, <2>4
<1>2. CASE UNCHANGED keyVars
  BY <1>2 DEF keyVars, TypeOK, CopiesOK, OwnKeys, Nothing, Genuine, Repeated
<1> QED
  BY <1>1, <1>2, NewKeysOK, WriteOK, DeleteOK, GetOK, RegisterOK DEF Next

\* What a process reads under an id was generated under it, for any number of
\* processes in the directory and any table of key ids.
THEOREM OwnKeysHolds == Spec => []OwnKeys
<1>1. TypeOK /\ CopiesOK => OwnKeys
  BY DEF CopiesOK
<1> QED
  BY <1>1, InitOK, StepOK, PTL DEF Spec

\* What the server computes with is the owner's pair, while the id is drawn
\* once.
THEOREM DecryptableHolds == Spec => []Decryptable
<1>1. TypeOK /\ CopiesOK => Decryptable
  <2> SUFFICES ASSUME TypeOK, CopiesOK, NEW p \in Procs,
                      loaded[p].keys.sec # Absent, ~Repeated(loaded[p].id),
                      server[loaded[p].id] # Absent
               PROVE  /\ server[loaded[p].id].pub = loaded[p].keys.sec
                      /\ server[loaded[p].id].relin = loaded[p].keys.sec
    BY DEF Decryptable
  <2>1. "sec" \in FileKinds
    BY DEF FileKinds
  <2>2. loaded[p].keys.sec \in Genuine(loaded[p].id)
    BY <2>1 DEF CopiesOK, OwnKeys
  <2>3. loaded[p].id \in KeyIds
    BY <2>1 DEF TypeOK, CopiesOK, Nothing
  <2>4. /\ server[loaded[p].id].pub \in Genuine(loaded[p].id)
        /\ server[loaded[p].id].relin \in Genuine(loaded[p].id)
    BY <2>3 DEF CopiesOK
  <2> QED
    BY <2>2, <2>4 DEF Repeated, Genuine
<1> QED
  BY <1>1, InitOK, StepOK, PTL DEF Spec

-----------------------------------------------------------------------------
(* What a deletion leaves. *)

\* While an id is drawn once, one process at most is busy with it.
LEMMA OneOwner ==
  ASSUME OwnersOK, NEW k, ~Repeated(k), NEW p \in Procs, NEW o \in Procs,
         pc[p] # "idle", id[p] = k, o # p
  PROVE  ~Writes(o, k) /\ ~Removes(o, k)
  BY DEF OwnersOK, Writes, Removes

\* Owners stay while nothing is drawn and no process takes up another id.
LEMMA OwnersStay ==
  ASSUME OwnersOK, UNCHANGED <<known, drawn>>,
         \A o \in Procs : pc'[o] # "idle" => id'[o] \in known[o]
  PROVE  OwnersOK'
  BY DEF OwnersOK, Repeated

\* A pair stays as it is while the processes that are busy with its id do.
LEMMA PairStays ==
  ASSUME NEW k \in KeyIds, PairOK(k),
         \A o \in Procs : Writes(o, k)' => Writes(o, k) /\ at'[o] = at[o]
                                           /\ pc'[o] = pc[o],
         \A o \in Procs : Removes(o, k)' <=> Removes(o, k),
         \A o \in Procs : Removes(o, k) => at'[o] = at[o],
         File(k, "pub")' = File(k, "pub"), File(k, "sec")' = File(k, "sec"),
         k \in deleted' => k \in deleted
  PROVE  PairOK(k)'
  BY DEF PairOK

\* With no files there is nothing to be left over.
LEMMA InitGone == Init => GoneOK
  BY DEF Init, GoneOK, OwnersOK, PairOK, Writes, Removes, File, FileOf,
         NoFiles, Nothing, FileKinds

\* A pair that is drawn is about to be written in full.
LEMMA NewKeysGone ==
  ASSUME TypeOK, CopiesOK, GoneOK, NEW p \in Procs, NewKeys(p)
  PROVE  GoneOK'
<1> PICK k \in KeyIds : k = FirstRand[clock]
  BY KeyFilesAssumption DEF TypeOK
<1>1. /\ pc[p] = "idle" /\ pc' = [pc EXCEPT ![p] = "open"]
      /\ id' = [id EXCEPT ![p] = k] /\ at' = [at EXCEPT ![p] = 1]
      /\ known' = [known EXCEPT ![p] = known[p] \cup {k}]
      /\ drawn' = [drawn EXCEPT ![k] = drawn[k] \cup {used + 1}]
      /\ deleted' = deleted \ {k} /\ files' = files
  BY DEF NewKeys
<1>2. used + 1 \notin drawn[k]
  BY DEF TypeOK, CopiesOK
<1>3. \A j \in KeyIds : Repeated(j) => Repeated(j)'
  BY <1>1 DEF TypeOK, Repeated
<1>4. drawn[k] # {} => Repeated(k)'
  BY <1>1, <1>2 DEF TypeOK, Repeated
<1>5. OwnersOK'
  <2>1. \A q \in Procs : pc'[q] # "idle" => id'[q] \in known'[q]
    BY <1>1 DEF TypeOK, GoneOK, OwnersOK
  <2>2. \A q \in Procs : \A j \in known'[q] : drawn'[j] # {}
    BY <1>1 DEF TypeOK, GoneOK, OwnersOK
  <2>3. ASSUME NEW q \in Procs, NEW o \in Procs, q # o,
               NEW j \in known'[q] \cap known'[o]
        PROVE  Repeated(j)'
    <3>1. j \in KeyIds
      BY <1>1 DEF TypeOK
    <3>2. CASE j \in known[q] \cap known[o]
      BY <1>3, <2>3, <3>1, <3>2 DEF GoneOK, OwnersOK
    <3>3. CASE j \notin known[q] \cap known[o]
      <4>1. j = k /\ (j \in known[q] \/ j \in known[o])
        BY <1>1, <2>3, <3>3 DEF TypeOK
      <4>2. drawn[k] # {}
        BY <4>1 DEF GoneOK, OwnersOK
      <4> QED
        BY <1>4, <4>1, <4>2
    <3> QED
      BY <3>2, <3>3
  <2> QED
    BY <2>1, <2>2, <2>3 DEF OwnersOK
<1>6. ASSUME NEW j \in KeyIds, ~Repeated(j)'
      PROVE  PairOK(j)'
  <2>1. ~Repeated(j) /\ PairOK(j)
    BY <1>3, <1>6 DEF GoneOK
  <2>2. File(j, "pub")' = File(j, "pub") /\ File(j, "sec")' = File(j, "sec")
    BY <1>1 DEF File, FileOf
  <2>3. \A o \in Procs : Removes(o, j)' <=> Removes(o, j)
    BY <1>1 DEF TypeOK, Removes
  <2>4. CASE j # k
    BY <1>1, <2>1, <2>2, <2>3, <2>4, PairStays DEF TypeOK, Writes, Removes
  <2>5. CASE j = k
    <3>1. drawn[k] = {}
      BY <1>4, <1>6, <2>5
    <3>2. \A o \in Procs : ~Writes(o, k) /\ ~Removes(o, k)
      BY <3>1 DEF GoneOK, OwnersOK, Writes, Removes
    <3>3. \A o \in Procs : Writes(o, k)' => at'[o] = 1 /\ pc'[o] = "open"
      BY <1>1, <3>2 DEF TypeOK, Writes
    <3> QED
      BY <1>1, <2>1, <2>2, <2>3, <2>5, <3>2, <3>3 DEF PairOK
  <2> QED
    BY <2>4, <2>5
<1> QED
  BY <1>5, <1>6 DEF GoneOK

\* A deletion that starts is about to remove all of a pair.
LEMMA CallDeleteGone ==
  ASSUME TypeOK, GoneOK, NEW p \in Procs, NEW k \in KeyIds, CallDelete(p, k)
  PROVE  GoneOK'
<1>1. /\ pc[p] = "idle" /\ pc' = [pc EXCEPT ![p] = "remove"]
      /\ id' = [id EXCEPT ![p] = k] /\ at' = [at EXCEPT ![p] = 1]
      /\ k \in known[p] /\ UNCHANGED <<known, drawn, deleted, files>>
  BY DEF CallDelete
<1>2. OwnersOK'
  BY <1>1, OwnersStay DEF TypeOK, GoneOK, OwnersOK
<1>3. ASSUME NEW j \in KeyIds, ~Repeated(j)'
      PROVE  PairOK(j)'
  <2>1. PairOK(j)
    BY <1>1, <1>3 DEF GoneOK, Repeated
  <2>2. File(j, "pub")' = File(j, "pub") /\ File(j, "sec")' = File(j, "sec")
    BY <1>1 DEF File, FileOf
  <2>3. \A o \in Procs : Writes(o, j)' => Writes(o, j) /\ at'[o] = at[o]
                                          /\ pc'[o] = pc[o]
    BY <1>1 DEF TypeOK, Writes
  <2>4. \A o \in Procs : Removes(o, j)' =>
           (Removes(o, j) /\ at'[o] = at[o]) \/ at'[o] = 1
    BY <1>1 DEF TypeOK, Removes
  <2>5. \A o \in Procs : Removes(o, j) => Removes(o, j)' /\ at'[o] = at[o]
    BY <1>1 DEF TypeOK, Removes
  <2> QED
    BY <1>1, <2>1, <2>2, <2>3, <2>4, <2>5 DEF PairOK
<1> QED
  BY <1>2, <1>3 DEF GoneOK

\* A step of p leaves the pairs of other ids alone.
LEMMA OthersStay ==
  ASSUME TypeOK, NEW p \in Procs, id[p] \in KeyIds, pc[p] # "idle",
         id'[p] \in {id[p], Absent}, id'[p] = Absent => pc'[p] = "idle",
         \A o \in Procs : o # p =>
            pc'[o] = pc[o] /\ id'[o] = id[o] /\ at'[o] = at[o],
         \A j \in KeyIds, other \in FileKinds :
            j # id[p] => files'[j][other] = files[j][other],
         deleted' \subseteq deleted \cup {id[p]},
         NEW j \in KeyIds, j # id[p], PairOK(j)
  PROVE  PairOK(j)'
<1>1. File(j, "pub")' = File(j, "pub") /\ File(j, "sec")' = File(j, "sec")
  BY DEF File, FileOf, FileKinds
<1>2. ~Writes(p, j) /\ ~Removes(p, j) /\ ~Writes(p, j)' /\ ~Removes(p, j)'
  BY AbsentIsNoPair DEF Writes, Removes
<1>3. \A o \in Procs : o # p =>
         /\ Writes(o, j)' <=> Writes(o, j)
         /\ Removes(o, j)' <=> Removes(o, j)
         /\ pc'[o] = pc[o] /\ at'[o] = at[o]
  BY DEF Writes, Removes
<1> QED
  BY <1>1, <1>2, <1>3, PairStays

\* Writing goes from one file of the pair to the next.
LEMMA WriteGone ==
  ASSUME TypeOK, CopiesOK, GoneOK, NEW p \in Procs, OpenFile(p) \/ WriteFile(p)
  PROVE  GoneOK'
<1> PICK k \in KeyIds : k = id[p]
  BY DEF OpenFile, WriteFile, CopiesOK
<1> DEFINE kind == WriteOrder[at[p]]
<1>1. /\ k \in KeyIds /\ pair[p] \in Pairs /\ at[p] \in 1 .. 4
      /\ kind \in FileKinds /\ Writes(p, k)
      /\ at[p] = 1 => kind = "pub"
      /\ at[p] > 1 => kind # "pub"
  BY KindsByPosition
  DEF OpenFile, WriteFile, CopiesOK, TypeOK, Writes, WriteOrder
<1>2. UNCHANGED <<known, drawn, deleted>>
  BY DEF OpenFile, WriteFile
<1>3. /\ \A o \in Procs : o # p =>
            pc'[o] = pc[o] /\ id'[o] = id[o] /\ at'[o] = at[o]
      /\ id'[p] \in {k, Absent} /\ (id'[p] = Absent => pc'[p] = "idle")
      /\ pc'[p] \in {"open", "write", "idle"}
      /\ pc'[p] # "idle" => id'[p] = k
  <2>1. CASE OpenFile(p)
    BY <1>1, <2>1, AbsentIsNoPair DEF OpenFile, TypeOK, Writes
  <2>2. CASE WriteFile(p)
    BY <1>1, <2>2, AbsentIsNoPair DEF WriteFile, Leave, TypeOK
  <2> QED
    BY <2>1, <2>2
<1>4. PICK content \in Readable \cup {Torn, Absent} :
         /\ SetFile(k, kind, content)
         /\ pc[p] = "open" \/ File(k, kind) # Absent => content # Absent
  <2>1. CASE OpenFile(p)
    BY <2>1, AbsentIsNoPair, KeyFilesAssumption
    DEF OpenFile, Readable, Torn, Mixed
  <2>2. CASE WriteFile(p)
    <3>1. File(k, kind) \in Readable \cup {Torn, Absent}
      BY <1>1 DEF File, FileOf, TypeOK
    <3> QED
      BY <1>1, <2>2, <3>1, KeyFilesAssumption DEF WriteFile, Readable, Torn
  <2> QED
    BY <2>1, <2>2
<1>5. \A j \in KeyIds, other \in FileKinds :
         files'[j][other] = IF j = k /\ other = kind THEN content
                            ELSE files[j][other]
  BY <1>1, <1>4, OneFile
<1>6. OwnersOK'
  BY <1>1, <1>2, <1>3, OwnersStay DEF GoneOK, OwnersOK, Writes
<1>7. ASSUME NEW j \in KeyIds, ~Repeated(j)'
      PROVE  PairOK(j)'
  <2>1. ~Repeated(j) /\ PairOK(j)
    BY <1>2, <1>7 DEF GoneOK, Repeated
  <2>2. CASE j # k
    <3>1. pc[p] # "idle"
      BY <1>1 DEF Writes
    <3> QED
      BY <1>1, <1>2, <1>3, <1>5, <2>1, <2>2, <3>1, OthersStay
  <2>3. CASE j = k
    <3>1. ASSUME NEW o \in Procs, o # p
          PROVE  ~Writes(o, k)' /\ ~Removes(o, k)'
      <4>1. ~Writes(o, k) /\ ~Removes(o, k)
        BY <1>1, <2>1, <2>3, <3>1, OneOwner DEF GoneOK, Writes
      <4> QED
        BY <1>3, <3>1, <4>1 DEF Writes, Removes
    <3>2. ~Removes(p, k)'
      BY <1>3 DEF Removes
    <3>3. k \notin deleted /\ (at[p] > 1 \/ pc[p] = "write"
                               => File(k, "pub") # Absent)
      BY <1>1, <2>1, <2>3 DEF PairOK
    <3>4. "pub" \in FileKinds
      BY DEF FileKinds
    <3>5. File(k, "pub")' # Absent
      <4>1. CASE at[p] = 1
        BY <1>1, <1>4, <1>5, <3>3, <3>4, <4>1 DEF File, FileOf, Writes
      <4>2. CASE at[p] > 1
        BY <1>1, <1>5, <3>3, <3>4, <4>2 DEF File, FileOf
      <4> QED
        BY <1>1, <4>1, <4>2
    <3> QED
      BY <1>2, <2>3, <3>1, <3>2, <3>3, <3>5 DEF PairOK
  <2> QED
    BY <2>2, <2>3
<1> QED
  BY <1>6, <1>7 DEF GoneOK

\* So does removing.
LEMMA RemoveGone ==
  ASSUME TypeOK, CopiesOK, GoneOK, NEW p \in Procs, RemoveFile(p)
  PROVE  GoneOK'
<1> PICK k \in KeyIds : k = id[p]
  BY DEF RemoveFile, CopiesOK
<1> DEFINE kind == KindOrder[at[p]]
<1>1. /\ k \in KeyIds /\ at[p] \in 1 .. 3 /\ Removes(p, k)
      /\ at[p] = 1 => kind = "pub"
      /\ at[p] = 2 => kind = "sec"
      /\ at[p] = 3 => kind \notin FileKinds
      /\ "pub" \in FileKinds /\ "sec" \in FileKinds
  BY KindsByPosition
  DEF RemoveFile, CopiesOK, TypeOK, Removes, KindOrder, FileKinds
<1>2. UNCHANGED <<known, drawn>>
  BY DEF RemoveFile
<1>3. /\ \A o \in Procs : o # p =>
            pc'[o] = pc[o] /\ id'[o] = id[o] /\ at'[o] = at[o]
      /\ id'[p] \in {k, Absent} /\ (id'[p] = Absent => pc'[p] = "idle")
      /\ pc'[p] \in {"remove", "idle"}
      /\ pc'[p] # "idle" => id'[p] = k
      /\ deleted' \subseteq deleted \cup {k}
  BY <1>1, AbsentIsNoPair DEF RemoveFile, Leave, TypeOK, Removes
<1>4. \A j \in KeyIds, other \in FileKinds :
         j # k => files'[j][other] = files[j][other]
  <2>1. CASE UNCHANGED files
    BY <2>1
  <2>2. CASE SetFile(k, kind, Absent) /\ kind \in FileKinds
    BY <1>1, <2>2, OneFile
  <2> QED
    BY <2>1, <2>2 DEF RemoveFile
<1>5. OwnersOK'
  BY <1>1, <1>2, <1>3, OwnersStay DEF GoneOK, OwnersOK, Removes
<1>6. ASSUME ~Repeated(k)
      PROVE  PairOK(k)'
  <2>1. PairOK(k)
    BY <1>1, <1>6 DEF GoneOK
  <2>2. ASSUME NEW o \in Procs, o # p
        PROVE  ~Writes(o, k) /\ ~Removes(o, k)
               /\ ~Writes(o, k)' /\ ~Removes(o, k)'
    <3>1. ~Writes(o, k) /\ ~Removes(o, k)
      BY <1>1, <1>6, <2>2, OneOwner DEF GoneOK, Removes
    <3> QED
      BY <1>3, <2>2, <3>1 DEF Writes, Removes
  <2>3. ~Writes(p, k)'
    BY <1>3 DEF Writes
  <2>4. /\ at[p] > 1 => File(k, "pub") = Absent
        /\ at[p] > 2 => File(k, "sec") = Absent
        /\ at[p] # 2 /\ File(k, "pub") = Absent => File(k, "sec") = Absent
        /\ k \in deleted => File(k, "pub") = Absent /\ File(k, "sec") = Absent
    BY <1>1, <2>1, <2>2 DEF PairOK
  <2>5. CASE kind \in FileKinds /\ File(k, kind) # Absent
    <3>1. /\ SetFile(k, kind, Absent) /\ at' = [at EXCEPT ![p] = at[p] + 1]
          /\ UNCHANGED <<pc, id, deleted>>
      BY <2>5 DEF RemoveFile
    <3>2. \A other \in FileKinds :
             File(k, other)' = IF other = kind THEN Absent ELSE File(k, other)
      BY <1>1, <2>5, <3>1, OneFile DEF File, FileOf
    <3>3. Removes(p, k)' /\ at'[p] = at[p] + 1
      BY <1>1, <3>1 DEF Removes, TypeOK
    <3>4. /\ at[p] = 1 => File(k, "pub")' = Absent
          /\ at[p] = 2 => File(k, "pub")' = Absent /\ File(k, "sec")' = Absent
          /\ at[p] # 3
          /\ k \in deleted =>
                File(k, "pub")' = Absent /\ File(k, "sec")' = Absent
      BY <1>1, <2>4, <2>5, <3>2
    <3> QED
      BY <1>1, <2>2, <2>3, <3>1, <3>3, <3>4 DEF PairOK
  <2>6. CASE ~(kind \in FileKinds /\ File(k, kind) # Absent)
    <3>1. Leave(p) /\ deleted' = deleted \cup {k} /\ UNCHANGED files
      BY <2>6 DEF RemoveFile
    <3>2. ~Removes(p, k)'
      BY <3>1 DEF Leave, Removes, TypeOK
    <3>3. File(k, "pub") = Absent /\ File(k, "sec") = Absent
      BY <1>1, <2>4, <2>6
    <3>4. File(k, "pub")' = Absent /\ File(k, "sec")' = Absent
      BY <3>1, <3>3 DEF File, FileOf
    <3> QED
      BY <2>2, <2>3, <3>2, <3>4 DEF PairOK
  <2> QED
    BY <2>5, <2>6
<1>7. ASSUME NEW j \in KeyIds, ~Repeated(j)'
      PROVE  PairOK(j)'
  <2>1. ~Repeated(j) /\ PairOK(j)
    BY <1>2, <1>7 DEF GoneOK, Repeated
  <2>2. CASE j # k
    <3>1. pc[p] # "idle"
      BY <1>1 DEF Removes
    <3> QED
      BY <1>1, <1>3, <1>4, <2>1, <2>2, <3>1, OthersStay
  <2> QED
    BY <1>6, <2>1, <2>2
<1> QED
  BY <1>5, <1>7 DEF GoneOK

\* The other steps do not touch a pair's files, nor the processes.
LEMMA OtherGone ==
  ASSUME GoneOK, UNCHANGED <<known, drawn, deleted, files, pc, id, at>>
  PROVE  GoneOK'
  BY DEF GoneOK, OwnersOK, PairOK, Writes, Removes, Repeated, File, FileOf

\* Files, maps and locals are well typed, every copy belongs to its id and a
\* deleted pair stays deleted.
THEOREM IndInvHolds == Spec => []IndInv
<1>1. Init => IndInv
  BY InitOK, InitGone DEF IndInv
<1>2. IndInv /\ [Next]_keyVars => IndInv'
  <2> SUFFICES ASSUME TypeOK, CopiesOK, GoneOK, [Next]_keyVars
               PROVE  GoneOK'
    BY StepOK DEF IndInv
  <2>1. CASE Tick \/ UNCHANGED keyVars
    BY <2>1, OtherGone DEF Tick, keyVars
  <2>2. CASE \E p \in Procs : \/ Register(p)
                              \/ \E k \in KeyIds, kind \in FileKinds :
                                    Get(p, k, kind)
    BY <2>2, OtherGone DEF Register, Get
  <2> QED
    BY <2>1, <2>2, NewKeysGone, WriteGone, RemoveGone, CallDeleteGone
    DEF Next
<1> QED
  BY <1>1, <1>2, PTL DEF Spec

\* When delete_keys has ended, by its exception, the key pair cannot be read
\* back, however many processes share the directory.
THEOREM DeletedPairGoneHolds == Spec => []DeletedPairGone
<1>1. IndInv => DeletedPairGone
  BY DEF IndInv, TypeOK, GoneOK, PairOK, DeletedPairGone
<1> QED
  BY <1>1, IndInvHolds, PTL
=============================================================================
