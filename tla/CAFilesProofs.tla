---------------------------- MODULE CAFilesProofs ----------------------------
(***************************************************************************)
(* The properties of CAFiles for any number of starts.                      *)
(*                                                                          *)
(* The argument: the key is created first and exclusively, so that whoever  *)
(* has created it is alone until it is through; the certificate comes after *)
(* the whole key and goes before it.                                        *)
(***************************************************************************)
EXTENDS CAFiles, TLAPS

-----------------------------------------------------------------------------
(***************************************************************************)
(* The inductive invariant.                                                 *)
(***************************************************************************)
Early == {"off", "no cert", "has cert", "create key"}

MakesKey == {"write key", "close key", "drop key"}

MakesCert == {"create cert", "write cert", "close cert", "drop cert", "undo"}

Makes(q) == pc[q] \in MakesKey \cup MakesCert

NoFileOf(q) ==
    /\ cert # None => cert.of # q
    /\ key # None => key.of # q

PairOf(q) == cert = File(q, TRUE) /\ key = File(q, TRUE)

\* What the files are while q creates its pair.
MakeInv(q) ==
    /\ pc[q] \in MakesKey => key \in {File(q, FALSE), File(q, TRUE)} /\ cert = None
    /\ pc[q] = "close key" => key = File(q, TRUE)
    /\ pc[q] \in MakesCert => key = File(q, TRUE)
    /\ pc[q] \in {"create cert", "undo"} => cert = None
    /\ pc[q] = "write cert" => cert = File(q, FALSE)
    /\ pc[q] = "close cert" => cert = File(q, TRUE)
    /\ pc[q] = "drop cert" =>
          \/ cert = File(q, FALSE)
          \/ cert = File(q, TRUE) /\ q \in unclosed

\* A certificate that appears after q has seen that there is none has its key.
CoverInv(q) ==
    pc[q] \in {"no cert", "create key"} =>
        cert = None \/ key = File(cert.of, TRUE)

\* The files of q appear when it creates them and, once it is through, only people
\* take them away.
OwnInv(q) ==
    /\ pc[q] \in Early => NoFileOf(q)
    /\ pc[q] \in {"load", "load key", "failed"} /\ q \notin deleted =>
          NoFileOf(q) \/ PairOf(q)

\* What q read is still there when q looks at the key.
ReadInv(q) ==
    /\ pc[q] \in {"load key", "running"} => read[q] \in Files
    /\ pc[q] = "running" => read[q].whole = TRUE
    /\ /\ pc[q] \in {"load key", "running"}
       /\ read[q].whole = TRUE
       /\ read[q].of \notin deleted \cup unclosed
       => cert = read[q] /\ key = read[q]

LocalInv(q) == MakeInv(q) /\ CoverInv(q) /\ OwnInv(q) /\ ReadInv(q)

IInv == TypeOK /\ KeyBeforeCert /\ \A q \in Starts : LocalInv(q)

-----------------------------------------------------------------------------
(***************************************************************************)
(* Lemmas.                                                                  *)
(***************************************************************************)
LEMMA FileFacts ==
    ASSUME NEW p \in Starts, NEW b \in BOOLEAN
    PROVE  /\ File(p, b) \in Files /\ File(p, b) # None
           /\ File(p, b).of = p /\ File(p, b).whole = b
  BY StartAssumption DEF File, Files

LEMMA FileIs ==
    ASSUME NEW f \in Files
    PROVE  /\ f # None /\ f.of \in Starts /\ f.whole \in BOOLEAN
           /\ f = File(f.of, f.whole)
  BY StartAssumption DEF File, Files

\* Two starts never create at a time.
LEMMA Alone ==
    ASSUME IInv, NEW p \in Starts, NEW q \in Starts, Makes(p), Makes(q)
    PROVE  p = q
  <1>1. MakeInv(p) /\ MakeInv(q)
    BY DEF IInv, LocalInv
  <1>2. key.of = p /\ key.of = q
    BY <1>1, FileFacts DEF MakeInv, Makes
  <1> QED
    BY <1>2

\* A start to which nothing happens, while the files stay, keeps its invariant.
LEMMA Elsewhere ==
    ASSUME NEW q, LocalInv(q), pc'[q] = pc[q], read'[q] = read[q],
           UNCHANGED <<cert, key>>, deleted \subseteq deleted', unclosed \subseteq unclosed'
    PROVE  LocalInv(q)'
  BY DEF LocalInv, MakeInv, CoverInv, OwnInv, ReadInv, NoFileOf, PairOf

LEMMA CoverKept ==
    ASSUME KeyBeforeCert, UNCHANGED <<cert, key, deleted>>
    PROVE  KeyBeforeCert'
  BY DEF KeyBeforeCert

LEMMA Initially == Init => IInv
  BY StartAssumption DEF Init, IInv, TypeOK, KeyBeforeCert, LocalInv, MakeInv, CoverInv,
     OwnInv, ReadInv, NoFileOf, PairOf, Early, MakesKey, MakesCert, Outside

LEMMA StatCertKeeps ==
    ASSUME IInv, NEW p \in Starts, StatCert(p)
    PROVE  IInv'
  <1> USE DEF StatCert, At, Goto, FilesUnchanged, history
  <1>1. TypeOK'
    BY DEF IInv, TypeOK, Outside
  <1>2. KeyBeforeCert'
    BY CoverKept DEF IInv
  <1>3. ASSUME NEW q \in Starts, q # p PROVE LocalInv(q)'
    BY <1>3, Elsewhere DEF IInv, TypeOK
  <1>4. LocalInv(p) /\ DOMAIN pc = Starts
    BY DEF IInv, TypeOK
  <1>5. MakeInv(p)'
    BY <1>4 DEF LocalInv, MakeInv, MakesKey, MakesCert
  <1>6. CoverInv(p)'
    BY <1>4 DEF LocalInv, MakeInv, CoverInv
  <1>7. OwnInv(p)'
    BY <1>4 DEF LocalInv, OwnInv, MakeInv, NoFileOf, PairOf, Early, MakesCert
  <1>8. ReadInv(p)'
    BY <1>4, FileIs DEF LocalInv, ReadInv, IInv, TypeOK, KeyBeforeCert
  <1> QED
    BY <1>1, <1>2, <1>3, <1>5, <1>6, <1>7, <1>8 DEF IInv, LocalInv

LEMMA StatKeyKeeps ==
    ASSUME IInv, NEW p \in Starts, StatKey(p)
    PROVE  IInv'
  <1> USE DEF StatKey, At, Goto, FilesUnchanged, history
  <1>1. TypeOK'
    BY DEF IInv, TypeOK, Outside
  <1>2. KeyBeforeCert'
    BY CoverKept DEF IInv
  <1>3. ASSUME NEW q \in Starts, q # p PROVE LocalInv(q)'
    BY <1>3, Elsewhere DEF IInv, TypeOK
  <1>4. LocalInv(p) /\ DOMAIN pc = Starts
    BY DEF IInv, TypeOK
  <1>5. MakeInv(p)'
    BY <1>4 DEF LocalInv, MakeInv, MakesKey, MakesCert
  <1>6. CoverInv(p)'
    BY <1>4 DEF LocalInv, MakeInv, CoverInv
  <1>7. OwnInv(p)'
    BY <1>4 DEF LocalInv, OwnInv, MakeInv, NoFileOf, PairOf, Early, MakesCert
  <1>8. ReadInv(p)'
    BY <1>4, FileIs DEF LocalInv, ReadInv, IInv, TypeOK, KeyBeforeCert
  <1> QED
    BY <1>1, <1>2, <1>3, <1>5, <1>6, <1>7, <1>8 DEF IInv, LocalInv

LEMMA CreateKeyFailsKeeps ==
    ASSUME IInv, NEW p \in Starts, CreateKeyFails(p)
    PROVE  IInv'
  <1> USE DEF CreateKeyFails, KeyAfterConflict, At, Goto, FilesUnchanged, history
  <1>1. TypeOK'
    BY DEF IInv, TypeOK, Outside
  <1>2. KeyBeforeCert'
    BY CoverKept DEF IInv
  <1>3. ASSUME NEW q \in Starts, q # p PROVE LocalInv(q)'
    BY <1>3, Elsewhere DEF IInv, TypeOK
  <1>4. LocalInv(p) /\ DOMAIN pc = Starts
    BY DEF IInv, TypeOK
  <1>5. MakeInv(p)'
    BY <1>4 DEF LocalInv, MakeInv, MakesKey, MakesCert
  <1>6. CoverInv(p)'
    BY <1>4 DEF LocalInv, MakeInv, CoverInv
  <1>7. OwnInv(p)'
    BY <1>4 DEF LocalInv, OwnInv, MakeInv, NoFileOf, PairOf, Early, MakesCert
  <1>8. ReadInv(p)'
    BY <1>4, FileIs DEF LocalInv, ReadInv, IInv, TypeOK, KeyBeforeCert
  <1> QED
    BY <1>1, <1>2, <1>3, <1>5, <1>6, <1>7, <1>8 DEF IInv, LocalInv

LEMMA CloseKeyKeeps ==
    ASSUME IInv, NEW p \in Starts, CloseKey(p)
    PROVE  IInv'
  <1> USE DEF CloseKey, At, Goto, FilesUnchanged, history
  <1>1. TypeOK'
    BY DEF IInv, TypeOK, Outside
  <1>2. KeyBeforeCert'
    BY CoverKept DEF IInv
  <1>3. ASSUME NEW q \in Starts, q # p PROVE LocalInv(q)'
    BY <1>3, Elsewhere DEF IInv, TypeOK
  <1>4. LocalInv(p) /\ DOMAIN pc = Starts
    BY DEF IInv, TypeOK
  <1>5. MakeInv(p)'
    BY <1>4 DEF LocalInv, MakeInv, MakesKey, MakesCert
  <1>6. CoverInv(p)'
    BY <1>4 DEF LocalInv, MakeInv, CoverInv
  <1>7. OwnInv(p)'
    BY <1>4 DEF LocalInv, OwnInv, MakeInv, NoFileOf, PairOf, Early, MakesCert
  <1>8. ReadInv(p)'
    BY <1>4, FileIs DEF LocalInv, ReadInv, IInv, TypeOK, KeyBeforeCert
  <1> QED
    BY <1>1, <1>2, <1>3, <1>5, <1>6, <1>7, <1>8 DEF IInv, LocalInv

LEMMA CloseCertKeeps ==
    ASSUME IInv, NEW p \in Starts, CloseCert(p)
    PROVE  IInv'
  <1> USE DEF CloseCert, At, Goto, FilesUnchanged, history
  <1>1. TypeOK'
    BY DEF IInv, TypeOK, Outside
  <1>2. KeyBeforeCert'
    BY CoverKept DEF IInv
  <1>3. ASSUME NEW q \in Starts, q # p PROVE LocalInv(q)'
    BY <1>3, Elsewhere DEF IInv, TypeOK
  <1>4. LocalInv(p) /\ DOMAIN pc = Starts
    BY DEF IInv, TypeOK
  <1>5. MakeInv(p)'
    BY <1>4 DEF LocalInv, MakeInv, MakesKey, MakesCert
  <1>6. CoverInv(p)'
    BY <1>4 DEF LocalInv, MakeInv, CoverInv
  <1>7. OwnInv(p)'
    BY <1>4 DEF LocalInv, OwnInv, MakeInv, NoFileOf, PairOf, Early, MakesCert
  <1>8. ReadInv(p)'
    BY <1>4, FileIs DEF LocalInv, ReadInv, IInv, TypeOK, KeyBeforeCert
  <1> QED
    BY <1>1, <1>2, <1>3, <1>5, <1>6, <1>7, <1>8 DEF IInv, LocalInv

LEMMA ReadCertKeeps ==
    ASSUME IInv, NEW p \in Starts, ReadCert(p)
    PROVE  IInv'
  <1> USE DEF ReadCert, At, Goto, FilesUnchanged, history
  <1>1. TypeOK'
    BY DEF IInv, TypeOK, Outside
  <1>2. KeyBeforeCert'
    BY CoverKept DEF IInv
  <1>3. ASSUME NEW q \in Starts, q # p PROVE LocalInv(q)'
    BY <1>3, Elsewhere DEF IInv, TypeOK
  <1>4. LocalInv(p) /\ DOMAIN pc = Starts
    BY DEF IInv, TypeOK
  <1>5. MakeInv(p)'
    BY <1>4 DEF LocalInv, MakeInv, MakesKey, MakesCert
  <1>6. CoverInv(p)'
    BY <1>4 DEF LocalInv, MakeInv, CoverInv
  <1>7. OwnInv(p)'
    BY <1>4 DEF LocalInv, OwnInv, MakeInv, NoFileOf, PairOf, Early, MakesCert
  <1>8. ReadInv(p)'
    BY <1>4, FileIs DEF LocalInv, ReadInv, IInv, TypeOK, KeyBeforeCert
  <1> QED
    BY <1>1, <1>2, <1>3, <1>5, <1>6, <1>7, <1>8 DEF IInv, LocalInv

LEMMA ReadKeyKeeps ==
    ASSUME IInv, NEW p \in Starts, ReadKey(p)
    PROVE  IInv'
  <1> USE DEF ReadKey, Pair, At, Goto, FilesUnchanged, history
  <1>1. TypeOK'
    BY DEF IInv, TypeOK, Outside
  <1>2. KeyBeforeCert'
    BY CoverKept DEF IInv
  <1>3. ASSUME NEW q \in Starts, q # p PROVE LocalInv(q)'
    BY <1>3, Elsewhere DEF IInv, TypeOK
  <1>4. LocalInv(p) /\ DOMAIN pc = Starts
    BY DEF IInv, TypeOK
  <1>5. MakeInv(p)'
    BY <1>4 DEF LocalInv, MakeInv, MakesKey, MakesCert
  <1>6. CoverInv(p)'
    BY <1>4 DEF LocalInv, MakeInv, CoverInv
  <1>7. OwnInv(p)'
    BY <1>4 DEF LocalInv, OwnInv, MakeInv, NoFileOf, PairOf, Early, MakesCert
  <1>8. ReadInv(p)'
    BY <1>4, FileIs DEF LocalInv, ReadInv, IInv, TypeOK, KeyBeforeCert
  <1> QED
    BY <1>1, <1>2, <1>3, <1>5, <1>6, <1>7, <1>8 DEF IInv, LocalInv

LEMMA StopKeeps ==
    ASSUME IInv, NEW p \in Starts, Stop(p)
    PROVE  IInv'
  <1> USE DEF Stop, At, Goto, FilesUnchanged, history
  <1>1. TypeOK'
    BY DEF IInv, TypeOK, Outside
  <1>2. KeyBeforeCert'
    BY CoverKept DEF IInv
  <1>3. ASSUME NEW q \in Starts, q # p PROVE LocalInv(q)'
    BY <1>3, Elsewhere DEF IInv, TypeOK
  <1>4. LocalInv(p) /\ DOMAIN pc = Starts
    BY DEF IInv, TypeOK
  <1>5. MakeInv(p)'
    BY <1>4 DEF LocalInv, MakeInv, MakesKey, MakesCert
  <1>6. CoverInv(p)'
    BY <1>4 DEF LocalInv, MakeInv, CoverInv
  <1>7. OwnInv(p)'
    BY <1>4 DEF LocalInv, OwnInv, MakeInv, NoFileOf, PairOf, Early, MakesCert
  <1>8. ReadInv(p)'
    BY <1>4, FileIs DEF LocalInv, ReadInv, IInv, TypeOK, KeyBeforeCert
  <1> QED
    BY <1>1, <1>2, <1>3, <1>5, <1>6, <1>7, <1>8 DEF IInv, LocalInv

LEMMA CreateKeyKeeps ==
    ASSUME IInv, NEW p \in Starts, CreateKey(p)
    PROVE  IInv'
  <1> USE DEF CreateKey, MayCreate, At, Goto, history
  <1> LocalInv(p) /\ TypeOK /\ DOMAIN pc = Starts
    BY DEF IInv, TypeOK
  <1> cert = None
    BY FileFacts, FileIs DEF LocalInv, CoverInv, TypeOK
  <1>1. TypeOK'
    BY FileFacts DEF TypeOK, Outside
  <1>2. KeyBeforeCert'
    BY FileFacts DEF IInv, KeyBeforeCert, LocalInv, MakeInv, CoverInv, MakesKey, MakesCert
  <1>3. ASSUME NEW q \in Starts, q # p PROVE LocalInv(q)'
    <2>1. LocalInv(q) /\ pc'[q] = pc[q] /\ UNCHANGED <<read, deleted, unclosed>>
      BY <1>3 DEF IInv, TypeOK
    <2>2. pc[q] \notin MakesKey \cup MakesCert
      BY <1>3, <2>1, Alone, FileFacts DEF Makes, MakesKey, MakesCert, LocalInv, MakeInv
    <2>3. MakeInv(q)'
      BY <2>1, <2>2 DEF MakeInv, MakesKey, MakesCert
    <2>4. CoverInv(q)'
      BY <2>1, FileFacts DEF LocalInv, CoverInv, MakeInv, MakesKey, MakesCert
    <2>5. OwnInv(q)'
      BY <1>3, <2>1, FileFacts DEF LocalInv, OwnInv, MakeInv, NoFileOf, PairOf, MakesKey, MakesCert
    <2>6. ReadInv(q)'
      BY <1>3, <2>1, FileFacts, FileIs DEF LocalInv, ReadInv, MakeInv, MakesKey, MakesCert
    <2> QED
      BY <2>3, <2>4, <2>5, <2>6 DEF LocalInv
  <1>5. MakeInv(p)'
    BY FileFacts DEF LocalInv, MakeInv, CoverInv, MakesKey, MakesCert
  <1>6. CoverInv(p)'
    BY DEF CoverInv
  <1>7. OwnInv(p)'
    BY FileFacts DEF LocalInv, OwnInv, MakeInv, NoFileOf, PairOf, Early, MakesKey, MakesCert
  <1>8. ReadInv(p)'
    BY DEF ReadInv
  <1> QED
    BY <1>1, <1>2, <1>3, <1>5, <1>6, <1>7, <1>8 DEF IInv, LocalInv

LEMMA WriteKeyKeeps ==
    ASSUME IInv, NEW p \in Starts, WriteKey(p)
    PROVE  IInv'
  <1> USE DEF WriteKey, At, Goto, history
  <1> LocalInv(p) /\ TypeOK /\ DOMAIN pc = Starts
    BY DEF IInv, TypeOK
  <1>1. TypeOK'
    BY FileFacts, ZenonT(40) DEF TypeOK, Outside
  <1>2. KeyBeforeCert'
    BY FileFacts DEF IInv, KeyBeforeCert, LocalInv, MakeInv, CoverInv, MakesKey, MakesCert
  <1>3. ASSUME NEW q \in Starts, q # p PROVE LocalInv(q)'
    <2>1. LocalInv(q) /\ pc'[q] = pc[q] /\ UNCHANGED <<read, deleted, unclosed>>
      BY <1>3 DEF IInv, TypeOK
    <2>2. pc[q] \notin MakesKey \cup MakesCert
      BY <1>3, <2>1, Alone, FileFacts DEF Makes, MakesKey, MakesCert, LocalInv, MakeInv
    <2>3. MakeInv(q)'
      BY <2>1, <2>2 DEF MakeInv, MakesKey, MakesCert
    <2>4. CoverInv(q)'
      BY <2>1, FileFacts DEF LocalInv, CoverInv, MakeInv, MakesKey, MakesCert
    <2>5. OwnInv(q)'
      <3>1. key # None /\ key.of = p /\ key' # None /\ key'.of = p /\ UNCHANGED cert
        <4>1. File(p, TRUE) # None /\ File(p, FALSE) # None
              /\ File(p, TRUE).of = p /\ File(p, FALSE).of = p
          BY FileFacts
        <4>2. key = File(p, FALSE) \/ key = File(p, TRUE)
          BY DEF LocalInv, MakeInv, MakesKey
        <4>3. (key' = File(p, TRUE) \/ key' = key) /\ cert' = cert
          OBVIOUS
        <4> QED
          BY <4>1, <4>2, <4>3
      <3>2. ~PairOf(q)
        BY <1>3, <3>1, FileFacts DEF PairOf
      <3> QED
        BY <1>3, <2>1, <3>1, <3>2 DEF LocalInv, OwnInv, NoFileOf
    <2>6. ReadInv(q)'
      BY <1>3, <2>1, FileFacts, FileIs DEF LocalInv, ReadInv, MakeInv, MakesKey, MakesCert
    <2> QED
      BY <2>3, <2>4, <2>5, <2>6 DEF LocalInv
  <1>5. MakeInv(p)'
    BY FileFacts DEF LocalInv, MakeInv, CoverInv, MakesKey, MakesCert
  <1>6. CoverInv(p)'
    BY DEF CoverInv
  <1>7. OwnInv(p)'
    BY FileFacts DEF LocalInv, OwnInv, MakeInv, NoFileOf, PairOf, Early, MakesKey, MakesCert
  <1>8. ReadInv(p)'
    BY DEF ReadInv
  <1> QED
    BY <1>1, <1>2, <1>3, <1>5, <1>6, <1>7, <1>8 DEF IInv, LocalInv

LEMMA DropKeyKeeps ==
    ASSUME IInv, NEW p \in Starts, DropKey(p)
    PROVE  IInv'
  <1> USE DEF DropKey, At, Goto, history
  <1> LocalInv(p) /\ TypeOK /\ DOMAIN pc = Starts
    BY DEF IInv, TypeOK
  <1>1. TypeOK'
    BY FileFacts DEF TypeOK, Outside
  <1>2. KeyBeforeCert'
    BY FileFacts DEF IInv, KeyBeforeCert, LocalInv, MakeInv, CoverInv, MakesKey, MakesCert
  <1>3. ASSUME NEW q \in Starts, q # p PROVE LocalInv(q)'
    <2>1. LocalInv(q) /\ pc'[q] = pc[q] /\ UNCHANGED <<read, deleted, unclosed>>
      BY <1>3 DEF IInv, TypeOK
    <2>2. pc[q] \notin MakesKey \cup MakesCert
      BY <1>3, <2>1, Alone, FileFacts DEF Makes, MakesKey, MakesCert, LocalInv, MakeInv
    <2>3. MakeInv(q)'
      BY <2>1, <2>2 DEF MakeInv, MakesKey, MakesCert
    <2>4. CoverInv(q)'
      BY <2>1, FileFacts DEF LocalInv, CoverInv, MakeInv, MakesKey, MakesCert
    <2>5. OwnInv(q)'
      BY <1>3, <2>1, FileFacts DEF LocalInv, OwnInv, MakeInv, NoFileOf, PairOf, MakesKey, MakesCert
    <2>6. ReadInv(q)'
      BY <1>3, <2>1, FileFacts, FileIs DEF LocalInv, ReadInv, MakeInv, MakesKey, MakesCert
    <2> QED
      BY <2>3, <2>4, <2>5, <2>6 DEF LocalInv
  <1>5. MakeInv(p)'
    BY FileFacts DEF LocalInv, MakeInv, CoverInv, MakesKey, MakesCert
  <1>6. CoverInv(p)'
    BY DEF CoverInv
  <1>7. OwnInv(p)'
    BY FileFacts DEF LocalInv, OwnInv, MakeInv, NoFileOf, PairOf, Early, MakesKey, MakesCert
  <1>8. ReadInv(p)'
    BY DEF ReadInv
  <1> QED
    BY <1>1, <1>2, <1>3, <1>5, <1>6, <1>7, <1>8 DEF IInv, LocalInv

LEMMA CreateCertKeeps ==
    ASSUME IInv, NEW p \in Starts, CreateCert(p)
    PROVE  IInv'
  <1> USE DEF CreateCert, MayCreate, At, Goto, history
  <1> LocalInv(p) /\ TypeOK /\ DOMAIN pc = Starts
    BY DEF IInv, TypeOK
  <1>1. TypeOK'
    BY FileFacts, ZenonT(40) DEF TypeOK, Outside
  <1>2. KeyBeforeCert'
    BY FileFacts DEF IInv, KeyBeforeCert, LocalInv, MakeInv, CoverInv, MakesKey, MakesCert
  <1>3. ASSUME NEW q \in Starts, q # p PROVE LocalInv(q)'
    <2>1. LocalInv(q) /\ pc'[q] = pc[q] /\ UNCHANGED <<read, deleted, unclosed>>
      BY <1>3 DEF IInv, TypeOK
    <2>2. pc[q] \notin MakesKey \cup MakesCert
      BY <1>3, <2>1, Alone, FileFacts DEF Makes, MakesKey, MakesCert, LocalInv, MakeInv
    <2>3. MakeInv(q)'
      BY <2>1, <2>2 DEF MakeInv, MakesKey, MakesCert
    <2>4. CoverInv(q)'
      BY <2>1, FileFacts DEF LocalInv, CoverInv, MakeInv, MakesKey, MakesCert
    <2>5. OwnInv(q)'
      BY <1>3, <2>1, FileFacts, ZenonT(40) DEF LocalInv, OwnInv, MakeInv, NoFileOf, PairOf, MakesKey, MakesCert
    <2>6. ReadInv(q)'
      BY <1>3, <2>1, FileFacts, FileIs DEF LocalInv, ReadInv, MakeInv, MakesKey, MakesCert
    <2> QED
      BY <2>3, <2>4, <2>5, <2>6 DEF LocalInv
  <1>5. MakeInv(p)'
    BY FileFacts DEF LocalInv, MakeInv, CoverInv, MakesKey, MakesCert
  <1>6. CoverInv(p)'
    BY DEF CoverInv
  <1>7. OwnInv(p)'
    BY FileFacts DEF LocalInv, OwnInv, MakeInv, NoFileOf, PairOf, Early, MakesKey, MakesCert
  <1>8. ReadInv(p)'
    BY DEF ReadInv
  <1> QED
    BY <1>1, <1>2, <1>3, <1>5, <1>6, <1>7, <1>8 DEF IInv, LocalInv

LEMMA WriteCertKeeps ==
    ASSUME IInv, NEW p \in Starts, WriteCert(p)
    PROVE  IInv'
  <1> USE DEF WriteCert, At, Goto, history
  <1> LocalInv(p) /\ TypeOK /\ DOMAIN pc = Starts
    BY DEF IInv, TypeOK
  <1>1. TypeOK'
    BY FileFacts, ZenonT(40) DEF TypeOK, Outside
  <1>2. KeyBeforeCert'
    BY FileFacts DEF IInv, KeyBeforeCert, LocalInv, MakeInv, CoverInv, MakesKey, MakesCert
  <1>3. ASSUME NEW q \in Starts, q # p PROVE LocalInv(q)'
    <2>1. LocalInv(q) /\ pc'[q] = pc[q] /\ UNCHANGED <<read, deleted, unclosed>>
      BY <1>3 DEF IInv, TypeOK
    <2>2. pc[q] \notin MakesKey \cup MakesCert
      BY <1>3, <2>1, Alone, FileFacts DEF Makes, MakesKey, MakesCert, LocalInv, MakeInv
    <2>3. MakeInv(q)'
      BY <2>1, <2>2 DEF MakeInv, MakesKey, MakesCert
    <2>4. CoverInv(q)'
      BY <2>1, FileFacts DEF LocalInv, CoverInv, MakeInv, MakesKey, MakesCert
    <2>5. OwnInv(q)'
      <3>1. cert # None /\ cert.of = p /\ cert' # None /\ cert'.of = p /\ UNCHANGED key
        <4>1. File(p, TRUE) # None /\ File(p, FALSE) # None
              /\ File(p, TRUE).of = p /\ File(p, FALSE).of = p
          BY FileFacts
        <4>2. cert = File(p, FALSE) \/ cert = File(p, TRUE)
          BY DEF LocalInv, MakeInv, MakesCert
        <4>3. (cert' = File(p, TRUE) \/ cert' = cert) /\ key' = key
          OBVIOUS
        <4> QED
          BY <4>1, <4>2, <4>3
      <3>2. ~PairOf(q)
        BY <1>3, <3>1, FileFacts DEF PairOf
      <3> QED
        BY <1>3, <2>1, <3>1, <3>2 DEF LocalInv, OwnInv, NoFileOf
    <2>6. ReadInv(q)'
      <3> DEFINE file == read[q]
      <3>1. pc[q] \in {"load key", "running"} /\ file.whole = TRUE
              /\ file.of \notin deleted \cup unclosed => cert = file
        BY <2>1 DEF LocalInv, ReadInv
      <3>2. cert.whole = FALSE \/ cert.of \in unclosed
        BY FileFacts DEF LocalInv, MakeInv
      <3>3. ~(pc[q] \in {"load key", "running"} /\ file.whole = TRUE
              /\ file.of \notin deleted \cup unclosed)
        BY <3>1, <3>2
      <3> QED
        BY <2>1, <3>3 DEF LocalInv, ReadInv
    <2> QED
      BY <2>3, <2>4, <2>5, <2>6 DEF LocalInv
  <1>5. MakeInv(p)'
    BY FileFacts DEF LocalInv, MakeInv, CoverInv, MakesKey, MakesCert
  <1>6. CoverInv(p)'
    BY DEF CoverInv
  <1>7. OwnInv(p)'
    BY FileFacts DEF LocalInv, OwnInv, MakeInv, NoFileOf, PairOf, Early, MakesKey, MakesCert
  <1>8. ReadInv(p)'
    BY DEF ReadInv
  <1> QED
    BY <1>1, <1>2, <1>3, <1>5, <1>6, <1>7, <1>8 DEF IInv, LocalInv

LEMMA DropCertKeeps ==
    ASSUME IInv, NEW p \in Starts, DropCert(p)
    PROVE  IInv'
  <1> USE DEF DropCert, At, Goto, history
  <1> LocalInv(p) /\ TypeOK /\ DOMAIN pc = Starts
    BY DEF IInv, TypeOK
  <1>1. TypeOK'
    BY FileFacts DEF TypeOK, Outside
  <1>2. KeyBeforeCert'
    BY FileFacts DEF IInv, KeyBeforeCert, LocalInv, MakeInv, CoverInv, MakesKey, MakesCert
  <1>3. ASSUME NEW q \in Starts, q # p PROVE LocalInv(q)'
    <2>1. LocalInv(q) /\ pc'[q] = pc[q] /\ UNCHANGED <<read, deleted, unclosed>>
      BY <1>3 DEF IInv, TypeOK
    <2>2. pc[q] \notin MakesKey \cup MakesCert
      BY <1>3, <2>1, Alone, FileFacts DEF Makes, MakesKey, MakesCert, LocalInv, MakeInv
    <2>3. MakeInv(q)'
      BY <2>1, <2>2 DEF MakeInv, MakesKey, MakesCert
    <2>4. CoverInv(q)'
      BY <2>1, FileFacts DEF LocalInv, CoverInv, MakeInv, MakesKey, MakesCert
    <2>5. OwnInv(q)'
      BY <1>3, <2>1, FileFacts DEF LocalInv, OwnInv, MakeInv, NoFileOf, PairOf, MakesKey, MakesCert
    <2>6. ReadInv(q)'
      <3> DEFINE file == read[q]
      <3>1. pc[q] \in {"load key", "running"} /\ file.whole = TRUE
              /\ file.of \notin deleted \cup unclosed => cert = file
        BY <2>1 DEF LocalInv, ReadInv
      <3>2. cert.whole = FALSE \/ cert.of \in unclosed
        BY FileFacts, ZenonT(40) DEF LocalInv, MakeInv
      <3>3. ~(pc[q] \in {"load key", "running"} /\ file.whole = TRUE
              /\ file.of \notin deleted \cup unclosed)
        BY <3>1, <3>2
      <3> QED
        BY <2>1, <3>3 DEF LocalInv, ReadInv
    <2> QED
      BY <2>3, <2>4, <2>5, <2>6 DEF LocalInv
  <1>5. MakeInv(p)'
    BY FileFacts DEF LocalInv, MakeInv, CoverInv, MakesKey, MakesCert
  <1>6. CoverInv(p)'
    BY DEF CoverInv
  <1>7. OwnInv(p)'
    BY FileFacts DEF LocalInv, OwnInv, MakeInv, NoFileOf, PairOf, Early, MakesKey, MakesCert
  <1>8. ReadInv(p)'
    BY DEF ReadInv
  <1> QED
    BY <1>1, <1>2, <1>3, <1>5, <1>6, <1>7, <1>8 DEF IInv, LocalInv

LEMMA UndoKeeps ==
    ASSUME IInv, NEW p \in Starts, Undo(p)
    PROVE  IInv'
  <1> USE DEF Undo, KeyAfterUndo, At, Goto, history
  <1> LocalInv(p) /\ TypeOK /\ DOMAIN pc = Starts
    BY DEF IInv, TypeOK
  <1>1. TypeOK'
    BY FileFacts DEF TypeOK, Outside
  <1>2. KeyBeforeCert'
    BY FileFacts DEF IInv, KeyBeforeCert, LocalInv, MakeInv, CoverInv, MakesKey, MakesCert
  <1>3. ASSUME NEW q \in Starts, q # p PROVE LocalInv(q)'
    <2>1. LocalInv(q) /\ pc'[q] = pc[q] /\ UNCHANGED <<read, deleted, unclosed>>
      BY <1>3 DEF IInv, TypeOK
    <2>2. pc[q] \notin MakesKey \cup MakesCert
      BY <1>3, <2>1, Alone, FileFacts DEF Makes, MakesKey, MakesCert, LocalInv, MakeInv
    <2>3. MakeInv(q)'
      BY <2>1, <2>2 DEF MakeInv, MakesKey, MakesCert
    <2>4. CoverInv(q)'
      BY <2>1, FileFacts DEF LocalInv, CoverInv, MakeInv, MakesKey, MakesCert
    <2>5. OwnInv(q)'
      BY <1>3, <2>1, FileFacts DEF LocalInv, OwnInv, MakeInv, NoFileOf, PairOf, MakesKey, MakesCert
    <2>6. ReadInv(q)'
      BY <1>3, <2>1, FileFacts, FileIs DEF LocalInv, ReadInv, MakeInv, MakesKey, MakesCert
    <2> QED
      BY <2>3, <2>4, <2>5, <2>6 DEF LocalInv
  <1>5. MakeInv(p)'
    BY FileFacts DEF LocalInv, MakeInv, CoverInv, MakesKey, MakesCert
  <1>6. CoverInv(p)'
    BY DEF CoverInv
  <1>7. OwnInv(p)'
    BY FileFacts DEF LocalInv, OwnInv, MakeInv, NoFileOf, PairOf, Early, MakesKey, MakesCert
  <1>8. ReadInv(p)'
    BY DEF ReadInv
  <1> QED
    BY <1>1, <1>2, <1>3, <1>5, <1>6, <1>7, <1>8 DEF IInv, LocalInv

LEMMA DeleteKeeps ==
    ASSUME IInv, DeleteCert \/ DeleteKey
    PROVE  IInv'
  <1> USE DEF DeleteCert, DeleteKey
  <1>1. TypeOK'
    BY FileIs DEF IInv, TypeOK
  <1>2. KeyBeforeCert'
    <2>1. CASE DeleteCert
      BY <2>1 DEF KeyBeforeCert
    <2>2. CASE DeleteKey
      <3>1. UNCHANGED cert /\ deleted' = deleted \cup {key.of}
        BY <2>2
      <3>2. ASSUME cert # None, key = File(cert.of, TRUE) PROVE key.of = cert.of
        BY <3>2, FileFacts, FileIs DEF IInv, TypeOK
      <3> QED
        BY <3>1, <3>2 DEF IInv, KeyBeforeCert
    <2> QED
      BY <2>1, <2>2
  <1>3. ASSUME NEW q \in Starts PROVE LocalInv(q)'
    <2>1. pc[q] \in Outside /\ UNCHANGED <<pc, read, unclosed>> /\ LocalInv(q)
      BY DEF NobodyStarts, IInv
    <2>2. MakeInv(q)' /\ CoverInv(q)'
      BY <2>1 DEF MakeInv, CoverInv, MakesKey, MakesCert, Outside
    <2>3. OwnInv(q)'
      BY <2>1, FileFacts DEF OwnInv, NoFileOf, PairOf, LocalInv
    <2>4. ReadInv(q)'
      BY <2>1 DEF ReadInv, LocalInv, Outside
    <2> QED
      BY <2>2, <2>3, <2>4 DEF LocalInv
  <1> QED
    BY <1>1, <1>2, <1>3 DEF IInv

LEMMA StutterKeeps ==
    ASSUME IInv, UNCHANGED vars
    PROVE  IInv'
  <1> USE DEF vars, history
  <1>1. TypeOK' /\ KeyBeforeCert'
    BY DEF IInv, TypeOK, KeyBeforeCert
  <1>2. ASSUME NEW q \in Starts PROVE LocalInv(q)'
    BY Elsewhere DEF IInv
  <1> QED
    BY <1>1, <1>2 DEF IInv

-----------------------------------------------------------------------------
(***************************************************************************)
(* The theorems.                                                            *)
(***************************************************************************)
\* The invariant holds whatever starts, failures, stops and people do.
THEOREM Invariance == Spec => []IInv
  <1>1. IInv /\ [Next]_vars => IInv'
    BY StatCertKeeps, StatKeyKeeps, CreateKeyKeeps, CreateKeyFailsKeeps, WriteKeyKeeps,
       CloseKeyKeeps, DropKeyKeeps, CreateCertKeeps, WriteCertKeeps, CloseCertKeeps,
       DropCertKeeps, UndoKeeps, ReadCertKeeps, ReadKeyKeeps, StopKeeps, DeleteKeeps,
       StutterKeeps
    DEF Next, Step, Create
  <1> QED
    BY Initially, <1>1, PTL DEF Spec

\* Every variable keeps its sort.
THEOREM TypeCorrect == Spec => []TypeOK
  <1>1. IInv => TypeOK
    BY DEF IInv
  <1> QED
    BY Invariance, <1>1, PTL

\* writePair puts the whole key before the certificate and takes it away after it,
\* so that a certificate never stands without its key unless a person deleted it.
THEOREM KeyFirst == Spec => []KeyBeforeCert
  <1>1. IInv => KeyBeforeCert
    BY DEF IInv
  <1> QED
    BY Invariance, <1>1, PTL

\* A start that returns an error has its pair on the disk or nothing of it.
THEOREM NoHalfLeft == Spec => []FailedLeavesNoHalf
  <1>1. IInv => FailedLeavesNoHalf
    <2> SUFFICES ASSUME IInv, NEW p \in Starts, At(p, "failed"), p \notin deleted,
                        ~PairOf(p), NEW file \in {cert, key} \ {None}
                 PROVE  file.of # p
      BY DEF FailedLeavesNoHalf, PairOf
    <2>1. NoFileOf(p)
      BY DEF IInv, LocalInv, OwnInv, At
    <2> QED
      BY <2>1 DEF NoFileOf
  <1> QED
    BY Invariance, <1>1, PTL

\* What a running proxy has loaded is what its CA files hold.
THEOREM InUse == Spec => []UsedKept
  <1>1. IInv => UsedKept
    BY DEF IInv, LocalInv, ReadInv, UsedKept, At
  <1> QED
    BY Invariance, <1>1, PTL
=============================================================================
