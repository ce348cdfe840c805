------------------------------- MODULE CAFiles -------------------------------
(***************************************************************************)
(* The two files of a proxy's certificate authority: LoadOrCreate of        *)
(* internal/pki/pki.go, which every start of hamsterd and lemmingd calls.   *)
(*                                                                          *)
(* A process is one start, and its name stands for the key pair that it     *)
(* generates, if it does.  A file tells whose pair it is of and whether it  *)
(* has all its bytes.  Each call of the file system is a step, and a        *)
(* process may stop between any two.  People delete a file, as the error    *)
(* messages ask, when no process is starting.  Removing a file does not     *)
(* fail.                                                                    *)
(***************************************************************************)
CONSTANTS
    Starts,   \* processes
    Failing,  \* file operations that may fail
    None

\* A file: whose pair it is of, and whether it has all its bytes.
Files == [of : Starts, whole : BOOLEAN]

ASSUME StartAssumption ==
    /\ None \notin Starts \cup Files
    /\ Failing \subseteq {"create", "write", "close", "load"}

VARIABLES
    cert,    \* the file of the certificate, or None
    key,     \* the file of the private key, or None
    pc,      \* where each start is
    read,    \* the certificate file that it read, or None
    deleted, \* history: the pairs of which people deleted a file
    unclosed \* history: the starts whose certificate could not be closed

history == <<deleted, unclosed>>
vars == <<cert, key, pc, read, history>>

File(p, whole) == [of |-> p, whole |-> whole]

Init ==
    /\ cert = None /\ key = None
    /\ pc = [p \in Starts |-> "off"]
    /\ read = [p \in Starts |-> None]
    /\ deleted = {} /\ unclosed = {}

At(p, l)   == pc[p] = l
Goto(p, l) == pc' = [pc EXCEPT ![p] = l]

(***************************************************************************)
(* Helpers.  A definition named Bug... is its successor with a mistake that *)
(* the properties have to notice; no action uses it.                        *)
(***************************************************************************)
\* O_EXCL.
BugTruncates(file) == TRUE

MayCreate(file) == file = None

\* What is left of the key when its file cannot be created.
BugCleansUp == None

KeyAfterConflict == key

\* A failed certificate takes the key of its pair with it.
BugKeyStays == key

KeyAfterUndo == None

\* tls.X509KeyPair
Pair(c, k) == c # None /\ k # None /\ c.whole /\ k.whole /\ c.of = k.of

(***************************************************************************)
(* LoadOrCreate                                                             *)
(***************************************************************************)
FilesUnchanged == UNCHANGED <<cert, key>>

\* exists(certPath)
StatCert(p) ==
    /\ At(p, "off")
    /\ Goto(p, IF cert = None THEN "no cert" ELSE "has cert")
    /\ FilesUnchanged /\ UNCHANGED <<read, history>>

\* exists(keyPath): both are there, none is, or the start is refused.
StatKey(p) ==
    /\ \/ At(p, "has cert") /\ Goto(p, IF key = None THEN "failed" ELSE "load")
       \/ At(p, "no cert")  /\ Goto(p, IF key = None THEN "create key" ELSE "failed")
    /\ FilesUnchanged /\ UNCHANGED <<read, history>>

(***************************************************************************)
(* writePair and writeExclusive                                             *)
(***************************************************************************)
CreateKey(p) ==
    /\ At(p, "create key") /\ MayCreate(key)
    /\ key' = File(p, FALSE)
    /\ Goto(p, "write key")
    /\ UNCHANGED <<cert, read, history>>

CreateKeyFails(p) ==
    /\ At(p, "create key")
    /\ key # None \/ "create" \in Failing
    /\ key' = KeyAfterConflict
    /\ Goto(p, "failed")
    /\ UNCHANGED <<cert, read, history>>

\* The bytes are there before the file is closed.
WriteKey(p) ==
    /\ At(p, "write key")
    /\ \/ key' = File(p, TRUE) /\ Goto(p, "close key")
       \/ "write" \in Failing /\ UNCHANGED key /\ Goto(p, "drop key")
    /\ UNCHANGED <<cert, read, history>>

CloseKey(p) ==
    /\ At(p, "close key")
    /\ \/ Goto(p, "create cert")
       \/ "close" \in Failing /\ Goto(p, "drop key")
    /\ FilesUnchanged /\ UNCHANGED <<read, history>>

DropKey(p) ==
    /\ At(p, "drop key")
    /\ key' = None
    /\ Goto(p, "failed")
    /\ UNCHANGED <<cert, read, history>>

CreateCert(p) ==
    /\ At(p, "create cert")
    /\ \/ /\ MayCreate(cert)
          /\ cert' = File(p, FALSE) /\ Goto(p, "write cert")
       \/ /\ cert # None \/ "create" \in Failing
          /\ UNCHANGED cert /\ Goto(p, "undo")
    /\ UNCHANGED <<key, read, history>>

WriteCert(p) ==
    /\ At(p, "write cert")
    /\ \/ cert' = File(p, TRUE) /\ Goto(p, "close cert")
       \/ "write" \in Failing /\ UNCHANGED cert /\ Goto(p, "drop cert")
    /\ UNCHANGED <<key, read, history>>

CloseCert(p) ==
    /\ At(p, "close cert")
    /\ \/ Goto(p, "load") /\ UNCHANGED unclosed
       \/ /\ "close" \in Failing
          /\ Goto(p, "drop cert")
          /\ unclosed' = unclosed \cup {p}
    /\ FilesUnchanged /\ UNCHANGED <<read, deleted>>

DropCert(p) ==
    /\ At(p, "drop cert")
    /\ cert' = None
    /\ Goto(p, "undo")
    /\ UNCHANGED <<key, read, history>>

Undo(p) ==
    /\ At(p, "undo")
    /\ key' = KeyAfterUndo
    /\ Goto(p, "failed")
    /\ UNCHANGED <<cert, read, history>>

(***************************************************************************)
(* load                                                                     *)
(***************************************************************************)
ReadCert(p) ==
    /\ At(p, "load")
    /\ read' = [read EXCEPT ![p] = cert]
    /\ Goto(p, IF cert = None THEN "failed" ELSE "load key")
    /\ FilesUnchanged /\ UNCHANGED history

\* The pair is used, or refused: it does not match or cannot be parsed, it is
\* expired or a known public one, or the key cannot be secured.
ReadKey(p) ==
    /\ At(p, "load key")
    /\ \/ Pair(read[p], key) /\ Goto(p, "running")
       \/ /\ ~Pair(read[p], key) \/ "load" \in Failing
          /\ Goto(p, "failed")
    /\ FilesUnchanged /\ UNCHANGED <<read, history>>

(***************************************************************************)
(* Stops and people                                                         *)
(***************************************************************************)
Outside == {"off", "running", "failed", "stopped"}

Stop(p) ==
    /\ pc[p] \notin {"off", "failed", "stopped"}
    /\ Goto(p, "stopped")
    /\ FilesUnchanged /\ UNCHANGED <<read, history>>

NobodyStarts == \A p \in Starts : pc[p] \in Outside

DeleteCert ==
    /\ NobodyStarts /\ cert # None
    /\ cert' = None
    /\ deleted' = deleted \cup {cert.of}
    /\ UNCHANGED <<key, pc, read, unclosed>>

DeleteKey ==
    /\ NobodyStarts /\ key # None
    /\ key' = None
    /\ deleted' = deleted \cup {key.of}
    /\ UNCHANGED <<cert, pc, read, unclosed>>

-----------------------------------------------------------------------------
Create(p) ==
    \/ CreateKey(p) \/ CreateKeyFails(p) \/ WriteKey(p) \/ CloseKey(p) \/ DropKey(p)
    \/ CreateCert(p) \/ WriteCert(p) \/ CloseCert(p) \/ DropCert(p) \/ Undo(p)

Step(p) ==
    StatCert(p) \/ StatKey(p) \/ Create(p) \/ ReadCert(p) \/ ReadKey(p) \/ Stop(p)

Next ==
    \/ \E p \in Starts : Step(p)
    \/ DeleteCert \/ DeleteKey

Spec == Init /\ [][Next]_vars

-----------------------------------------------------------------------------
(***************************************************************************)
(* Properties                                                               *)
(***************************************************************************)
\* The sorts of the variables.
TypeOK ==
    /\ cert \in Files \cup {None} /\ key \in Files \cup {None}
    /\ pc \in [Starts -> Outside \cup
                 {"no cert", "has cert", "create key", "write key", "close key",
                  "drop key", "create cert", "write cert", "close cert",
                  "drop cert", "undo", "load", "load key"}]
    /\ read \in [Starts -> Files \cup {None}]
    /\ deleted \subseteq Starts /\ unclosed \subseteq Starts

\* A certificate is on the disk only with the whole key of its pair, unless a
\* person deleted the key: at every instant of several first starts at a time, and
\* wherever one of them stops.
KeyBeforeCert ==
    cert # None => key = File(cert.of, TRUE) \/ cert.of \in deleted

\* A start that ends with an error leaves its pair or nothing behind, so that the
\* next start is not refused because of it.
FailedLeavesNoHalf ==
    \A p \in Starts :
        At(p, "failed") /\ p \notin deleted =>
            \/ cert = File(p, TRUE) /\ key = File(p, TRUE)
            \/ \A file \in {cert, key} \ {None} : file.of # p

\* The files that a running proxy was started with stay until a person deletes one:
\* no other start that fails takes them away, and all running proxies have one CA.
\* The exception is a pair whose last Close failed: its maker takes it back, although
\* the file has all its bytes and may have been loaded.
UsedKept ==
    \A p \in Starts :
        At(p, "running") /\ read[p].of \notin deleted \cup unclosed =>
            cert = read[p] /\ key = read[p]
=============================================================================
