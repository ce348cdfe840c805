------------------------------ MODULE LeafIssuer ------------------------------
(***************************************************************************)
(* The certificates that an intercepting proxy signs for the hosts of its   *)
(* clients (internal/pki/leaf.go): the table of Issuer, the generations in  *)
(* progress and the calls that wait for them.                               *)
(*                                                                          *)
(* A call of Certificate is one TLS handshake.  An entry of the table is    *)
(* named by the call that generates it, since a call returns after its      *)
(* generation.  Each critical section of Issuer.mu is one step: nothing in  *)
(* it waits.  sign is two steps, the reading of the clock and the end of    *)
(* the computation, because others go on in between.  Keys, serial numbers  *)
(* and the fields of X.509 are left out; a certificate is its host and its  *)
(* last instant.                                                            *)
(***************************************************************************)
EXTENDS Integers, Sequences, SequencesExt

CONSTANTS
    Hosts,
    Calls,
    MaxEntries,  \* Issuer.max
    Validity,    \* LeafValidity, in ticks
    Renewal,     \* leafRenewal, in ticks
    CAEnd,       \* NotAfter of the CA
    Horizon,     \* bound: the clock stops there
    None

Certificates == [host : Hosts, notAfter : Nat]

ASSUME IssuerAssumption ==
    /\ MaxEntries \in Nat \ {0}
    /\ Validity \in Nat \ {0} /\ Renewal \in 0..(Validity - 1)
    /\ CAEnd \in Nat \ {0} /\ Horizon \in Nat
    /\ None \notin Calls \cup Hosts \cup Certificates

VARIABLES
    now,
    entries,  \* Issuer.entries: the call that made a host's entry, or None
    order,    \* Issuer.order
    pc,       \* where each call is
    host,     \* the host it was asked for
    entry,    \* the entry it waits for, or None
    made,     \* leafEntry of each call that generates
    answer    \* what it returned: a certificate, or None for an error

vars == <<now, entries, order, pc, host, entry, made, answer>>

\* An entry: ready tells whether its channel is closed.
Blank == [ready |-> FALSE, failed |-> FALSE, notAfter |-> 0]

Init ==
    /\ now = 0
    /\ entries = [h \in Hosts |-> None]
    /\ order = <<>>
    /\ pc = [c \in Calls |-> "idle"]
    /\ host = [c \in Calls |-> None]
    /\ entry = [c \in Calls |-> None]
    /\ made = [c \in Calls |-> Blank]
    /\ answer = [c \in Calls |-> None]

At(c, l)   == pc[c] = l
Goto(c, l) == pc' = [pc EXCEPT ![c] = l]

(***************************************************************************)
(* Helpers.  A definition named Bug... is its successor with a mistake that *)
(* the properties have to notice; no action uses it.                        *)
(***************************************************************************)
\* The last instant of a leaf that is signed now.
BugBeyondCA == now + Validity

SignedUntil == IF now + Validity > CAEnd THEN CAEnd ELSE now + Validity

\* fresh: a leaf capped by the CA is used to its end, another one is renewed
\* before.
Fresh(t) == now < t /\ (now + Renewal < t \/ t >= CAEnd)

\* removeLocked, on what the two fields are.
BugOrderKept(es, o, h) == <<[es EXCEPT ![h] = None], o>>

Removed(es, o, h) ==
    <<[es EXCEPT ![h] = None], RemoveFirst(o, h)>>

\* The host that makes room for another one.
MakeRoom(es, o) ==
    IF Len(o) >= MaxEntries THEN Removed(es, o, Head(o)) ELSE <<es, o>>

\* A failed generation removes its own entry only.
BugAnyEntry(c) == TRUE

StillMine(c) == entries[host[c]] = c

\* After its wait a call looks at the table again.
BugNoRecheck(c) ==
    /\ Goto(c, "done")
    /\ answer' = [answer EXCEPT ![c] =
                     [host |-> host[entry[c]], notAfter |-> made[entry[c]].notAfter]]

Recheck(c) == Goto(c, "lock") /\ UNCHANGED answer

\* close(entry.ready) comes after the fields are set, on success and failure.
BugClosedOnSuccess(failed) == ~failed

Closed(failed) == TRUE

(***************************************************************************)
(* Certificate                                                              *)
(***************************************************************************)
Call(c, h) ==
    /\ At(c, "idle")
    /\ host' = [host EXCEPT ![c] = h]
    /\ Goto(c, "lock")
    /\ UNCHANGED <<now, entries, order, entry, made, answer>>

InTable(c) == entries[host[c]]

Usable(e) == made[e].ready /\ ~made[e].failed /\ Fresh(made[e].notAfter)

\* The entry is ready and can be served.
Hit(c) ==
    /\ At(c, "lock") /\ InTable(c) # None
    /\ Usable(InTable(c))
    /\ answer' = [answer EXCEPT ![c] =
                     [host |-> host[InTable(c)], notAfter |-> made[InTable(c)].notAfter]]
    /\ Goto(c, "done")
    /\ UNCHANGED <<now, entries, order, host, entry, made>>

\* The entry is being generated by another call.
Join(c) ==
    /\ At(c, "lock") /\ InTable(c) # None
    /\ ~made[InTable(c)].ready
    /\ entry' = [entry EXCEPT ![c] = InTable(c)]
    /\ Goto(c, "wait")
    /\ UNCHANGED <<now, entries, order, host, made, answer>>

\* The table without an entry that cannot be served.
Cleared(c) ==
    IF InTable(c) = None THEN <<entries, order>> ELSE Removed(entries, order, host[c])

\* There is no entry, or one that is removed; the oldest host makes room.
Begin(c) ==
    /\ At(c, "lock")
    /\ InTable(c) # None => made[InTable(c)].ready /\ ~Usable(InTable(c))
    /\ LET room == MakeRoom(Cleared(c)[1], Cleared(c)[2])
       IN  /\ entries' = [room[1] EXCEPT ![host[c]] = c]
           /\ order' = Append(room[2], host[c])
    /\ Goto(c, "sign")
    /\ UNCHANGED <<now, host, entry, made, answer>>

\* sign reads the clock; it fails when randomness or the signature does.
Sign(c) ==
    /\ At(c, "sign")
    /\ \E failed \in BOOLEAN :
          made' = [made EXCEPT ![c] =
                      [ready |-> FALSE, failed |-> failed,
                       notAfter |-> IF failed THEN 0 ELSE SignedUntil]]
    /\ Goto(c, "close")
    /\ UNCHANGED <<now, entries, order, host, entry, answer>>

Close(c) ==
    /\ At(c, "close")
    /\ made' = [made EXCEPT ![c].ready = Closed(made[c].failed)]
    /\ IF made[c].failed
       THEN Goto(c, "failed") /\ UNCHANGED answer
       ELSE /\ answer' = [answer EXCEPT ![c] =
                             [host |-> host[c], notAfter |-> made[c].notAfter]]
            /\ Goto(c, "done")
    /\ UNCHANGED <<now, entries, order, host, entry>>

Withdraw(c) ==
    /\ At(c, "failed")
    /\ LET left == IF StillMine(c) THEN Removed(entries, order, host[c])
                   ELSE <<entries, order>>
       IN  entries' = left[1] /\ order' = left[2]
    /\ Goto(c, "done")
    /\ UNCHANGED <<now, host, entry, made, answer>>

\* The channel of the entry is closed: its error is returned, or the table is
\* looked at again, since the entry may be too old or gone by now.
Wake(c) ==
    /\ At(c, "wait") /\ made[entry[c]].ready
    /\ IF made[entry[c]].failed THEN Goto(c, "done") /\ UNCHANGED answer
                                ELSE Recheck(c)
    /\ entry' = [entry EXCEPT ![c] = None]
    /\ UNCHANGED <<now, entries, order, host, made>>

Tick ==
    /\ now < Horizon
    /\ now' = now + 1
    /\ UNCHANGED <<entries, order, pc, host, entry, made, answer>>

-----------------------------------------------------------------------------
Step(c) ==
    Hit(c) \/ Join(c) \/ Begin(c) \/ Sign(c) \/ Close(c) \/ Withdraw(c) \/ Wake(c)

Next ==
    \/ \E c \in Calls : Step(c) \/ \E h \in Hosts : Call(c, h)
    \/ Tick

Spec == Init /\ [][Next]_vars

\* A goroutine that can go on does; nothing is asked of clients and the clock.
FairSpec == Spec /\ \A c \in Calls : WF_vars(Step(c))

-----------------------------------------------------------------------------
(***************************************************************************)
(* Properties                                                               *)
(***************************************************************************)
Entries == [ready : BOOLEAN, failed : BOOLEAN, notAfter : Nat]

\* The sorts of the variables.
TypeOK ==
    /\ now \in 0..Horizon
    /\ entries \in [Hosts -> Calls \cup {None}]
    /\ order \in Seq(Hosts)
    /\ pc \in [Calls -> {"idle", "lock", "sign", "close", "failed", "wait", "done"}]
    /\ host \in [Calls -> Hosts \cup {None}]
    /\ entry \in [Calls -> Calls \cup {None}]
    /\ made \in [Calls -> Entries]
    /\ answer \in [Calls -> Certificates \cup {None}]

\* order lists every host of the table once, entries are of the host they stand
\* under, and there are never more than max: over evictions, renewals and failed
\* generations of hosts that were evicted and came back (removeLocked).
TableConsistent ==
    /\ IsInjective(order) /\ Len(order) <= MaxEntries
    /\ \A h \in Hosts :
          /\ (entries[h] # None) <=> Contains(order, h)
          /\ entries[h] # None => host[entries[h]] = h

\* An entry that is being generated or can be served leaves the table only to
\* make room for another host in a full one; in particular a generation that
\* fails does not take the entry of a later one with it.
LostOnlyToAnother ==
    [][\A h \in Hosts :
          LET e == entries[h] IN
          /\ e # None /\ entries'[h] # e
          /\ ~made[e].ready \/ Usable(e)
          => /\ Len(order) = MaxEntries
             /\ \E g \in Hosts \ {h} : entries[g] = None /\ entries'[g] # None]_vars

\* Who gets the certificate of another call's generation gets one for the host that
\* he asked for and that is neither expired nor, unless the CA ends with it, due for
\* renewal, however long the call waited for it.
SharedIsFresh ==
    [][\A c \in Calls :
          answer'[c] # answer[c] /\ made[c] = Blank =>
              /\ answer'[c].host = host[c]
              /\ answer'[c].notAfter > now
              /\ answer'[c].notAfter <= CAEnd
              /\ answer'[c].notAfter > now + Renewal \/ answer'[c].notAfter = CAEnd]_vars

\* Every call returns: an entry that is evicted while it is generated, or whose
\* generation fails, still wakes the calls that wait for it.
CallReturns == \A c \in Calls : At(c, "lock") ~> At(c, "done")
=============================================================================
