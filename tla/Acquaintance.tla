---------------------------- MODULE Acquaintance ----------------------------
(***************************************************************************)
(* What the chats by datagrams promise their users.  A process becomes an  *)
(* acquaintance of another in two ways only: it has asked, and the other   *)
(* accepts it; or the other tells it that it has been accepted.  Whoever   *)
(* tells that has recorded the one it tells, or has come to a stop; and a  *)
(* text goes to nobody but acquaintances.                                  *)
(*                                                                         *)
(* A process is a host and its life: the how-manieth process of that host  *)
(* it is.  Ports, descriptors, Select, the order of the table of peers and *)
(* its size are not seen here.                                             *)
(***************************************************************************)
EXTENDS Naturals

CONSTANTS
    Peer,      \* the hosts
    Lossy,     \* may the network drop datagrams?
    Ignored,   \* <<q, p>>: the requests of p are ignored by q
    Mimics     \* hosts whose texts may be taken for requests

VARIABLES
    place,      \* place[p] : off, search, listen, or stopped
    life,       \* life[p] : which process of p is the last
    asked,      \* asked[p] : requests that process has sent to all
    heard,      \* heard[q] : requests waiting at q
    accepted,   \* accepted[q] : processes q has recorded because they asked
    granted,    \* granted[p] : acceptances waiting at p
    confirmed,  \* confirmed[p] : processes p has recorded because they accepted it
    inbox       \* inbox[q] : senders of the texts waiting at q

vars == <<place, life, asked, heard, accepted, granted, confirmed, inbox>>

Init ==
    /\ place = [p \in Peer |-> "off"]
    /\ life = [p \in Peer |-> 0]
    /\ asked = [p \in Peer |-> 0]
    /\ heard = [p \in Peer |-> {}]
    /\ accepted = [p \in Peer |-> {}]
    /\ granted = [p \in Peer |-> {}]
    /\ confirmed = [p \in Peer |-> {}]
    /\ inbox = [p \in Peer |-> {}]

Process(p, l) == [host |-> p, life |-> l]

Alive(p) == place[p] \in {"search", "listen"}

Listeners == {q \in Peer : place[q] = "listen"}

Acquaintances(p) == {e.host : e \in accepted[p] \union confirmed[p]}

(* Whom of S a datagram reaches.                                           *)
Reached(S) == IF Lossy THEN SUBSET S ELSE {S}

(* m is put down for each host of R.                                       *)
Put(box, R, m) == [q \in Peer |-> IF q \in R THEN box[q] \union {m} ELSE box[q]]

Stop(p) == place' = [place EXCEPT ![p] = "stopped"]

(* A request to all: its number tells it from others of that process.      *)
Ask(p, l, n) ==
    \E R \in Reached(Listeners) :
        heard' = Put(heard, R, [host |-> p, life |-> l, n |-> n])

-----------------------------------------------------------------------------
Start(p) ==
    /\ place[p] = "off"
    /\ place' = [place EXCEPT ![p] = "search"]
    /\ life' = [life EXCEPT ![p] = @ + 1]
    /\ asked' = [asked EXCEPT ![p] = 1]
    /\ Ask(p, life[p] + 1, 1)
    /\ UNCHANGED <<accepted, granted, confirmed, inbox>>

(* The search ends when every acceptance that came has been recorded.      *)
EndSearch(p) ==
    /\ place[p] = "search" /\ granted[p] = {}
    /\ place' = [place EXCEPT ![p] = "listen"]
    /\ UNCHANGED <<life, asked, heard, accepted, granted, confirmed, inbox>>

AskAgain(p) ==
    /\ place[p] = "listen"
    /\ asked' = [asked EXCEPT ![p] = @ + 1]
    /\ Ask(p, life[p], asked[p] + 1)
    /\ UNCHANGED <<place, life, accepted, granted, confirmed, inbox>>

(* q tells the process that sent r that it is accepted, and records it;    *)
(* only a process that stops there does not.                               *)
Accept(q, r) ==
    /\ place[q] = "listen" /\ <<q, r.host>> \notin Ignored
    /\ heard' = [heard EXCEPT ![q] = @ \ {r}]
    /\ \E R \in Reached({p \in Peer : p = r.host /\ Alive(p) /\ life[p] = r.life}) :
           granted' = Put(granted, R, [host |-> q, life |-> life[q], n |-> r.n])
    /\ \/ /\ accepted' = [accepted EXCEPT ![q] = @ \union {Process(r.host, r.life)}]
          /\ UNCHANGED place
       \/ Stop(q) /\ UNCHANGED accepted
    /\ UNCHANGED <<life, asked, confirmed, inbox>>

Ignore(q, r) ==
    /\ place[q] = "listen" /\ <<q, r.host>> \in Ignored
    /\ heard' = [heard EXCEPT ![q] = @ \ {r}]
    /\ UNCHANGED <<place, life, asked, accepted, granted, confirmed, inbox>>

Confirm(p, g) ==
    /\ Alive(p)
    /\ granted' = [granted EXCEPT ![p] = @ \ {g}]
    /\ \/ /\ confirmed' = [confirmed EXCEPT ![p] = @ \union {Process(g.host, g.life)}]
          /\ UNCHANGED place
       \/ Stop(p) /\ UNCHANGED confirmed
    /\ UNCHANGED <<life, asked, heard, accepted, inbox>>

(* A text goes to the acquaintances that listen: to all of them, unless    *)
(* some of it is lost, or its sender stops halfway.                        *)
Say(p) ==
    /\ place[p] = "listen"
    /\ \E R \in SUBSET (Acquaintances(p) \intersect Listeners) :
        /\ \/ /\ inbox' = Put(inbox, R, Process(p, life[p]))
              /\ UNCHANGED heard
           \/ /\ p \in Mimics
              /\ heard' = Put(heard, R, [host |-> p, life |-> life[p], n |-> 0])
              /\ UNCHANGED inbox
        /\ \/ (Lossy \/ R = Acquaintances(p) \intersect Listeners) /\ UNCHANGED place
           \/ Stop(p)
    /\ UNCHANGED <<life, asked, accepted, granted, confirmed>>

Hear(q, t) ==
    /\ place[q] = "listen"
    /\ inbox' = [inbox EXCEPT ![q] = @ \ {t}]
    /\ UNCHANGED <<place, life, asked, heard, accepted, granted, confirmed>>

(* All that a process knows, and all that waits for it, ends with it.      *)
End(p) ==
    /\ place[p] # "off"
    /\ place' = [place EXCEPT ![p] = "off"]
    /\ heard' = [heard EXCEPT ![p] = {}]
    /\ accepted' = [accepted EXCEPT ![p] = {}]
    /\ granted' = [granted EXCEPT ![p] = {}]
    /\ confirmed' = [confirmed EXCEPT ![p] = {}]
    /\ inbox' = [inbox EXCEPT ![p] = {}]
    /\ UNCHANGED <<life, asked>>

Next ==
    \E p \in Peer :
        \/ Start(p) \/ EndSearch(p) \/ AskAgain(p) \/ Say(p) \/ End(p)
        \/ \E r \in heard[p] : Accept(p, r) \/ Ignore(p, r)
        \/ \E g \in granted[p] : Confirm(p, g)
        \/ \E t \in inbox[p] : Hear(p, t)

Spec == Init /\ [][Next]_vars
=============================================================================
