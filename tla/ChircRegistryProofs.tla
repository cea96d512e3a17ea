------------------------- MODULE ChircRegistryProofs -------------------------
(***************************************************************************)
(* What TLAPS proves of chirc's registry, for every number of connections, *)
(* descriptors, nicknames and commands, with or without a resident client: *)
(* the four invariants of the run chirc_login.                             *)
(***************************************************************************)
EXTENDS ChircRegistry, FiniteSetTheorems, SequenceTheorems, TLAPS

----------------------------------------------------------------------------
(* The invariant *)

Early == {"none", "starting", "setup", "signal", "count"}
AtRest == {"read", "nick", "user", "reply"}

Live(t) == pc[t] \notin {"none", "ended"}

\* Nobody has closed the thread's descriptor, nor left an entry for it: it is the thread's
\* own, in the list of clients as in the kernel's table.
Keeps(t) == socket[t] \notin lost
Holds(t) == Live(t) /\ Keeps(t) => descriptor[socket[t]] = t

\* The entry of a connection's thread, if it is in the list.
Own(t) == WithSock(socket[t])

\* What a thread that waits for a command, or handles one, knows of its entry: the nick in
\* it is the thread's, and once the thread has a user name so has the entry (not always its
\* own: change_user_from_nick may have met somebody else's).
EntryAgrees(t) ==
  \A i \in Own(t) : clients[i].nick = nickname[t] /\ (username[t] # NoUser => clients[i].user # NoUser)

\* After a command the entry may lag behind, in one way only: handle_NICK has not found
\* the thread's old nick, which was empty, and has left the entry without one.
EntryMayLag(t) ==
  \A i \in Own(t) :
    \/ clients[i].nick = nickname[t]
    \/ /\ clients[i].nick = NoNick /\ nickname[t] # NoNick
       /\ username[t] # NoUser => clients[i].user # NoUser

\* Where a thread that keeps its descriptor is in its registration, and what the list has of
\* it. That a thread about to be added is not in the list (so that it is never there twice)
\* is what the rest is for.
Progress(t) ==
  /\ pc[t] \in Early => /\ firstTimeLogin[t] /\ nickname[t] = NoNick /\ username[t] = NoUser
                        /\ pc[t] # "none" => Own(t) = {}
  /\ pc[t] \in {"add", "close"} => Own(t) = {}
  /\ pc[t] \in {"set_user_of_nick", "set_nick", "set_user", "promote", "welcome"} => Own(t) # {}
  /\ ~firstTimeLogin[t] /\ pc[t] \notin Leaving => Own(t) # {}
  /\ firstTimeLogin[t] /\ pc[t] \in AtRest =>
       /\ nickname[t] # NoNick \/ username[t] # NoUser => Own(t) # {}
       /\ EntryAgrees(t)
  /\ firstTimeLogin[t] /\ pc[t] = "tail" => (Complete(t) => Own(t) # {}) /\ EntryMayLag(t)
  /\ pc[t] = "set_user_of_nick" => Complete(t)
  /\ pc[t] = "set_nick" /\ ~Complete(t) => username[t] = NoUser
  /\ pc[t] = "set_user" => nickname[t] = NoNick /\ \A i \in Own(t) : clients[i].nick = NoNick

\* What holds of every thread, whatever has become of its descriptor.
Steady(t) ==
  /\ pc[t] \in Early => firstTimeLogin[t] /\ nickname[t] = NoNick /\ username[t] = NoUser
  /\ pc[t] = "set_user_of_nick" => Complete(t)
  /\ pc[t] \in {"quit", "farewell", "send", "evict", "evict_remove", "evict_close"} => ~firstTimeLogin[t]
  /\ pc[t] \in {"evict_remove", "evict_close"} => relay[t].to \in lost

\* accept_clients creates the thread of the connection that it has accepted.
Created == server = "create" => pc[newest] = "starting"

IInv ==
  /\ TypeOK
  /\ TotalAgrees
  /\ EntriesAreConnected
  /\ Created
  /\ crashed => lost # {}
  /\ \A t \in Conns : Holds(t) /\ Steady(t) /\ (Keeps(t) => Progress(t))

----------------------------------------------------------------------------
(* Numbers, sets and the operations on the list *)

LEMMA ConnsAreNumbers == Conns \subseteq Nat \ {0} /\ NoUser \notin Conns
<1>1. N \in Nat
  BY SizeAssumption
<1> QED BY <1>1 DEF Conns, NoUser

LEMMA MinIsMember == ASSUME NEW S \in SUBSET Nat, S # {} PROVE Min(S) \in S
<1>1. PICK n \in S : \A m \in S : <<m, n>> \notin OpToRel(<, Nat)
  BY NatLessThanWellFounded, WFMin
<1>2. ASSUME NEW m \in S PROVE n <= m
  <2>1. m \in Nat /\ n \in Nat /\ ~(m < n)
    BY <1>1 DEF OpToRel
  <2> QED BY <2>1
<1> QED BY <1>2 DEF Min

LEMMA SeqFacts ==
  ASSUME NEW S, NEW c \in Seq(S)
  PROVE  /\ DOMAIN c = 1 .. Len(c) /\ Len(c) \in Nat
         /\ \A i \in DOMAIN c : i \in Nat /\ c[i] \in S
OBVIOUS

\* add_client puts the entry before the others.
LEMMA AddFacts ==
  ASSUME NEW S, NEW c \in Seq(S), NEW x \in S
  PROVE  /\ <<x>> \o c \in Seq(S) /\ Len(<<x>> \o c) = Len(c) + 1 /\ (<<x>> \o c)[1] = x
         /\ \A i \in 1 .. Len(c) : (<<x>> \o c)[i + 1] = c[i]
<1>1. <<x>> \in Seq(S) /\ Len(<<x>>) = 1 /\ <<x>>[1] = x
  OBVIOUS
<1>2. /\ <<x>> \o c \in Seq(S) /\ Len(<<x>> \o c) = 1 + Len(c)
      /\ \A i \in 1 .. 1 + Len(c) :
           (<<x>> \o c)[i] = IF i <= 1 THEN <<x>>[i] ELSE c[i - 1]
  BY <1>1, ConcatProperties
<1>3. Len(c) \in Nat
  OBVIOUS
<1>4. ASSUME NEW i \in 1 .. Len(c) PROVE (<<x>> \o c)[i + 1] = c[i]
  <2>1. i + 1 \in 1 .. 1 + Len(c) /\ ~(i + 1 <= 1) /\ (i + 1) - 1 = i
    BY <1>3
  <2> QED BY <1>2, <2>1
<1>5. (<<x>> \o c)[1] = x
  <2>1. 1 \in 1 .. 1 + Len(c)
    BY <1>3
  <2> QED BY <1>1, <1>2, <2>1
<1> QED BY <1>2, <1>3, <1>4, <1>5

\* remove_client takes one entry out and closes the gap.
LEMMA RemoveFacts ==
  ASSUME NEW S, NEW c \in Seq(S), NEW k \in 1 .. Len(c)
  PROVE  /\ RemoveAt(c, k) \in Seq(S) /\ Len(RemoveAt(c, k)) = Len(c) - 1
         /\ \A j \in 1 .. Len(c) - 1 : RemoveAt(c, k)[j] = IF j < k THEN c[j] ELSE c[j + 1]
<1> DEFINE a == SubSeq(c, 1, k - 1)
           b == SubSeq(c, k + 1, Len(c))
<1>0. Len(c) \in Nat /\ k \in Nat /\ 1 <= k /\ k <= Len(c)
  OBVIOUS
<1>1. /\ a \in Seq(S) /\ Len(a) = k - 1
      /\ \A i \in 1 .. k - 1 : a[i] = c[i]
  <2>1. 1 \in Int /\ k - 1 \in Int /\ \A i \in 1 .. k - 1 : c[i] \in S
    BY <1>0
  <2>2. /\ a \in Seq(S) /\ Len(a) = IF 1 <= k - 1 THEN k - 1 - 1 + 1 ELSE 0
        /\ \A i \in 1 .. k - 1 - 1 + 1 : a[i] = c[1 + i - 1]
    BY <2>1, SubSeqProperties
  <2> HIDE DEF a
  <2> QED BY <1>0, <2>2
<1>2. /\ b \in Seq(S) /\ Len(b) = Len(c) - k
      /\ \A i \in 1 .. Len(c) - k : b[i] = c[k + i]
  <2>1. k + 1 \in Int /\ Len(c) \in Int /\ \A i \in k + 1 .. Len(c) : c[i] \in S
    BY <1>0
  <2>2. /\ b \in Seq(S) /\ Len(b) = IF k + 1 <= Len(c) THEN Len(c) - (k + 1) + 1 ELSE 0
        /\ \A i \in 1 .. Len(c) - (k + 1) + 1 : b[i] = c[(k + 1) + i - 1]
    BY <2>1, SubSeqProperties
  <2> HIDE DEF b
  <2>3. Len(b) = Len(c) - k
    BY <1>0, <2>2
  <2>4. ASSUME NEW i \in 1 .. Len(c) - k PROVE b[i] = c[k + i]
    <3>1. i \in 1 .. Len(c) - (k + 1) + 1 /\ (k + 1) + i - 1 = k + i
      BY <1>0
    <3> QED BY <2>2, <3>1
  <2> QED BY <2>2, <2>3, <2>4
<1> HIDE DEF a, b
<1>3. /\ a \o b \in Seq(S) /\ Len(a \o b) = Len(c) - 1
      /\ \A i \in 1 .. Len(a) + Len(b) : (a \o b)[i] = IF i <= Len(a) THEN a[i] ELSE b[i - Len(a)]
  <2>1. a \in Seq(S) /\ b \in Seq(S)
    BY <1>1, <1>2
  <2>2. /\ a \o b \in Seq(S) /\ Len(a \o b) = Len(a) + Len(b)
        /\ \A i \in 1 .. Len(a) + Len(b) : (a \o b)[i] = IF i <= Len(a) THEN a[i] ELSE b[i - Len(a)]
    BY <2>1, ConcatProperties
  <2> QED BY <1>0, <1>1, <1>2, <2>2
<1>4. ASSUME NEW j \in 1 .. Len(c) - 1 PROVE (a \o b)[j] = IF j < k THEN c[j] ELSE c[j + 1]
  <2>0. j \in 1 .. Len(a) + Len(b)
    BY <1>0, <1>1, <1>2
  <2>1. CASE j < k
    <3>1. j <= Len(a) /\ j \in 1 .. k - 1
      BY <1>0, <1>1, <2>1
    <3> QED BY <1>1, <1>3, <2>0, <2>1, <3>1
  <2>2. CASE ~(j < k)
    <3>1. ~(j <= Len(a)) /\ j - Len(a) \in 1 .. Len(c) - k /\ k + (j - Len(a)) = j + 1
      BY <1>0, <1>1, <2>2
    <3> QED BY <1>2, <1>3, <2>0, <2>2, <3>1
  <2> QED BY <2>1, <2>2
<1>5. RemoveAt(c, k) = a \o b
  BY DEF RemoveAt, a, b
<1> QED BY <1>3, <1>4, <1>5

----------------------------------------------------------------------------
(* What the operations do to the list of clients *)

SocksDistinct ==
  \A i, j \in DOMAIN clients : clients[i].sock = clients[j].sock /\ clients[i].sock \notin lost => i = j
ListOK == clients \in Seq(Client) /\ SocksDistinct

\* What a step leaves of the entry of descriptor s, if it is not the stepping thread's: it
\* stays, with its nick, and a user name is not taken away; and none appears.
KeepsEntry(s) ==
  /\ WithSock(s) # {} => \E j \in DOMAIN clients' : clients'[j].sock = s
  /\ \A j \in DOMAIN clients' : clients'[j].sock = s =>
       \E i \in DOMAIN clients :
         /\ clients[i].sock = s /\ clients[i].nick = clients'[j].nick
         /\ clients[i].user # NoUser => clients'[j].user # NoUser

\* The descriptors stay where they are.
SameSocks ==
  DOMAIN clients' = DOMAIN clients /\ \A i \in DOMAIN clients : clients'[i].sock = clients[i].sock

LEMMA ListFacts ==
  ASSUME clients \in Seq(Client)
  PROVE  /\ DOMAIN clients = 1 .. Len(clients) /\ Len(clients) \in Nat
         /\ clients \in [1 .. Len(clients) -> Client]
         /\ \A i \in DOMAIN clients :
              /\ i \in Nat /\ clients[i] \in Client /\ clients[i].sock \in Sockets
              /\ clients[i].nick \in Nicks \cup {NoNick} /\ clients[i].user \in Conns \cup {NoUser}
<1>1. clients \in [1 .. Len(clients) -> Client] /\ Len(clients) \in Nat
  OBVIOUS
<1>2. \A i \in DOMAIN clients : i \in Nat /\ clients[i] \in Client
  BY <1>1
<1>3. DOMAIN clients = 1 .. Len(clients)
  BY <1>1
<1> QED BY <1>1, <1>2, <1>3 DEF Client

\* A look-up that finds an entry finds one of that descriptor.
LEMMA FoundOne ==
  ASSUME clients \in Seq(Client), NEW s, WithSock(s) # {}
  PROVE  Min(WithSock(s)) \in DOMAIN clients /\ clients[Min(WithSock(s))].sock = s
<1>1. WithSock(s) \in SUBSET Nat
  BY ListFacts DEF WithSock
<1>2. Min(WithSock(s)) \in WithSock(s)
  BY <1>1, MinIsMember
<1> QED BY <1>2 DEF WithSock

\* Descriptors are distinct, so a look-up by descriptor finds the entry there is.
LEMMA FoundEntry ==
  ASSUME ListOK, NEW s, s \notin lost, NEW i \in WithSock(s)
  PROVE  WithSock(s) = {i} /\ Min(WithSock(s)) = i
<1>1. WithSock(s) = {i}
  BY DEF ListOK, SocksDistinct, WithSock
<1>2. WithSock(s) \in SUBSET Nat
  BY ListFacts DEF ListOK, WithSock
<1> QED BY <1>1, <1>2, MinIsMember

\* What the tests of the found entry say.
LEMMA FoundFields ==
  ASSUME ListOK, NEW s, s \notin lost
  PROVE  /\ HasUser(s) <=> \E i \in WithSock(s) : clients[i].user # NoUser
         /\ HasNick(s) <=> \E i \in WithSock(s) : clients[i].nick # NoNick
<1>1. ASSUME NEW i \in WithSock(s) PROVE Min(WithSock(s)) = i
  BY FoundEntry
<1> QED BY <1>1 DEF HasUser, HasNick, is_registered

\* A list in which one field of one entry is new.
LEMMA ChangedList ==
  ASSUME ListOK, lost' = lost, NEW k \in DOMAIN clients,
         NEW x \in Client, x.sock = clients[k].sock,
         clients' = [clients EXCEPT ![k] = x]
  PROVE  ListOK' /\ SameSocks /\ clients'[k] = x /\ \A i \in DOMAIN clients \ {k} : clients'[i] = clients[i]
<1>1. /\ DOMAIN clients = 1 .. Len(clients) /\ Len(clients) \in Nat
      /\ clients \in [1 .. Len(clients) -> Client]
  BY ListFacts DEF ListOK
<1>2. clients' \in [1 .. Len(clients) -> Client]
  BY <1>1
<1>3. clients' \in Seq(Client) /\ DOMAIN clients' = DOMAIN clients
  BY <1>1, <1>2
<1>4. clients'[k] = x /\ \A i \in DOMAIN clients \ {k} : clients'[i] = clients[i]
  BY <1>1
<1>5. SameSocks
  BY <1>3, <1>4 DEF SameSocks
<1>6. SocksDistinct'
  BY <1>5 DEF ListOK, SocksDistinct, SameSocks
<1> QED BY <1>3, <1>4, <1>5, <1>6 DEF ListOK

LEMMA Unchanged == ASSUME clients' = clients, NEW s PROVE KeepsEntry(s)
BY DEF KeepsEntry, WithSock

\* change_nick_from_sock
LEMMA NickChanged ==
  ASSUME ListOK, lost' = lost, NEW s, NEW n \in Nicks \cup {NoNick}, clients' = change_nick_from_sock(s, n)
  PROVE  /\ ListOK' /\ SameSocks
         /\ \A i \in DOMAIN clients :
              /\ clients'[i].user = clients[i].user
              /\ clients[i].sock # s => clients'[i].nick = clients[i].nick
              /\ clients[i].sock = s /\ s \notin lost => clients'[i].nick = n
<1>1. CASE WithSock(s) = {}
  <2>1. clients' = clients /\ \A i \in DOMAIN clients : clients[i].sock # s
    BY <1>1 DEF change_nick_from_sock, is_registered, WithSock
  <2> QED BY <2>1 DEF ListOK, SocksDistinct, SameSocks
<1>2. CASE WithSock(s) # {}
  <2> DEFINE k == Min(WithSock(s))
             x == [clients[k] EXCEPT !.nick = n]
  <2>1. k \in DOMAIN clients /\ clients[k].sock = s /\ clients[k] \in Client
    BY <1>2, FoundOne, ListFacts DEF ListOK
  <2>2. /\ x \in Client /\ x.sock = clients[k].sock /\ x.user = clients[k].user /\ x.nick = n
    BY <2>1 DEF Client
  <2>3. clients' = [clients EXCEPT ![k] = x]
    BY <1>2 DEF change_nick_from_sock, is_registered
  <2> HIDE DEF k, x
  <2>4. ListOK' /\ SameSocks /\ clients'[k] = x /\ \A i \in DOMAIN clients \ {k} : clients'[i] = clients[i]
    BY <2>1, <2>2, <2>3, ChangedList
  <2>5. s \notin lost => \A i \in DOMAIN clients : clients[i].sock = s => i = k
    BY <2>1 DEF ListOK, SocksDistinct
  <2> QED BY <2>1, <2>2, <2>4, <2>5
<1> QED BY <1>1, <1>2

\* change_user_from_sock
LEMMA UserChanged ==
  ASSUME ListOK, lost' = lost, NEW s, NEW u \in Conns \cup {NoUser}, clients' = change_user_from_sock(s, u)
  PROVE  /\ ListOK' /\ SameSocks
         /\ \A i \in DOMAIN clients :
              /\ clients'[i].nick = clients[i].nick
              /\ clients[i].sock # s => clients'[i].user = clients[i].user
              /\ clients[i].sock = s /\ s \notin lost => clients'[i].user = u
<1>1. CASE WithSock(s) = {}
  <2>1. clients' = clients /\ \A i \in DOMAIN clients : clients[i].sock # s
    BY <1>1 DEF change_user_from_sock, is_registered, WithSock
  <2> QED BY <2>1 DEF ListOK, SocksDistinct, SameSocks
<1>2. CASE WithSock(s) # {}
  <2> DEFINE k == Min(WithSock(s))
             x == [clients[k] EXCEPT !.user = u]
  <2>1. k \in DOMAIN clients /\ clients[k].sock = s /\ clients[k] \in Client
    BY <1>2, FoundOne, ListFacts DEF ListOK
  <2>2. /\ x \in Client /\ x.sock = clients[k].sock /\ x.nick = clients[k].nick /\ x.user = u
    BY <2>1 DEF Client
  <2>3. clients' = [clients EXCEPT ![k] = x]
    BY <1>2 DEF change_user_from_sock, is_registered
  <2> HIDE DEF k, x
  <2>4. ListOK' /\ SameSocks /\ clients'[k] = x /\ \A i \in DOMAIN clients \ {k} : clients'[i] = clients[i]
    BY <2>1, <2>2, <2>3, ChangedList
  <2>5. s \notin lost => \A i \in DOMAIN clients : clients[i].sock = s => i = k
    BY <2>1 DEF ListOK, SocksDistinct
  <2> QED BY <2>1, <2>2, <2>4, <2>5
<1> QED BY <1>1, <1>2

\* change_user_from_nick finds somebody's entry.
LEMMA UserOfNickChanged ==
  ASSUME ListOK, lost' = lost, NEW n, NEW u \in Conns \cup {NoUser}, clients' = change_user_from_nick(n, u)
  PROVE  /\ ListOK' /\ SameSocks
         /\ \A i \in DOMAIN clients :
              clients'[i].nick = clients[i].nick /\ clients'[i].user \in {clients[i].user, u}
<1>1. CASE WithNick(n) = {}
  <2>1. clients' = clients
    BY <1>1 DEF change_user_from_nick
  <2> QED BY <2>1 DEF ListOK, SocksDistinct, SameSocks
<1>2. CASE WithNick(n) # {}
  <2> DEFINE k == Min(WithNick(n))
             x == [clients[k] EXCEPT !.user = u]
  <2>1. WithNick(n) \in SUBSET Nat
    BY ListFacts DEF WithNick, ListOK
  <2>2. k \in DOMAIN clients
    BY <1>2, <2>1, MinIsMember DEF WithNick
  <2>3. clients[k] \in Client
    BY <2>2, ListFacts DEF ListOK
  <2>4. x \in Client /\ x.sock = clients[k].sock /\ x.nick = clients[k].nick /\ x.user = u
    BY <2>3 DEF Client
  <2>5. clients' = [clients EXCEPT ![k] = x]
    BY <1>2 DEF change_user_from_nick
  <2> HIDE DEF k, x
  <2>6. ListOK' /\ SameSocks /\ clients'[k] = x /\ \A i \in DOMAIN clients \ {k} : clients'[i] = clients[i]
    BY <2>2, <2>4, <2>5, ChangedList
  <2> QED BY <2>2, <2>4, <2>6
<1> QED BY <1>1, <1>2

\* A change of a field keeps the entries whose nick it does not change.
LEMMA ChangesKeep ==
  ASSUME SameSocks, NEW s,
         \A i \in DOMAIN clients : clients[i].sock = s =>
           /\ clients'[i].nick = clients[i].nick
           /\ clients[i].user # NoUser => clients'[i].user # NoUser
  PROVE  KeepsEntry(s)
BY DEF KeepsEntry, SameSocks, WithSock

\* add_client, for a descriptor that is not in the list, if it has not been lost.
LEMMA Added ==
  ASSUME ListOK, lost' = lost,
         NEW s \in Sockets, NEW n \in Nicks \cup {NoNick}, NEW u \in Conns \cup {NoUser},
         s \notin lost => WithSock(s) = {}, clients' = add_client(s, n, u)
  PROVE  /\ ListOK'
         /\ \E j \in DOMAIN clients' : clients'[j].sock = s
         /\ s \notin lost =>
              \A j \in DOMAIN clients' : clients'[j].sock = s => clients'[j].nick = n /\ clients'[j].user = u
         /\ \A r \in Sockets \ {s} : KeepsEntry(r)
         /\ \A j \in DOMAIN clients' :
              clients'[j].sock # s => \E i \in DOMAIN clients : clients[i] = clients'[j]
<1> DEFINE x == [sock |-> s, nick |-> n, user |-> u]
<1>1. /\ DOMAIN clients = 1 .. Len(clients) /\ Len(clients) \in Nat
  BY ListFacts DEF ListOK
<1>2. x \in Client /\ x.sock = s /\ x.nick = n /\ x.user = u
  BY DEF Client
<1>3. clients' = <<x>> \o clients
  BY DEF add_client
<1> HIDE DEF x
<1>4. /\ clients' \in Seq(Client) /\ Len(clients') = Len(clients) + 1 /\ clients'[1] = x
      /\ \A i \in 1 .. Len(clients) : clients'[i + 1] = clients[i]
  BY <1>2, <1>3, AddFacts DEF ListOK
<1>5. DOMAIN clients' = 1 .. Len(clients) + 1
  BY <1>4
<1>6. ASSUME NEW j \in DOMAIN clients'
      PROVE  \/ j = 1 /\ clients'[j] = x
             \/ /\ j - 1 \in DOMAIN clients /\ clients'[j] = clients[j - 1]
                /\ s \notin lost => clients'[j].sock # s
  <2>1. CASE j = 1
    BY <1>4, <2>1
  <2>2. CASE j # 1
    <3>1. j - 1 \in 1 .. Len(clients) /\ (j - 1) + 1 = j
      BY <1>1, <1>5, <2>2
    <3>2. clients'[j] = clients[j - 1] /\ j - 1 \in DOMAIN clients
      BY <1>1, <1>4, <3>1
    <3>3. s \notin lost => clients[j - 1].sock # s
      BY <3>2 DEF WithSock
    <3> QED BY <3>2, <3>3
  <2> QED BY <2>1, <2>2
<1>7. \A i \in DOMAIN clients : i + 1 \in DOMAIN clients' /\ clients'[i + 1] = clients[i]
  BY <1>1, <1>4, <1>5
<1>8. SocksDistinct'
  <2> SUFFICES ASSUME NEW i \in DOMAIN clients', NEW j \in DOMAIN clients',
                      clients'[i].sock = clients'[j].sock, clients'[i].sock \notin lost
               PROVE  i = j
    BY DEF SocksDistinct
  <2>1. i \in Int /\ j \in Int
    BY <1>1, <1>5
  <2>2. CASE clients'[i].sock = s
    BY <1>6, <2>2
  <2>3. CASE clients'[i].sock # s
    <3>1. /\ i - 1 \in DOMAIN clients /\ clients'[i] = clients[i - 1]
          /\ j - 1 \in DOMAIN clients /\ clients'[j] = clients[j - 1]
      BY <1>2, <1>6, <2>3
    <3>2. i - 1 = j - 1
      BY <3>1 DEF ListOK, SocksDistinct
    <3> QED BY <2>1, <3>2
  <2> QED BY <2>2, <2>3
<1>9. 1 \in DOMAIN clients'
  BY <1>1, <1>5
<1>10. ASSUME NEW r \in Sockets \ {s} PROVE KeepsEntry(r)
  <2>1. WithSock(r) # {} => \E j \in DOMAIN clients' : clients'[j].sock = r
    BY <1>7 DEF WithSock
  <2>2. ASSUME NEW j \in DOMAIN clients', clients'[j].sock = r
        PROVE  j - 1 \in DOMAIN clients /\ clients'[j] = clients[j - 1]
    BY <1>2, <1>6, <2>2
  <2> QED BY <2>1, <2>2 DEF KeepsEntry
<1> QED BY <1>2, <1>4, <1>6, <1>8, <1>9, <1>10 DEF ListOK

\* remove_client
LEMMA Removed ==
  ASSUME ListOK, lost' = lost, NEW s \in Sockets, clients' = remove_client(s)
  PROVE  /\ ListOK'
         /\ s \notin lost => \A j \in DOMAIN clients' : clients'[j].sock # s
         /\ \A r \in Sockets \ {s} : KeepsEntry(r)
         /\ \A j \in DOMAIN clients' : \E i \in DOMAIN clients : clients[i] = clients'[j]
<1>1. /\ DOMAIN clients = 1 .. Len(clients) /\ Len(clients) \in Nat
  BY ListFacts DEF ListOK
<1>2. CASE WithSock(s) = {}
  <2>1. clients' = clients
    BY <1>2 DEF remove_client, is_registered
  <2> QED BY <1>2, <2>1, Unchanged DEF ListOK, SocksDistinct, WithSock
<1>3. CASE WithSock(s) # {}
  <2> DEFINE k == Min(WithSock(s))
  <2>2. k \in DOMAIN clients /\ clients[k].sock = s /\ k \in 1 .. Len(clients)
    BY <1>1, <1>3, FoundOne DEF ListOK
  <2>3. clients' = RemoveAt(clients, k)
    BY <1>3 DEF remove_client, is_registered
  <2> HIDE DEF k
  <2>4. /\ clients' \in Seq(Client) /\ Len(clients') = Len(clients) - 1
        /\ \A j \in 1 .. Len(clients) - 1 : clients'[j] = IF j < k THEN clients[j] ELSE clients[j + 1]
    BY <2>2, <2>3, RemoveFacts DEF ListOK
  <2>5. DOMAIN clients' = 1 .. Len(clients) - 1
    BY <2>4
  <2> DEFINE old(j) == IF j < k THEN j ELSE j + 1
  <2>6. ASSUME NEW j \in DOMAIN clients'
        PROVE  /\ j \in Int /\ old(j) \in Int /\ old(j) \in DOMAIN clients \ {k}
               /\ clients'[j] = clients[old(j)]
    BY <1>1, <2>2, <2>4, <2>5
  <2>7. ASSUME NEW i \in DOMAIN clients \ {k} PROVE \E j \in DOMAIN clients' : clients'[j] = clients[i]
    <3>1. CASE i < k
      <4>1. i \in 1 .. Len(clients) - 1
        BY <1>1, <2>2, <3>1
      <4> QED BY <2>4, <2>5, <3>1, <4>1
    <3>2. CASE ~(i < k)
      <4>1. i - 1 \in 1 .. Len(clients) - 1 /\ ~(i - 1 < k) /\ (i - 1) + 1 = i
        BY <1>1, <2>2, <3>2
      <4> QED BY <2>4, <2>5, <4>1
    <3> QED BY <3>1, <3>2
  <2>8. SocksDistinct'
    <3> SUFFICES ASSUME NEW i \in DOMAIN clients', NEW j \in DOMAIN clients',
                        clients'[i].sock = clients'[j].sock, clients'[i].sock \notin lost
                 PROVE  i = j
      BY DEF SocksDistinct
    <3>1. old(i) = old(j)
      BY <2>6 DEF ListOK, SocksDistinct
    <3>2. i \in Int /\ j \in Int /\ k \in Int
      BY <1>1, <2>2, <2>6
    <3> QED BY <3>1, <3>2
  <2> HIDE DEF old
  <2>9. s \notin lost => \A i \in DOMAIN clients : clients[i].sock = s => i = k
    BY <2>2 DEF ListOK, SocksDistinct
  <2>10. s \notin lost => \A j \in DOMAIN clients' : clients'[j].sock # s
    BY <2>6, <2>9
  <2>11. ASSUME NEW r \in Sockets \ {s} PROVE KeepsEntry(r)
    <3>1. WithSock(r) # {} => \E j \in DOMAIN clients' : clients'[j].sock = r
      BY <2>2, <2>7 DEF WithSock
    <3> QED BY <2>6, <3>1 DEF KeepsEntry
  <2> QED BY <2>4, <2>6, <2>8, <2>10, <2>11 DEF ListOK
<1> QED BY <1>2, <1>3

----------------------------------------------------------------------------
(* What a step does to the list, and to the other connections *)

ListSteps(t) == TakeNick(t) \/ Register(t) \/ RemoveClient(t) \/ EvictRemove(t)

\* A step of one connection's thread, or of its peer.
Moves(t) == Step(t) \/ Arrive(t) \/ Hangup(t) \/ Crash(t)

LEMMA DistinctInInvariant == IInv => ListOK
BY DEF IInv, TypeOK, EntriesAreConnected, ListOK, SocksDistinct

LEMMA LocalTypes ==
  ASSUME TypeOK, NEW t \in Conns
  PROVE  /\ pc[t] \in Phases /\ socket[t] \in Sockets
         /\ nickname[t] \in Nicks \cup {NoNick} /\ username[t] \in Conns \cup {NoUser}
         /\ firstTimeLogin[t] \in BOOLEAN /\ params[t] \in Nicks \cup {NoNick}
         /\ relay[t].to \in Sockets /\ relay[t].back \in {"reply", "farewell"}
         /\ NoUser \notin Conns
BY ConnsAreNumbers DEF TypeOK

LEMMA ListStepsKeepLost == ASSUME NEW t \in Conns, ListSteps(t) PROVE lost' = lost
BY DEF ListSteps, TakeNick, Register, RemoveClient, EvictRemove, relays

\* Of the descriptors that have not been lost nobody's entry but t's own is taken away, added
\* or loses a name; and who gives somebody else up does not take its own away either.
LEMMA TheListStep ==
  ASSUME IInv, NEW t \in Conns, ListSteps(t)
  PROVE  /\ ListOK'
         /\ \A r \in Sockets \ lost : r # socket[t] \/ EvictRemove(t) => KeepsEntry(r)
<1>0. /\ ListOK /\ TypeOK /\ Steady(t) /\ (Keeps(t) => Progress(t)) /\ socket[t] \in Sockets
      /\ nickname[t] \in Nicks \cup {NoNick} /\ username[t] \in Conns \cup {NoUser}
      /\ params[t] \in Nicks \cup {NoNick} /\ relay[t].to \in Sockets /\ lost' = lost
  BY DistinctInInvariant, LocalTypes, ListStepsKeepLost DEF IInv
<1>1. CASE TakeNick(t)
  <2>0. ~EvictRemove(t)
    BY <1>1 DEF TakeNick, EvictRemove
  <2>1. CASE clients' = clients
    BY <1>0, <2>1, Unchanged DEF ListOK, SocksDistinct
  <2>2. CASE clients' # clients
    <3>1. clients' = change_nick_from_sock(socket[t], params[t])
      BY <1>1, <2>2 DEF TakeNick
    <3>2. /\ ListOK' /\ SameSocks
          /\ \A i \in DOMAIN clients :
               /\ clients'[i].user = clients[i].user
               /\ clients[i].sock # socket[t] => clients'[i].nick = clients[i].nick
      BY <1>0, <3>1, NickChanged
    <3> QED BY <2>0, <3>2, ChangesKeep
  <2> QED BY <2>1, <2>2
<1>2. CASE Register(t)
  <2>0. ~EvictRemove(t)
    BY <1>2 DEF Register, EvictRemove
  <2>1. CASE pc[t] = "set_user_of_nick"
    <3>1. clients' = change_user_from_nick(nickname[t], username[t])
      BY <1>2, <2>1 DEF Register, Registered
    <3>2. username[t] # NoUser
      BY <1>0, <2>1 DEF Steady, Complete
    <3>3. /\ ListOK' /\ SameSocks
          /\ \A i \in DOMAIN clients :
               clients'[i].nick = clients[i].nick /\ clients'[i].user \in {clients[i].user, username[t]}
      BY <1>0, <3>1, UserOfNickChanged
    <3> QED BY <3>2, <3>3, ChangesKeep
  <2>2. CASE pc[t] = "set_nick"
    <3>1. clients' = change_nick_from_sock(socket[t], nickname[t])
      BY <1>2, <2>2 DEF Register, Registered
    <3>2. /\ ListOK' /\ SameSocks
          /\ \A i \in DOMAIN clients :
               /\ clients'[i].user = clients[i].user
               /\ clients[i].sock # socket[t] => clients'[i].nick = clients[i].nick
      BY <1>0, <3>1, NickChanged
    <3> QED BY <2>0, <3>2, ChangesKeep
  <2>3. CASE pc[t] = "set_user"
    <3>1. clients' = change_user_from_sock(socket[t], username[t])
      BY <1>2, <2>3 DEF Register, Registered
    <3>2. /\ ListOK' /\ SameSocks
          /\ \A i \in DOMAIN clients :
               /\ clients'[i].nick = clients[i].nick
               /\ clients[i].sock # socket[t] => clients'[i].user = clients[i].user
      BY <1>0, <3>1, UserChanged
    <3> QED BY <2>0, <3>2, ChangesKeep
  <2>4. CASE pc[t] = "add"
    <3>1. clients' = add_client(socket[t], nickname[t], username[t])
      BY <1>2, <2>4 DEF Register, Registered
    <3>2. socket[t] \notin lost => WithSock(socket[t]) = {}
      BY <1>0, <2>4 DEF Progress, Own, Keeps
    <3>3. ListOK' /\ \A r \in Sockets \ {socket[t]} : KeepsEntry(r)
      BY <1>0, <3>1, <3>2, Added
    <3> QED BY <2>0, <3>3
  <2> QED BY <1>2, <2>1, <2>2, <2>3, <2>4 DEF Register
<1>3. CASE RemoveClient(t)
  <2>0. ~EvictRemove(t)
    BY <1>3 DEF RemoveClient, EvictRemove
  <2>1. clients' = remove_client(socket[t])
    BY <1>3 DEF RemoveClient
  <2>2. ListOK' /\ \A r \in Sockets \ {socket[t]} : KeepsEntry(r)
    BY <1>0, <2>1, Removed
  <2> QED BY <2>0, <2>2
<1>4. CASE EvictRemove(t)
  <2>1. clients' = remove_client(relay[t].to) /\ pc[t] = "evict_remove"
    BY <1>4 DEF EvictRemove
  <2>2. relay[t].to \in lost
    BY <1>0, <2>1 DEF Steady
  <2>3. ListOK' /\ \A r \in Sockets \ {relay[t].to} : KeepsEntry(r)
    BY <1>0, <2>1, Removed
  <2> QED BY <2>2, <2>3
<1> QED BY <1>1, <1>2, <1>3, <1>4 DEF ListSteps

\* A step of t leaves what other threads know alone.
OthersStay(t) ==
  \A u \in Conns \ {t} :
    /\ pc'[u] = pc[u] /\ socket'[u] = socket[u] /\ nickname'[u] = nickname[u]
    /\ username'[u] = username[u] /\ firstTimeLogin'[u] = firstTimeLogin[u] /\ relay'[u] = relay[u]

LEMMA StepsAreLocal ==
  ASSUME TypeOK, NEW t \in Conns, Moves(t)
  PROVE  /\ OthersStay(t)
         /\ clients' = clients \/ ListSteps(t)
         /\ server' = "create" => server = "create"
         /\ newest' = newest
         /\ Close(t) \/ socket' = socket
         /\ lost \subseteq lost'
<1> USE DEF TypeOK, OthersStay, ListSteps, Go, registry, locals, relays
<1>1. CASE SetupDone(t) \/ SignalSetup(t) \/ CountUnregistered(t)
  BY <1>1 DEF SetupDone, SignalSetup, CountUnregistered
<1>2. CASE EndOfFile(t) \/ Reply(t) \/ Abandon(t) \/ LockTwice(t)
  BY <1>2 DEF EndOfFile, Reply, Abandon, LockTwice
<1>3. CASE RefuseNick(t) \/ TakeNick(t)
  BY <1>3 DEF RefuseNick, TakeNick
<1>4. CASE TakeUser(t) \/ RefuseUser(t)
  BY <1>4 DEF TakeUser, RefuseUser
<1>5. CASE ChooseBranch(t) \/ Register(t) \/ Promote(t) \/ Welcome(t)
  BY <1>5 DEF ChooseBranch, Register, Promote, Welcome
<1>6. CASE CountGone(t) \/ QuitReply(t) \/ Farewell(t) \/ CountQuit(t) \/ RemoveClient(t)
  BY <1>6 DEF CountGone, QuitReply, Farewell, CountQuit, RemoveClient
<1>7. CASE Close(t)
  BY <1>7 DEF Close
<1>8. CASE Arrive(t)
  BY <1>8 DEF Arrive, ReadNick, ReadUser, ReadQuit, ReadOther, Read, LateEndOfFile
<1>9. CASE Hangup(t) \/ Crash(t)
  BY <1>9 DEF Hangup, Crash, BadFree, CrashLookup, CrashNick
<1>10. CASE Relay(t)
  <2>1. CASE Address(t) \/ SendOther(t) \/ FailAwayReply(t)
    BY <2>1 DEF Address, SendOther, FailAwayReply
  <2>2. CASE EvictCount(t) \/ EvictRemove(t) \/ EvictClose(t)
    BY <2>2 DEF EvictCount, EvictRemove, EvictClose
  <2> QED BY <1>10, <2>1, <2>2 DEF Relay
<1> QED BY <1>1, <1>2, <1>3, <1>4, <1>5, <1>6, <1>7, <1>8, <1>9, <1>10 DEF Moves, Step

\* Progress of a thread that does not take the step.
LEMMA Bystander ==
  ASSUME TypeOK, NEW u \in Conns, Progress(u),
         pc'[u] = pc[u], socket'[u] = socket[u], nickname'[u] = nickname[u],
         username'[u] = username[u], firstTimeLogin'[u] = firstTimeLogin[u],
         Live(u) => KeepsEntry(socket[u])
  PROVE  Progress(u)'
<1>1. CASE ~Live(u)
  <2>1. pc[u] \in {"none", "ended"}
    BY <1>1 DEF Live
  <2> QED BY <2>1 DEF Progress, Early, AtRest, Leaving, Complete
<1>2. CASE Live(u)
  <2>1. (Own(u)' = {}) <=> (Own(u) = {})
    BY <1>2 DEF KeepsEntry, Own, WithSock
  <2>2. EntryAgrees(u) => EntryAgrees(u)'
    BY <1>2 DEF KeepsEntry, Own, WithSock, EntryAgrees
  <2>3. EntryMayLag(u) => EntryMayLag(u)'
    BY <1>2 DEF KeepsEntry, Own, WithSock, EntryMayLag
  <2>4. (\A i \in Own(u) : clients[i].nick = NoNick) => (\A i \in Own(u) : clients[i].nick = NoNick)'
    BY <1>2 DEF KeepsEntry, Own, WithSock
  <2>5. Complete(u)' <=> Complete(u)
    BY DEF Complete
  <2> HIDE DEF Own, EntryAgrees, EntryMayLag, Complete
  <2> QED BY <2>1, <2>2, <2>3, <2>4, <2>5 DEF Progress
<1> QED BY <1>1, <1>2

----------------------------------------------------------------------------
(* Progress of the thread that takes the step *)

Goes(t, next) == pc'[t] = next /\ socket'[t] = socket[t]

LEMMA SameList ==
  ASSUME clients' = clients, NEW t \in Conns, socket'[t] = socket[t]
  PROVE  Own(t)' = Own(t) /\ \A i \in Own(t) : clients'[i] = clients[i]
BY DEF Own, WithSock

\* A nick in the list is not the empty one.
LEMMA NickListed ==
  ASSUME NEW t \in Conns, NEW i \in Own(t), clients[i].nick = nickname[t], nickname[t] # NoNick
  PROVE  is_already_nick(nickname[t])
BY DEF Own, WithSock, WithNick, is_already_nick

LEMMA StartProgress ==
  ASSUME IInv, NEW t \in Conns, Keeps(t), SetupDone(t) \/ SignalSetup(t) \/ CountUnregistered(t)
  PROVE  Progress(t)'
<1>1. /\ Progress(t) /\ TypeOK /\ pc[t] \in {"setup", "signal", "count"}
      /\ clients' = clients /\ socket' = socket /\ nickname' = nickname /\ username' = username
      /\ firstTimeLogin' = firstTimeLogin /\ pc'[t] \in {"signal", "count", "read"}
  BY DEF IInv, SetupDone, SignalSetup, CountUnregistered, Go, TypeOK, registry, locals
<1>2. firstTimeLogin[t] /\ nickname[t] = NoNick /\ username[t] = NoUser /\ Own(t) = {}
  BY <1>1 DEF Progress, Early
<1>3. Own(t)' = {}
  BY <1>1, <1>2, SameList
<1> HIDE DEF Own
<1> QED BY <1>1, <1>2, <1>3 DEF Progress, Early, AtRest, EntryAgrees, Leaving

\* Where a client that has registered goes.
Elsewhere ==
  {"tail", "reply", "quit", "farewell", "send", "evict", "evict_remove", "evict_close", "stuck"}

\* A step to a place about which Progress says what it said before, or nothing.
LEMMA PlainProgress ==
  ASSUME TypeOK, NEW t \in Conns, Progress(t),
         clients' = clients, socket'[t] = socket[t], nickname'[t] = nickname[t],
         username'[t] = username[t], firstTimeLogin'[t] = firstTimeLogin[t],
         \/ pc'[t] = pc[t]
         \/ pc[t] \in AtRest /\ pc'[t] \in AtRest \cup {"tail"}
         \/ /\ pc[t] \notin Leaving \cup {"none"}
            /\ pc'[t] \in {"quit", "gone", "gone_twice", "count_quit", "remove", "remove_twice"}
         \/ pc[t] \in Leaving /\ pc'[t] \in {"remove", "remove_twice"}
         \/ pc[t] \notin Leaving /\ ~firstTimeLogin[t] /\ pc'[t] \in Elsewhere
  PROVE  Progress(t)'
<1>1. /\ Own(t)' = Own(t) /\ \A i \in Own(t) : clients'[i] = clients[i]
  BY SameList
<1>2. /\ EntryAgrees(t)' <=> EntryAgrees(t)
      /\ EntryMayLag(t)' <=> EntryMayLag(t)
      /\ (\A i \in Own(t) : clients[i].nick = NoNick)' <=> (\A i \in Own(t) : clients[i].nick = NoNick)
      /\ Complete(t)' <=> Complete(t)
  BY <1>1 DEF EntryAgrees, EntryMayLag, Complete
<1>3. EntryAgrees(t) => EntryMayLag(t)
  BY DEF EntryAgrees, EntryMayLag
<1>4. Complete(t) => nickname[t] # NoNick
  BY DEF Complete
<1> HIDE DEF Own, EntryAgrees, EntryMayLag, Complete
<1>5. CASE pc'[t] = pc[t]
  BY <1>1, <1>2, <1>5 DEF Progress
<1>6. CASE pc[t] \in AtRest /\ pc'[t] \in AtRest
  BY <1>1, <1>2, <1>6 DEF Progress, AtRest, Early, Leaving
<1>7. CASE pc[t] \in AtRest /\ pc'[t] = "tail"
  BY <1>1, <1>2, <1>3, <1>4, <1>7 DEF Progress, AtRest, Early, Leaving
<1>8. CASE /\ pc[t] \notin Leaving \cup {"none"}
           /\ pc'[t] \in {"quit", "gone", "gone_twice", "count_quit", "remove", "remove_twice"}
  BY <1>1, <1>2, <1>8 DEF Progress, AtRest, Early, Leaving
<1>9. CASE pc[t] \in Leaving /\ pc'[t] \in {"remove", "remove_twice"}
  BY <1>1, <1>2, <1>9 DEF Progress, AtRest, Early, Leaving
<1>10. CASE pc[t] \notin Leaving /\ ~firstTimeLogin[t] /\ pc'[t] \in Elsewhere
  BY <1>1, <1>2, <1>10 DEF Progress, AtRest, Early, Leaving, Elsewhere
<1> QED BY <1>5, <1>6, <1>7, <1>8, <1>9, <1>10

LEMMA TakeNickProgress == ASSUME IInv, NEW t \in Conns, Keeps(t), TakeNick(t) PROVE Progress(t)'
<1>0. /\ Progress(t) /\ TypeOK /\ ListOK /\ pc[t] = "nick" /\ socket[t] \notin lost /\ lost' = lost
      /\ pc'[t] \in {"tail", "gone"} \/ (pc'[t] = "hung" /\ ~firstTimeLogin[t])
      /\ socket' = socket /\ username' = username /\ firstTimeLogin' = firstTimeLogin
      /\ nickname'[t] = params[t] /\ params[t] \in Nicks \cup {NoNick}
  BY DistinctInInvariant DEF IInv, Keeps, TakeNick, Go, TypeOK, AfterSend, AfterNickSend, relays
<1>1. CASE is_already_nick(nickname[t])
  <2>1. clients' = change_nick_from_sock(socket[t], params[t]) /\ nickname[t] # NoNick
    BY <1>1 DEF TakeNick, is_already_nick
  <2>2. /\ SameSocks
        /\ \A i \in DOMAIN clients :
             /\ clients'[i].user = clients[i].user
             /\ clients[i].sock = socket[t] => clients'[i].nick = params[t]
    BY <1>0, <2>1, NickChanged
  <2>3. Own(t)' = Own(t) /\ \A i \in Own(t)' : clients'[i].nick = nickname'[t]
    BY <1>0, <2>2 DEF SameSocks, Own, WithSock
  <2>4. Own(t) # {}
    BY <1>0, <2>1 DEF Progress, AtRest, Leaving
  <2>5. Own(t)' # {} /\ EntryMayLag(t)'
    BY <2>3, <2>4 DEF EntryMayLag
  <2> HIDE DEF Own, EntryMayLag
  <2> QED BY <1>0, <2>5 DEF Progress, AtRest, Early, Leaving
<1>2. CASE ~is_already_nick(nickname[t])
  <2>1. clients' = clients
    BY <1>2 DEF TakeNick
  <2>2. Own(t)' = Own(t) /\ \A i \in Own(t) : clients'[i] = clients[i]
    BY <1>0, <2>1, SameList
  <2>3. CASE ~firstTimeLogin[t]
    <3>1. Own(t)' # {}
      BY <1>0, <2>2, <2>3 DEF Progress, Leaving
    <3> HIDE DEF Own
    <3> QED BY <1>0, <2>3, <3>1 DEF Progress, AtRest, Early, Leaving
  <2>4. CASE firstTimeLogin[t]
    <3>1. /\ EntryAgrees(t)
          /\ nickname[t] # NoNick \/ username[t] # NoUser => Own(t) # {}
      BY <1>0, <2>4 DEF Progress, AtRest
    <3>2. nickname[t] = NoNick
      <4> SUFFICES ASSUME nickname[t] # NoNick PROVE FALSE
        OBVIOUS
      <4>1. PICK i \in Own(t) : clients[i].nick = nickname[t]
        BY <3>1 DEF EntryAgrees
      <4> QED BY <1>2, <4>1, NickListed
    <3>3. EntryMayLag(t)'
      BY <1>0, <2>2, <3>1, <3>2 DEF EntryAgrees, EntryMayLag
    <3>4. Complete(t)' => Own(t)' # {}
      BY <1>0, <2>2, <3>1 DEF Complete
    <3> HIDE DEF Own, EntryMayLag, Complete
    <3> QED BY <1>0, <2>4, <3>3, <3>4 DEF Progress, AtRest, Early, Leaving
  <2> QED BY <1>0, <2>3, <2>4
<1> QED BY <1>1, <1>2

LEMMA TakeUserProgress == ASSUME IInv, NEW t \in Conns, Keeps(t), TakeUser(t) PROVE Progress(t)'
<1>0. /\ Progress(t) /\ TypeOK /\ ListOK /\ pc[t] = "user" /\ pc'[t] = "tail"
      /\ clients' = clients /\ socket' = socket /\ nickname' = nickname /\ firstTimeLogin' = firstTimeLogin
      /\ username'[t] = t /\ t # NoUser
  BY DistinctInInvariant, ConnsAreNumbers DEF IInv, TakeUser, Go, TypeOK, registry
<1>1. Own(t)' = Own(t) /\ \A i \in Own(t) : clients'[i] = clients[i]
  BY <1>0, SameList
<1>2. CASE ~firstTimeLogin[t]
  <2>1. Own(t)' # {}
    BY <1>0, <1>1, <1>2 DEF Progress, Leaving
  <2> HIDE DEF Own
  <2> QED BY <1>0, <1>2, <2>1 DEF Progress, AtRest, Early, Leaving
<1>3. CASE firstTimeLogin[t]
  <2>1. EntryAgrees(t) /\ (nickname[t] # NoNick => Own(t) # {})
    BY <1>0, <1>3 DEF Progress, AtRest
  <2>2. EntryMayLag(t)' /\ (Complete(t)' => Own(t)' # {})
    BY <1>0, <1>1, <2>1 DEF EntryAgrees, EntryMayLag, Complete
  <2> HIDE DEF Own, EntryMayLag, Complete
  <2> QED BY <1>0, <1>3, <2>2 DEF Progress, AtRest, Early, Leaving
<1> QED BY <1>0, <1>2, <1>3 DEF TypeOK

\* No thread that is complete, and in the list, is added again: its nick is found or, if the
\* entry lags behind, its user name is.
LEMMA BranchProgress == ASSUME IInv, NEW t \in Conns, Keeps(t), ChooseBranch(t) PROVE Progress(t)'
<1>0. /\ Progress(t) /\ TypeOK /\ ListOK /\ socket[t] \notin lost /\ pc[t] = "tail" /\ pc'[t] = Branch(t)
      /\ clients' = clients /\ socket' = socket /\ nickname' = nickname /\ username' = username
      /\ firstTimeLogin' = firstTimeLogin
  BY DistinctInInvariant DEF IInv, Keeps, ChooseBranch, Go, TypeOK, registry, locals
<1>1. /\ Own(t)' = Own(t) /\ \A i \in Own(t) : clients'[i] = clients[i]
      /\ EntryAgrees(t)' <=> EntryAgrees(t)
      /\ (\A i \in Own(t) : clients[i].nick = NoNick)' <=> (\A i \in Own(t) : clients[i].nick = NoNick)
      /\ Complete(t)' <=> Complete(t)
  <2>1. Own(t)' = Own(t) /\ \A i \in Own(t) : clients'[i] = clients[i]
    BY <1>0, SameList
  <2> QED BY <1>0, <2>1 DEF EntryAgrees, Complete
<1>2. CASE ~firstTimeLogin[t]
  <2>1. pc'[t] = "read"
    BY <1>0, <1>2 DEF Branch
  <2>2. Own(t)' # {}
    BY <1>0, <1>1, <1>2 DEF Progress, Leaving
  <2> HIDE DEF Own
  <2> QED BY <1>0, <1>2, <2>1, <2>2 DEF Progress, AtRest, Early, Leaving
<1>3. CASE firstTimeLogin[t]
  <2>1. EntryMayLag(t) /\ (Complete(t) => Own(t) # {})
    BY <1>0, <1>3 DEF Progress
  <2>2. CASE Complete(t)
    <3>1. PICK i \in Own(t) : TRUE
      BY <2>1, <2>2
    <3>2. is_already_nick(nickname[t]) \/ HasUser(socket[t])
      <4>1. CASE clients[i].nick = nickname[t]
        BY <2>2, <3>1, <4>1, NickListed DEF Complete
      <4>2. CASE clients[i].nick # nickname[t]
        <5>1. clients[i].user # NoUser
          BY <2>1, <2>2, <3>1, <4>2 DEF EntryMayLag, Complete
        <5> QED BY <1>0, <3>1, <5>1, FoundFields DEF Own
      <4> QED BY <4>1, <4>2
    <3>3. pc'[t] \in {"set_user_of_nick", "set_nick"}
      BY <1>0, <1>3, <2>2, <3>2 DEF Branch
    <3>4. Own(t)' # {}
      BY <1>1, <3>1
    <3> HIDE DEF Own, Complete
    <3> QED BY <1>0, <1>1, <1>3, <2>2, <3>3, <3>4 DEF Progress, AtRest, Early, Leaving
  <2>3. CASE ~Complete(t) /\ nickname[t] = NoNick /\ username[t] = NoUser
    <3>1. pc'[t] = "read"
      BY <1>0, <1>3, <2>3 DEF Branch
    <3>2. EntryAgrees(t)
      BY <2>1, <2>3 DEF EntryMayLag, EntryAgrees
    <3> HIDE DEF Own, EntryAgrees, Complete
    <3> QED BY <1>0, <1>1, <1>3, <2>3, <3>1, <3>2 DEF Progress, AtRest, Early, Leaving
  <2>4. CASE ~Complete(t) /\ (nickname[t] # NoNick \/ username[t] # NoUser)
    <3>1. CASE Own(t) = {}
      <4>1. pc'[t] = "add"
        BY <1>0, <1>3, <2>4, <3>1 DEF Branch, is_registered, Own
      <4> HIDE DEF Own
      <4> QED BY <1>0, <1>1, <1>3, <3>1, <4>1 DEF Progress, AtRest, Early, Leaving, Complete
    <3>2. CASE Own(t) # {} /\ nickname[t] # NoNick
      <4>1. pc'[t] = "set_nick" /\ username[t] = NoUser
        BY <1>0, <1>3, <2>4, <3>2 DEF Branch, is_registered, Own, Complete
      <4> HIDE DEF Own
      <4> QED BY <1>0, <1>1, <1>3, <3>2, <4>1 DEF Progress, AtRest, Early, Leaving
    <3>3. CASE Own(t) # {} /\ nickname[t] = NoNick
      <4>1. pc'[t] = "set_user"
        BY <1>0, <1>3, <2>4, <3>3 DEF Branch, is_registered, Own
      <4>2. \A i \in Own(t) : clients[i].nick = NoNick
        BY <2>1, <3>3 DEF EntryMayLag
      <4> HIDE DEF Own
      <4> QED BY <1>0, <1>1, <1>3, <3>3, <4>1, <4>2 DEF Progress, AtRest, Early, Leaving
    <3> QED BY <3>1, <3>2, <3>3
  <2> QED BY <2>2, <2>3, <2>4
<1> QED BY <1>0, <1>2, <1>3 DEF TypeOK

LEMMA RegisterProgress == ASSUME IInv, NEW t \in Conns, Keeps(t), Register(t) PROVE Progress(t)'
<1>0. /\ Progress(t) /\ Steady(t) /\ TypeOK /\ ListOK /\ clients' = Registered(t)
      /\ socket[t] \notin lost /\ lost' = lost
      /\ pc[t] \in {"set_user_of_nick", "set_nick", "set_user", "add"}
      /\ pc'[t] = IF Complete(t) THEN "promote" ELSE "read"
      /\ socket' = socket /\ nickname' = nickname /\ username' = username /\ firstTimeLogin' = firstTimeLogin
      /\ socket[t] \in Sockets /\ nickname[t] \in Nicks \cup {NoNick} /\ username[t] \in Conns \cup {NoUser}
  BY DistinctInInvariant, LocalTypes DEF IInv, Keeps, Register, Go, TypeOK, locals, relays
<1>1. /\ Own(t)' # {} /\ (~Complete(t) => EntryAgrees(t)')
  <2>1. CASE pc[t] = "set_user_of_nick"
    <3>1. clients' = change_user_from_nick(nickname[t], username[t])
      BY <1>0, <2>1 DEF Registered
    <3>2. SameSocks
      BY <1>0, <3>1, UserOfNickChanged
    <3>3. Complete(t) /\ Own(t) # {}
      BY <1>0, <2>1 DEF Progress
    <3> QED BY <1>0, <3>2, <3>3 DEF SameSocks, Own, WithSock
  <2>2. CASE pc[t] = "set_nick"
    <3>1. clients' = change_nick_from_sock(socket[t], nickname[t])
      BY <1>0, <2>2 DEF Registered
    <3>2. /\ SameSocks
          /\ \A i \in DOMAIN clients :
               /\ clients'[i].user = clients[i].user
               /\ clients[i].sock = socket[t] => clients'[i].nick = nickname[t]
      BY <1>0, <3>1, NickChanged
    <3>3. Own(t) # {} /\ (~Complete(t) => username[t] = NoUser)
      BY <1>0, <2>2 DEF Progress
    <3>4. Own(t)' = Own(t) /\ \A i \in Own(t)' : clients'[i].nick = nickname[t]
      BY <1>0, <3>2 DEF SameSocks, Own, WithSock
    <3> HIDE DEF Own
    <3> QED BY <1>0, <3>3, <3>4 DEF EntryAgrees
  <2>3. CASE pc[t] = "set_user"
    <3>1. clients' = change_user_from_sock(socket[t], username[t])
      BY <1>0, <2>3 DEF Registered
    <3>2. /\ SameSocks
          /\ \A i \in DOMAIN clients :
               /\ clients'[i].nick = clients[i].nick
               /\ clients[i].sock = socket[t] => clients'[i].user = username[t]
      BY <1>0, <3>1, UserChanged
    <3>3. Own(t) # {} /\ nickname[t] = NoNick /\ \A i \in Own(t) : clients[i].nick = NoNick
      BY <1>0, <2>3 DEF Progress
    <3>4. /\ Own(t)' = Own(t)
          /\ \A i \in Own(t)' : clients'[i].nick = nickname[t] /\ clients'[i].user = username[t]
      BY <1>0, <3>2, <3>3 DEF SameSocks, Own, WithSock
    <3> HIDE DEF Own
    <3> QED BY <1>0, <3>3, <3>4 DEF EntryAgrees
  <2>4. CASE pc[t] = "add"
    <3>1. clients' = add_client(socket[t], nickname[t], username[t])
      BY <1>0, <2>4 DEF Registered
    <3>2. WithSock(socket[t]) = {}
      BY <1>0, <2>4 DEF Progress, Own
    <3>3. /\ \E j \in DOMAIN clients' : clients'[j].sock = socket[t]
          /\ \A j \in DOMAIN clients' : clients'[j].sock = socket[t] =>
               clients'[j].nick = nickname[t] /\ clients'[j].user = username[t]
      BY <1>0, <3>1, <3>2, Added
    <3> QED BY <1>0, <3>3 DEF EntryAgrees, Own, WithSock
  <2> QED BY <1>0, <2>1, <2>2, <2>3, <2>4
<1> HIDE DEF Own, EntryAgrees, Complete
<1> QED BY <1>0, <1>1 DEF Progress, AtRest, Early, Leaving

LEMMA WelcomeProgress == ASSUME IInv, NEW t \in Conns, Keeps(t), Promote(t) \/ Welcome(t) PROVE Progress(t)'
<1>0. /\ Progress(t) /\ TypeOK /\ pc[t] \in {"promote", "welcome"}
      /\ clients' = clients /\ socket' = socket
      /\ \/ pc'[t] = "welcome"
         \/ pc'[t] = "read" /\ ~firstTimeLogin'[t]
         \/ pc'[t] = "gone" /\ firstTimeLogin'[t]
  BY DEF IInv, Promote, Welcome, AfterSend, Go, TypeOK, registry, locals
<1>1. Own(t)' = Own(t) /\ Own(t) # {}
  <2>1. Own(t) # {}
    BY <1>0 DEF Progress
  <2> QED BY <1>0, <2>1, SameList
<1> HIDE DEF Own
<1> QED BY <1>0, <1>1 DEF Progress, AtRest, Early, Leaving

\* remove_client leaves no entry of the descriptor that is closed next.
LEMMA LeavingProgress ==
  ASSUME IInv, NEW t \in Conns, (Keeps(t) /\ RemoveClient(t)) \/ Close(t)
  PROVE  Progress(t)'
<1>0. TypeOK /\ ListOK /\ socket[t] \in Sockets
  BY DistinctInInvariant, LocalTypes DEF IInv
<1>1. CASE Keeps(t) /\ RemoveClient(t)
  <2>1. /\ clients' = remove_client(socket[t]) /\ socket' = socket /\ pc'[t] \in {"close", "remove"}
        /\ lost' = lost /\ socket[t] \notin lost
    BY <1>0, <1>1 DEF RemoveClient, Keeps, Go, TypeOK, locals, relays
  <2>2. \A j \in DOMAIN clients' : clients'[j].sock # socket[t]
    BY <1>0, <2>1, Removed
  <2>3. Own(t)' = {}
    BY <2>1, <2>2 DEF Own, WithSock
  <2> HIDE DEF Own
  <2> QED BY <2>1, <2>3 DEF Progress, AtRest, Early, Leaving
<1>2. CASE Close(t)
  <2>1. pc'[t] = "ended"
    BY <1>0, <1>2 DEF Close, Go, TypeOK
  <2> QED BY <2>1 DEF Progress, AtRest, Early, Leaving
<1> QED BY <1>1, <1>2

\* A thread that gives somebody else up keeps its own entry.
LEMMA EvictProgress == ASSUME IInv, NEW t \in Conns, Keeps(t), EvictRemove(t) PROVE Progress(t)'
<1>1. /\ TypeOK /\ Progress(t) /\ ~firstTimeLogin[t] /\ pc'[t] = "evict_close" /\ pc[t] = "evict_remove"
      /\ socket'[t] = socket[t] /\ firstTimeLogin'[t] = firstTimeLogin[t] /\ socket[t] \in Sockets \ lost
  BY DEF IInv, Keeps, Steady, EvictRemove, Go, TypeOK, locals
<1>2. Own(t) # {}
  BY <1>1 DEF Progress, Leaving
<1>3. KeepsEntry(socket[t])
  BY <1>1, TheListStep DEF ListSteps
<1>4. Own(t)' # {}
  BY <1>1, <1>2, <1>3 DEF Own, WithSock, KeepsEntry
<1> HIDE DEF Own
<1> QED BY <1>1, <1>4 DEF Progress, AtRest, Early, Leaving

\* The relays and the accidents change nothing that Progress is about.
LEMMA RelayProgress ==
  ASSUME IInv, NEW t \in Conns, Keeps(t)',
         Abandon(t) \/ LockTwice(t) \/ (Relay(t) /\ ~EvictRemove(t)) \/ Farewell(t) \/ QuitReply(t) \/ Crash(t)
  PROVE  Progress(t)'
<1>0. /\ TypeOK /\ Steady(t) /\ (Keeps(t) => Progress(t)) /\ pc[t] \in Phases
  BY DEF IInv, TypeOK
<1> USE DEF Go, TypeOK, registry, locals, relays
<1>1. ~Abandon(t)
  BY <1>0 DEF Abandon, Keeps
<1>2. CASE LockTwice(t) \/ Farewell(t) \/ QuitReply(t) \/ Crash(t)
  <2>1. /\ clients' = clients /\ socket' = socket /\ nickname' = nickname /\ username' = username
        /\ firstTimeLogin' = firstTimeLogin /\ lost' = lost
        /\ \/ pc'[t] = pc[t]
           \/ pc[t] = "quit" /\ pc'[t] \in {"farewell", "gone"}
           \/ pc[t] = "farewell" /\ pc'[t] = "count_quit"
           \/ pc[t] = "reply" /\ ~firstTimeLogin[t] /\ pc'[t] = "stuck"
    BY <1>0, <1>2 DEF LockTwice, Farewell, QuitReply, Crash, BadFree, CrashLookup, CrashNick, AfterSend
  <2>2. Keeps(t) /\ (pc[t] = "quit" => ~firstTimeLogin[t])
    BY <1>0, <2>1 DEF Keeps, Steady
  <2>3. \/ pc'[t] = pc[t]
        \/ pc[t] \notin Leaving \cup {"none"} /\ pc'[t] \in {"gone", "count_quit"}
        \/ pc[t] \notin Leaving /\ ~firstTimeLogin[t] /\ pc'[t] \in Elsewhere
    BY <2>1, <2>2 DEF Elsewhere, Leaving
  <2> HIDE DEF Progress
  <2> QED BY <1>0, <2>1, <2>2, <2>3, PlainProgress
<1>3. CASE Relay(t) /\ ~EvictRemove(t)
  <2>1. /\ clients' = clients /\ socket' = socket /\ nickname' = nickname /\ username' = username
        /\ firstTimeLogin' = firstTimeLogin /\ lost \subseteq lost'
        /\ pc[t] \in {"farewell", "reply", "send", "evict", "evict_close"}
        /\ pc[t] = "reply" => ~firstTimeLogin[t]
        /\ pc'[t] \in {"send", "tail", "count_quit", "evict", "evict_remove", "reply", "farewell"}
    <3>1. CASE Address(t) \/ FailAwayReply(t)
      BY <1>0, <3>1 DEF Address, FailAwayReply
    <3>2. CASE SendOther(t)
      BY <1>0, <3>2 DEF SendOther, AfterSend, AfterRelay
    <3>3. CASE EvictCount(t)
      BY <1>0, <3>3 DEF EvictCount
    <3>4. CASE EvictClose(t)
      BY <1>0, <3>4 DEF EvictClose
    <3> QED BY <1>3, <3>1, <3>2, <3>3, <3>4 DEF Relay
  <2>2. Keeps(t) /\ ~firstTimeLogin[t]
    BY <1>0, <2>1 DEF Keeps, Steady
  <2>3. \/ pc[t] \notin Leaving \cup {"none"} /\ pc'[t] = "count_quit"
        \/ pc[t] \notin Leaving /\ ~firstTimeLogin[t] /\ pc'[t] \in Elsewhere
    BY <2>1, <2>2 DEF Elsewhere, Leaving
  <2> HIDE DEF Progress
  <2> QED BY <1>0, <2>1, <2>2, <2>3, PlainProgress
<1> QED BY <1>1, <1>2, <1>3

LEMMA OwnProgress ==
  ASSUME IInv, NEW t \in Conns, Moves(t), Keeps(t)'
  PROVE  Progress(t)'
<1>0. /\ TypeOK /\ (Keeps(t) => Progress(t))
      /\ Close(t) \/ Keeps(t)
  BY StepsAreLocal DEF IInv, Keeps
<1>1. CASE SetupDone(t) \/ SignalSetup(t) \/ CountUnregistered(t)
  <2>1. ~Close(t)
    BY <1>1 DEF SetupDone, SignalSetup, CountUnregistered, Close
  <2> QED BY <1>0, <1>1, <2>1, StartProgress
<1>2. CASE EndOfFile(t) \/ Reply(t) \/ RefuseNick(t) \/ RefuseUser(t)
  <2>1. /\ clients' = clients /\ socket' = socket /\ nickname' = nickname /\ username' = username
        /\ firstTimeLogin' = firstTimeLogin
        /\ pc[t] \in AtRest /\ pc'[t] \in {"tail", "gone", "gone_twice"}
    BY <1>0, <1>2 DEF EndOfFile, Reply, RefuseNick, RefuseUser, AfterSend, Go, TypeOK, AtRest, registry, locals
  <2>2. pc[t] \notin Leaving \cup {"none"} /\ Progress(t)
    BY <1>0, <2>1 DEF AtRest, Leaving, Close
  <2> HIDE DEF Progress
  <2> QED BY <1>0, <2>1, <2>2, PlainProgress
<1>3. CASE CountGone(t) \/ CountQuit(t)
  <2>1. /\ clients' = clients /\ socket' = socket /\ nickname' = nickname /\ username' = username
        /\ firstTimeLogin' = firstTimeLogin
        /\ pc[t] \in {"gone", "gone_twice", "count_quit"} /\ pc'[t] \in {"remove", "remove_twice"}
    BY <1>0, <1>3 DEF CountGone, CountQuit, Go, TypeOK, registry, locals
  <2>2. pc[t] \notin Leaving \cup {"none"} /\ Progress(t)
    BY <1>0, <2>1 DEF Leaving, Close
  <2> HIDE DEF Progress
  <2> QED BY <1>0, <2>1, <2>2, PlainProgress
<1>4. CASE Arrive(t) \/ Hangup(t)
  <2>1. /\ clients' = clients /\ socket' = socket /\ nickname' = nickname /\ username' = username
        /\ firstTimeLogin' = firstTimeLogin /\ ~Close(t)
        /\ \/ pc'[t] = pc[t]
           \/ pc[t] = "read" /\ pc'[t] \in AtRest \cup {"gone"}
           \/ pc[t] = "read" /\ ~firstTimeLogin[t] /\ pc'[t] = "quit"
    <3>1. CASE Hangup(t)
      BY <1>0, <3>1 DEF Hangup, Close, Go, TypeOK, registry, locals
    <3>2. CASE ReadNick(t)
      <4>1. Read(t, "nick")
        BY <3>2 DEF ReadNick
      <4> QED BY <1>0, <4>1 DEF Read, Close, Go, TypeOK, AtRest, registry
    <3>3. CASE ReadUser(t) \/ ReadQuit(t) \/ ReadOther(t)
      BY <1>0, <3>3 DEF ReadUser, ReadQuit, ReadOther, Read, Close, Go, TypeOK, AtRest, registry
    <3>4. CASE LateEndOfFile(t)
      BY <1>0, <3>4 DEF LateEndOfFile, Close, Go, TypeOK, registry, locals
    <3> QED BY <1>4, <3>1, <3>2, <3>3, <3>4 DEF Arrive
  <2>2. pc[t] = "read" => pc[t] \in AtRest /\ pc[t] \notin Leaving \cup {"none"}
    BY DEF AtRest, Leaving
  <2>3. Progress(t)
    BY <1>0, <2>1
  <2>4. \/ pc'[t] = pc[t]
        \/ pc[t] \in AtRest /\ pc'[t] \in AtRest
        \/ pc[t] \notin Leaving \cup {"none"} /\ pc'[t] \in {"quit", "gone"}
    BY <2>1, <2>2
  <2> HIDE DEF Progress
  <2> QED BY <1>0, <2>1, <2>3, <2>4, PlainProgress
<1>5. CASE TakeNick(t) \/ TakeUser(t)
  <2>1. ~Close(t)
    BY <1>5 DEF TakeNick, TakeUser, Close
  <2> QED BY <1>0, <1>5, <2>1, TakeNickProgress, TakeUserProgress
<1>6. CASE ChooseBranch(t) \/ Register(t)
  <2>1. ~Close(t)
    BY <1>6 DEF ChooseBranch, Register, Close
  <2> QED BY <1>0, <1>6, <2>1, BranchProgress, RegisterProgress
<1>7. CASE Promote(t) \/ Welcome(t)
  <2>1. ~Close(t)
    BY <1>7 DEF Promote, Welcome, Close
  <2> QED BY <1>0, <1>7, <2>1, WelcomeProgress
<1>8. CASE RemoveClient(t) \/ Close(t)
  BY <1>0, <1>8, LeavingProgress
<1>9. CASE EvictRemove(t)
  <2>1. ~Close(t)
    BY <1>9 DEF EvictRemove, Close
  <2> QED BY <1>0, <1>9, <2>1, EvictProgress
<1>10. CASE Abandon(t) \/ LockTwice(t) \/ (Relay(t) /\ ~EvictRemove(t)) \/ Farewell(t) \/ QuitReply(t) \/ Crash(t)
  BY <1>10, RelayProgress
<1> QED BY <1>1, <1>2, <1>3, <1>4, <1>5, <1>6, <1>7, <1>8, <1>9, <1>10 DEF Moves, Step

----------------------------------------------------------------------------
(* The other parts of the invariant *)

Present(t) == pc[t] \notin {"none", "close", "ended"}

LEMMA RelayStays ==
  ASSUME TypeOK, NEW t \in Conns, Relay(t)
  PROVE  /\ socket' = socket /\ registeredClients' \in Int /\ unregisteredClients' \in Int
         /\ pc[t] \in {"farewell", "reply", "send", "evict", "evict_remove", "evict_close"}
         /\ pc'[t] \in {"send", "tail", "count_quit", "evict", "evict_remove", "evict_close", "reply", "farewell"}
         /\ ~EvictCount(t) =>
              registeredClients' = registeredClients /\ unregisteredClients' = unregisteredClients /\ drift' = drift
<1> USE DEF Go, TypeOK, registry, locals, relays
<1>1. CASE Address(t) \/ FailAwayReply(t)
  BY <1>1 DEF Address, FailAwayReply
<1>2. CASE SendOther(t)
  BY <1>2 DEF SendOther, AfterSend, AfterRelay
<1>3. CASE EvictCount(t)
  BY <1>3 DEF EvictCount, Discount
<1>4. CASE EvictRemove(t)
  BY <1>4 DEF EvictRemove
<1>5. CASE EvictClose(t)
  BY <1>5 DEF EvictClose
<1> QED BY <1>1, <1>2, <1>3, <1>4, <1>5 DEF Relay

\* While a thread has not removed its entry it does not go to where it must have none, unless
\* it leaves the entry behind.
LEMMA StaysPresent ==
  ASSUME TypeOK, NEW t \in Conns, Present(t), Moves(t), ~RemoveClient(t), ~Abandon(t)
  PROVE  Present(t)' /\ socket'[t] = socket[t]
<1>1. CASE SetupDone(t) \/ SignalSetup(t) \/ CountUnregistered(t) \/ EndOfFile(t) \/ Reply(t) \/ LockTwice(t)
  BY <1>1 DEF SetupDone, SignalSetup, CountUnregistered, EndOfFile, Reply, LockTwice, AfterSend, Go, TypeOK,
              Present, locals
<1>2. CASE RefuseNick(t) \/ TakeNick(t) \/ TakeUser(t) \/ RefuseUser(t)
  BY <1>2 DEF RefuseNick, TakeNick, TakeUser, RefuseUser, AfterNickSend, AfterSend, Go, TypeOK, Present, locals
<1>3. CASE ChooseBranch(t)
  <2>1. Branch(t) \in {"read", "set_user_of_nick", "set_nick", "set_user", "add"}
    BY DEF Branch
  <2> QED BY <1>3, <2>1 DEF ChooseBranch, Go, TypeOK, Present, locals
<1>4. CASE Register(t) \/ Promote(t) \/ Welcome(t)
  BY <1>4 DEF Register, Promote, Welcome, AfterSend, Go, TypeOK, Present, locals
<1>5. CASE CountGone(t) \/ QuitReply(t) \/ Farewell(t) \/ CountQuit(t) \/ Close(t)
  BY <1>5 DEF CountGone, QuitReply, Farewell, CountQuit, Close, AfterSend, Go, TypeOK, Present, locals
<1>6. CASE Arrive(t) \/ Hangup(t) \/ Crash(t)
  BY <1>6 DEF Arrive, ReadNick, ReadUser, ReadQuit, ReadOther, Read, LateEndOfFile, Hangup, Crash, BadFree,
              CrashLookup, CrashNick, Go, TypeOK, Present, locals
<1>7. CASE Relay(t)
  BY <1>7, RelayStays DEF Present
<1> QED BY <1>1, <1>2, <1>3, <1>4, <1>5, <1>6, <1>7 DEF Moves, Step

\* Every entry has a thread: what EntriesAreConnected says besides SocksDistinct.
Connected ==
  \A i \in DOMAIN clients : clients[i].sock \notin lost =>
    \E w \in Conns : Present(w) /\ socket[w] = clients[i].sock

LEMMA EntriesSplit == EntriesAreConnected <=> Connected /\ SocksDistinct
BY DEF EntriesAreConnected, Connected, SocksDistinct, Present

LEMMA StepConnected ==
  ASSUME IInv, NEW t \in Conns, Moves(t)
  PROVE  Connected'
<1>0. /\ TypeOK /\ ListOK /\ Connected /\ (Keeps(t) => Progress(t)) /\ OthersStay(t) /\ lost \subseteq lost'
      /\ socket[t] \in Sockets /\ nickname[t] \in Nicks \cup {NoNick} /\ username[t] \in Conns \cup {NoUser}
      /\ params[t] \in Nicks \cup {NoNick} /\ relay[t].to \in Sockets
  BY DistinctInInvariant, EntriesSplit, StepsAreLocal, LocalTypes DEF IInv
<1>1. CASE RemoveClient(t)
  <2>1. clients' = remove_client(socket[t]) /\ lost' = lost
    BY <1>1 DEF RemoveClient, relays
  <2>2. /\ socket[t] \notin lost => \A j \in DOMAIN clients' : clients'[j].sock # socket[t]
        /\ \A j \in DOMAIN clients' : \E i \in DOMAIN clients : clients[i] = clients'[j]
    BY <1>0, <2>1, Removed
  <2> SUFFICES ASSUME NEW j \in DOMAIN clients', clients'[j].sock \notin lost'
               PROVE  \E w \in Conns : Present(w)' /\ socket'[w] = clients'[j].sock
    BY DEF Connected
  <2>3. PICK i \in DOMAIN clients : clients[i] = clients'[j]
    BY <2>2
  <2>4. PICK w \in Conns : Present(w) /\ socket[w] = clients[i].sock
    BY <1>0, <2>1, <2>3 DEF Connected
  <2>5. w # t
    BY <2>1, <2>2, <2>3, <2>4
  <2> QED BY <1>0, <2>3, <2>4, <2>5 DEF OthersStay, Present
<1>2. CASE Abandon(t)
  <2>1. clients' = clients /\ socket[t] \in lost'
    BY <1>2 DEF Abandon, registry
  <2> SUFFICES ASSUME NEW j \in DOMAIN clients', clients'[j].sock \notin lost'
               PROVE  \E w \in Conns : Present(w)' /\ socket'[w] = clients'[j].sock
    BY DEF Connected
  <2>2. PICK w \in Conns : Present(w) /\ socket[w] = clients[j].sock
    BY <1>0, <2>1 DEF Connected
  <2> QED BY <1>0, <2>1, <2>2 DEF OthersStay, Present
<1>3. CASE ~RemoveClient(t) /\ ~Abandon(t)
  <2>1. \A w \in Conns : Present(w) => Present(w)' /\ socket'[w] = socket[w]
    BY <1>0, <1>3, StaysPresent DEF OthersStay, Present
  <2>2. CASE clients' = clients
    BY <1>0, <2>1, <2>2 DEF Connected
  <2>3. CASE SameSocks
    BY <1>0, <2>1, <2>3 DEF Connected, SameSocks
  <2>4. CASE Register(t) /\ pc[t] = "add"
    <3>1. clients' = add_client(socket[t], nickname[t], username[t]) /\ lost' = lost
      BY <1>0, <2>4 DEF Register, Registered, relays
    <3>2. socket[t] \notin lost => WithSock(socket[t]) = {}
      BY <1>0, <2>4 DEF Progress, Own, Keeps
    <3>3. \A j \in DOMAIN clients' :
            clients'[j].sock # socket[t] => \E i \in DOMAIN clients : clients[i] = clients'[j]
      BY <1>0, <3>1, <3>2, Added
    <3>4. Present(t)
      BY <2>4 DEF Present
    <3> QED BY <1>0, <2>1, <3>3, <3>4 DEF Connected
  <2>5. CASE Register(t) /\ pc[t] # "add"
    <3>1. \/ clients' = change_user_from_nick(nickname[t], username[t])
          \/ clients' = change_nick_from_sock(socket[t], nickname[t])
          \/ clients' = change_user_from_sock(socket[t], username[t])
      BY <2>5 DEF Register, Registered
    <3>2. lost' = lost
      BY <2>5 DEF Register, relays
    <3>3. SameSocks
      BY <1>0, <3>1, <3>2, UserOfNickChanged, NickChanged, UserChanged
    <3> QED BY <2>3, <3>3
  <2>6. CASE TakeNick(t)
    <3>1. (clients' = clients \/ clients' = change_nick_from_sock(socket[t], params[t])) /\ lost' = lost
      BY <2>6 DEF TakeNick, relays
    <3> QED BY <1>0, <2>2, <2>3, <3>1, NickChanged
  <2>7. CASE EvictRemove(t)
    <3>1. clients' = remove_client(relay[t].to) /\ lost' = lost
      BY <2>7 DEF EvictRemove, relays
    <3>2. \A j \in DOMAIN clients' : \E i \in DOMAIN clients : clients[i] = clients'[j]
      BY <1>0, <3>1, Removed
    <3> QED BY <1>0, <2>1, <3>1, <3>2 DEF Connected
  <2>8. clients' = clients \/ ListSteps(t)
    BY <1>0, StepsAreLocal
  <2> QED BY <1>3, <2>2, <2>4, <2>5, <2>6, <2>7, <2>8 DEF ListSteps
<1> QED BY <1>1, <1>2, <1>3

\* The counters: a set that gains, or loses, one connection.
LEMMA CountedIsFinite == IsFiniteSet(Counted) /\ Cardinality(Counted) \in Nat
<1>1. N \in Nat
  BY SizeAssumption
<1>2. IsFiniteSet(Conns)
  BY <1>1, FS_Interval DEF Conns
<1>3. Counted \subseteq Conns
  BY DEF Counted
<1> QED BY <1>2, <1>3, FS_Subset, FS_CardinalityType

Uncounted == Early \cup Leaving

LEMMA CountedStays ==
  ASSUME \A t \in Conns : pc'[t] \notin Uncounted <=> pc[t] \notin Uncounted
  PROVE  Counted' = Counted
BY DEF Counted, Uncounted, Early, Leaving

LEMMA StepTotal ==
  ASSUME IInv, NEW t \in Conns, Moves(t)
  PROVE  TotalAgrees'
<1>0. /\ TypeOK /\ TotalAgrees /\ OthersStay(t) /\ drift \in Int
      /\ registeredClients \in Int /\ unregisteredClients \in Int
  BY StepsAreLocal DEF IInv, TypeOK
<1>a. Cardinality(Counted) \in Int
  BY CountedIsFinite
<1>1. CASE CountUnregistered(t)
  <2>1. /\ registeredClients' + unregisteredClients' = (registeredClients + unregisteredClients) + 1
        /\ pc[t] = "count" /\ pc'[t] = "read" /\ drift' = drift
    BY <1>0, <1>1 DEF CountUnregistered, Go, TypeOK, relays
  <2>2. t \notin Counted /\ Counted' = Counted \cup {t}
    <3>1. \A u \in Conns : u \in Counted' <=> u \in Counted \/ u = t
      BY <1>0, <2>1 DEF Counted, OthersStay, Leaving
    <3> QED BY <2>1, <3>1 DEF Counted
  <2>3. Cardinality(Counted') = Cardinality(Counted) + 1
    BY <2>2, CountedIsFinite, FS_AddElement
  <2>4. registeredClients' + unregisteredClients' = (Cardinality(Counted) + 1) + drift
    BY <1>0, <1>a, <2>1 DEF TotalAgrees
  <2> QED BY <2>1, <2>3, <2>4 DEF TotalAgrees
<1>2. CASE CountGone(t) \/ CountQuit(t)
  <2>1. /\ registeredClients' + unregisteredClients' = (registeredClients + unregisteredClients) - 1
        /\ pc[t] \in {"gone", "gone_twice", "count_quit"} /\ pc'[t] \in {"remove", "remove_twice"} /\ drift' = drift
    BY <1>0, <1>2 DEF CountGone, CountQuit, Discount, Go, TypeOK, relays
  <2>2. t \in Counted /\ Counted' = Counted \ {t}
    <3>1. \A u \in Conns : u \in Counted' <=> u \in Counted /\ u # t
      BY <1>0, <2>1 DEF Counted, OthersStay, Leaving
    <3> QED BY <2>1, <3>1 DEF Counted, Leaving
  <2>3. Cardinality(Counted') = Cardinality(Counted) - 1
    BY <2>2, CountedIsFinite, FS_RemoveElement
  <2> QED BY <1>0, <1>a, <2>1, <2>3 DEF TotalAgrees
<1>3. CASE Promote(t)
  <2>1. /\ registeredClients' + unregisteredClients' = registeredClients + unregisteredClients
        /\ pc[t] = "promote" /\ pc'[t] = "welcome" /\ drift' = drift
    BY <1>0, <1>3 DEF Promote, Go, TypeOK, relays
  <2>2. Counted' = Counted
    BY <1>0, <2>1, CountedStays DEF OthersStay, Uncounted, Early, Leaving
  <2> QED BY <1>0, <2>1, <2>2 DEF TotalAgrees
<1>4. CASE EvictCount(t)
  <2>1. /\ registeredClients' + unregisteredClients' = (registeredClients + unregisteredClients) - 1
        /\ pc[t] = "evict" /\ pc'[t] = "evict_remove" /\ drift' = drift - 1
    BY <1>0, <1>4 DEF EvictCount, Discount, Go, TypeOK
  <2>2. Counted' = Counted
    BY <1>0, <2>1, CountedStays DEF OthersStay, Uncounted, Early, Leaving
  <2>3. registeredClients' + unregisteredClients' = Cardinality(Counted) + (drift - 1)
    BY <1>0, <1>a, <2>1 DEF TotalAgrees
  <2> QED BY <2>1, <2>2, <2>3 DEF TotalAgrees
<1>5. CASE Abandon(t)
  <2>1. /\ registeredClients' = registeredClients /\ unregisteredClients' = unregisteredClients
        /\ pc[t] = "reply" /\ pc'[t] = "close" /\ drift' = drift + 1
    BY <1>0, <1>5 DEF Abandon, Go, TypeOK, registry
  <2>2. t \in Counted /\ Counted' = Counted \ {t}
    <3>1. \A u \in Conns : u \in Counted' <=> u \in Counted /\ u # t
      BY <1>0, <2>1 DEF Counted, OthersStay, Leaving
    <3> QED BY <2>1, <3>1 DEF Counted, Leaving
  <2>3. Cardinality(Counted') = Cardinality(Counted) - 1
    BY <2>2, CountedIsFinite, FS_RemoveElement
  <2> QED BY <1>0, <1>a, <2>1, <2>3 DEF TotalAgrees
<1>6. CASE ~(CountUnregistered(t) \/ CountGone(t) \/ CountQuit(t) \/ Promote(t) \/ EvictCount(t) \/ Abandon(t))
  <2>1. /\ registeredClients' = registeredClients /\ unregisteredClients' = unregisteredClients /\ drift' = drift
        /\ pc'[t] \notin Uncounted <=> pc[t] \notin Uncounted
    <3> USE <1>0 DEF Go, TypeOK, registry, relays, Uncounted, Early, Leaving, AfterSend
    <3>1. CASE SetupDone(t) \/ SignalSetup(t)
      BY <3>1 DEF SetupDone, SignalSetup
    <3>2. CASE EndOfFile(t) \/ Reply(t) \/ QuitReply(t) \/ Farewell(t) \/ LockTwice(t)
      BY <3>2 DEF EndOfFile, Reply, QuitReply, Farewell, LockTwice
    <3>3. CASE RefuseNick(t) \/ TakeNick(t)
      BY <3>3 DEF RefuseNick, TakeNick, AfterNickSend
    <3>4. CASE TakeUser(t) \/ RefuseUser(t)
      BY <3>4 DEF TakeUser, RefuseUser
    <3>5. CASE ChooseBranch(t)
      <4>1. Branch(t) \in {"read", "set_user_of_nick", "set_nick", "set_user", "add"}
        BY DEF Branch
      <4> QED BY <3>5, <4>1 DEF ChooseBranch
    <3>6. CASE Register(t) \/ Welcome(t)
      BY <3>6 DEF Register, Welcome
    <3>7. CASE RemoveClient(t) \/ Close(t)
      BY <3>7 DEF RemoveClient, Close
    <3>8. CASE Arrive(t) \/ Hangup(t)
      BY <3>8 DEF Arrive, ReadNick, ReadUser, ReadQuit, ReadOther, Read, LateEndOfFile, Hangup
    <3>9. CASE Crash(t)
      BY <3>9 DEF Crash, BadFree, CrashLookup, CrashNick
    <3>10. CASE Relay(t)
      BY <1>6, <3>10, RelayStays
    <3> QED BY <1>6, <3>1, <3>2, <3>3, <3>4, <3>5, <3>6, <3>7, <3>8, <3>9, <3>10 DEF Moves, Step
  <2>2. Counted' = Counted
    BY <1>0, <2>1, CountedStays DEF OthersStay
  <2> QED BY <1>0, <2>1, <2>2 DEF TotalAgrees
<1> QED BY <1>1, <1>2, <1>3, <1>4, <1>5, <1>6

LEMMA GoTypes == ASSUME TypeOK, NEW t, NEW next \in Phases, Go(t, next) PROVE pc' \in [Conns -> Phases]
BY DEF TypeOK, Go

LEMMA RelayTypes == ASSUME TypeOK, clients' \in Seq(Client), NEW t \in Conns, Relay(t) PROVE TypeOK'
<1> USE DEF registry, locals, relays
<1>0. /\ relay[t].to \in Sockets /\ relay[t].back \in {"reply", "farewell"} /\ socket[t] \in Sockets
      /\ \A i \in DOMAIN clients : clients[i].sock \in Sockets
  BY LocalTypes, ListFacts DEF TypeOK
<1>1. CASE Address(t) \/ FailAwayReply(t)
  <2>1. pc' \in [Conns -> Phases]
    <3>1. PICK next \in {"send", "evict"} : Go(t, next)
      BY <1>1 DEF Address, FailAwayReply
    <3>2. next \in Phases
      BY DEF Phases
    <3> QED BY <3>1, <3>2, GoTypes
  <2>2. PICK r \in [to : Sockets, back : {"reply", "farewell"}] : relay' = [relay EXCEPT ![t] = r]
    <3>1. CASE Address(t)
      <4>1. PICK i \in DOMAIN clients : relay' = [relay EXCEPT ![t] = [to |-> clients[i].sock, back |-> pc[t]]]
        BY <3>1 DEF Address
      <4>2. pc[t] \in {"reply", "farewell"}
        BY <3>1 DEF Address
      <4> QED BY <1>0, <4>1, <4>2
    <3>2. CASE FailAwayReply(t)
      <4>1. relay' = [relay EXCEPT ![t] = [relay[t] EXCEPT !.to = socket[t]]]
        BY <3>2 DEF FailAwayReply, TypeOK
      <4>2. relay[t] \in [to : Sockets, back : {"reply", "farewell"}]
        BY DEF TypeOK
      <4>3. [relay[t] EXCEPT !.to = socket[t]] \in [to : Sockets, back : {"reply", "farewell"}]
        BY <1>0, <4>2
      <4> QED BY <4>1, <4>3
    <3> QED BY <1>1, <3>1, <3>2
  <2>3. relay' \in [Conns -> [to : Sockets, back : {"reply", "farewell"}]]
    BY <2>2 DEF TypeOK
  <2> QED BY <1>1, <2>1, <2>3 DEF Address, FailAwayReply, TypeOK
<1>2. CASE SendOther(t)
  <2>1. pc' \in [Conns -> Phases]
    BY <1>2 DEF SendOther, AfterSend, AfterRelay, Go, TypeOK, Phases
  <2> QED BY <1>2, <2>1 DEF SendOther, TypeOK
<1>3. CASE EvictCount(t)
  <2>1. pc' \in [Conns -> Phases]
    BY <1>3 DEF EvictCount, Go, TypeOK, Phases
  <2>2. registeredClients' \in Int /\ unregisteredClients' \in Int /\ drift' \in Int /\ lost' \in SUBSET Sockets
    BY <1>0, <1>3 DEF EvictCount, Discount, TypeOK
  <2> QED BY <1>3, <2>1, <2>2 DEF EvictCount, TypeOK
<1>4. CASE EvictRemove(t)
  <2>1. pc' \in [Conns -> Phases]
    BY <1>4 DEF EvictRemove, Go, TypeOK, Phases
  <2>2. lock' \in {Free, Acceptor} \cup Conns
    BY <1>4 DEF EvictRemove, HolderAfterRemove
  <2> QED BY <1>4, <2>1, <2>2 DEF EvictRemove, TypeOK
<1>5. CASE EvictClose(t)
  <2>1. pc' \in [Conns -> Phases]
    BY <1>0, <1>5 DEF EvictClose, Go, TypeOK, Phases
  <2>2. PICK s \in Sockets : descriptor' = [descriptor EXCEPT ![s] = NoConn] /\ lost' = lost \cup {s}
    BY <1>0, <1>5 DEF EvictClose
  <2>3. Min(Sockets) \in Sockets
    BY MinIsMember, SizeAssumption
  <2>4. relay' \in [Conns -> [to : Sockets, back : {"reply", "farewell"}]]
    BY <1>5, <2>3 DEF EvictClose, TypeOK
  <2>5. descriptor' \in [Sockets -> Conns \cup {NoConn}] /\ lost' \in SUBSET Sockets
    BY <2>2 DEF TypeOK
  <2> QED BY <1>5, <2>1, <2>4, <2>5 DEF EvictClose, TypeOK
<1> QED BY <1>1, <1>2, <1>3, <1>4, <1>5 DEF Relay

LEMMA StepTypes ==
  ASSUME IInv, NEW t \in Conns, Moves(t)
  PROVE  TypeOK'
<1>0. TypeOK
  BY DEF IInv
<1>1. clients' \in Seq(Client)
  <2>1. CASE clients' = clients
    BY <1>0, <2>1 DEF TypeOK
  <2>2. CASE ListSteps(t)
    BY <2>2, TheListStep DEF ListOK
  <2> QED BY <1>0, <2>1, <2>2, StepsAreLocal
<1> USE <1>0, <1>1 DEF AfterSend, registry, locals, relays
<1>2. CASE SetupDone(t) \/ SignalSetup(t) \/ EndOfFile(t) \/ Reply(t) \/ QuitReply(t) \/ Farewell(t) \/ LockTwice(t)
  <2>1. pc' \in [Conns -> Phases]
    <3>1. PICK next \in {"signal", "count", "gone", "tail", "farewell", "count_quit", "stuck"} : Go(t, next)
      BY <1>2 DEF SetupDone, SignalSetup, EndOfFile, Reply, QuitReply, Farewell, LockTwice
    <3>2. next \in Phases
      BY DEF Phases
    <3> QED BY <3>1, <3>2, GoTypes
  <2> QED BY <1>2, <2>1 DEF SetupDone, SignalSetup, EndOfFile, Reply, QuitReply, Farewell, LockTwice, TypeOK
<1>3. CASE CountUnregistered(t) \/ Promote(t) \/ CountGone(t) \/ CountQuit(t)
  <2>1. pc' \in [Conns -> Phases]
    BY <1>3 DEF CountUnregistered, Promote, CountGone, CountQuit, Go, TypeOK, Phases
  <2>2. registeredClients' \in Int /\ unregisteredClients' \in Int
    BY <1>3 DEF CountUnregistered, Promote, CountGone, Discount, CountQuit, TypeOK
  <2> QED BY <1>3, <2>1, <2>2 DEF CountUnregistered, Promote, CountGone, CountQuit, TypeOK
<1>4. CASE RefuseNick(t) \/ TakeNick(t)
  <2>1. pc' \in [Conns -> Phases]
    <3>1. PICK next \in {"tail", "gone", "hung"} : Go(t, next)
      BY <1>4 DEF RefuseNick, TakeNick, AfterNickSend
    <3>2. next \in Phases
      BY DEF Phases
    <3> QED BY <3>1, <3>2, GoTypes
  <2>2. params' \in [Conns -> Nicks \cup {NoNick}] /\ nickname' \in [Conns -> Nicks \cup {NoNick}]
    BY <1>4 DEF RefuseNick, TakeNick, TypeOK
  <2>3. lock' \in {Free, Acceptor} \cup Conns
    BY <1>4 DEF RefuseNick, TakeNick, TypeOK
  <2> QED BY <1>4, <2>1, <2>2, <2>3 DEF RefuseNick, TakeNick, TypeOK
<1>5. CASE TakeUser(t) \/ RefuseUser(t)
  <2>1. pc' \in [Conns -> Phases]
    <3>1. PICK next \in {"tail", "gone_twice"} : Go(t, next)
      BY <1>5 DEF TakeUser, RefuseUser
    <3>2. next \in Phases
      BY DEF Phases
    <3> QED BY <3>1, <3>2, GoTypes
  <2>2. username' \in [Conns -> Conns \cup {NoUser}]
    BY <1>5 DEF TakeUser, RefuseUser, TypeOK
  <2> QED BY <1>5, <2>1, <2>2 DEF TakeUser, RefuseUser, TypeOK
<1>6. CASE ChooseBranch(t)
  <2>1. Branch(t) \in Phases
    BY DEF Branch, Phases
  <2>2. pc' \in [Conns -> Phases]
    BY <1>6, <2>1, GoTypes DEF ChooseBranch
  <2> QED BY <1>6, <2>2 DEF ChooseBranch, TypeOK
<1>7. CASE Register(t) \/ Welcome(t)
  <2>1. pc' \in [Conns -> Phases]
    <3>1. PICK next \in {"promote", "read", "gone"} : Go(t, next)
      BY <1>7 DEF Register, Welcome
    <3>2. next \in Phases
      BY DEF Phases
    <3> QED BY <3>1, <3>2, GoTypes
  <2>2. firstTimeLogin' \in [Conns -> BOOLEAN]
    BY <1>7 DEF Register, Welcome, TypeOK
  <2> QED BY <1>7, <2>1, <2>2 DEF Register, Welcome, TypeOK
<1>8. CASE RemoveClient(t)
  <2>1. pc' \in [Conns -> Phases]
    BY <1>8 DEF RemoveClient, Go, TypeOK, Phases
  <2>2. lock' \in {Free, Acceptor} \cup Conns
    BY <1>8 DEF RemoveClient, HolderAfterRemove
  <2> QED BY <1>8, <2>1, <2>2 DEF RemoveClient, TypeOK
<1>9. CASE Close(t)
  <2>1. pc' \in [Conns -> Phases]
    BY <1>9 DEF Close, Go, TypeOK, Phases
  <2>2. Min(Sockets) \in Sockets
    BY MinIsMember, SizeAssumption
  <2>3. /\ socket' \in [Conns -> Sockets] /\ nickname' \in [Conns -> Nicks \cup {NoNick}]
        /\ username' \in [Conns -> Conns \cup {NoUser}] /\ firstTimeLogin' \in [Conns -> BOOLEAN]
        /\ peer' \in [Conns -> {"up", "gone"}] /\ descriptor' \in [Sockets -> Conns \cup {NoConn}]
    BY <1>9, <2>2 DEF Close, TypeOK
  <2> QED BY <1>9, <2>1, <2>3 DEF Close, TypeOK
<1>10. CASE LateEndOfFile(t)
  <2>1. pc' \in [Conns -> Phases]
    BY <1>10 DEF LateEndOfFile, Go, TypeOK, Phases
  <2> QED BY <1>10, <2>1 DEF LateEndOfFile, TypeOK
<1>11. CASE Arrive(t) /\ ~LateEndOfFile(t)
  <2>1. PICK next \in {"nick", "user", "quit", "reply"} : Read(t, next)
    BY <1>11 DEF Arrive, ReadNick, ReadUser, ReadQuit, ReadOther
  <2>2. pc' \in [Conns -> Phases]
    BY <2>1 DEF Read, Go, TypeOK, Phases
  <2>3. commands' \in 0 .. MaxCommands
    BY <2>1, SizeAssumption DEF Read, TypeOK
  <2>4. params' \in [Conns -> Nicks \cup {NoNick}]
    BY <1>11 DEF Arrive, ReadNick, ReadUser, ReadQuit, ReadOther, TypeOK
  <2> QED BY <2>1, <2>2, <2>3, <2>4 DEF Read, TypeOK
<1>12. CASE Hangup(t)
  <2>1. peer' \in [Conns -> {"up", "gone"}]
    BY <1>12 DEF Hangup, TypeOK
  <2> QED BY <1>12, <2>1 DEF Hangup, TypeOK
<1>13. CASE Crash(t)
  BY <1>13 DEF Crash, BadFree, CrashLookup, CrashNick, TypeOK
<1>14. CASE Abandon(t)
  <2>1. pc' \in [Conns -> Phases]
    BY <1>14 DEF Abandon, Go, TypeOK, Phases
  <2>2. drift' \in Int /\ lost' \in SUBSET Sockets
    BY <1>14, LocalTypes DEF Abandon, TypeOK
  <2> QED BY <1>14, <2>1, <2>2 DEF Abandon, TypeOK
<1>15. CASE Relay(t)
  BY <1>15, RelayTypes
<1> QED BY <1>2, <1>3, <1>4, <1>5, <1>6, <1>7, <1>8, <1>9, <1>10, <1>11, <1>12, <1>13, <1>14, <1>15 DEF Moves, Step

\* What a step of t makes of what holds of t whatever its descriptor.
LEMMA StepSteady == ASSUME IInv, NEW t \in Conns, Moves(t) PROVE Steady(t)'
<1>0. TypeOK /\ Steady(t)
  BY DEF IInv
<1> USE <1>0 DEF Steady, Early, Go, TypeOK, registry, locals, relays, AfterSend
<1>1. CASE SetupDone(t) \/ SignalSetup(t) \/ CountUnregistered(t)
  BY <1>1 DEF SetupDone, SignalSetup, CountUnregistered
<1>2. CASE EndOfFile(t) \/ Reply(t) \/ Abandon(t) \/ LockTwice(t)
  BY <1>2 DEF EndOfFile, Reply, Abandon, LockTwice
<1>3. CASE RefuseNick(t) \/ TakeNick(t)
  <2>1. pc'[t] \in {"tail", "gone", "hung"}
    BY <1>3 DEF RefuseNick, TakeNick, AfterNickSend
  <2> QED BY <2>1
<1>4. CASE TakeUser(t) \/ RefuseUser(t)
  <2>1. pc'[t] \in {"tail", "gone_twice"}
    BY <1>4 DEF TakeUser, RefuseUser
  <2> QED BY <2>1
<1>5. CASE ChooseBranch(t)
  <2>1. Branch(t) \in {"read", "set_user_of_nick", "set_nick", "set_user", "add"}
    BY DEF Branch
  <2>2. Branch(t) = "set_user_of_nick" => Complete(t)
    BY DEF Branch
  <2>3. pc'[t] = Branch(t) /\ Complete(t)' = Complete(t)
    BY <1>5 DEF ChooseBranch, Complete
  <2> HIDE DEF Complete
  <2> QED BY <2>1, <2>2, <2>3
<1>6. CASE Register(t) \/ Promote(t) \/ Welcome(t)
  <2>1. pc'[t] \in {"promote", "read", "welcome", "gone"}
    BY <1>6 DEF Register, Promote, Welcome
  <2> QED BY <2>1
<1>7. CASE CountGone(t) \/ QuitReply(t) \/ Farewell(t) \/ CountQuit(t) \/ RemoveClient(t)
  BY <1>7 DEF CountGone, QuitReply, Farewell, CountQuit, RemoveClient
<1>8. CASE Close(t)
  BY <1>8 DEF Close
<1>9. CASE Arrive(t)
  BY <1>9 DEF Arrive, ReadNick, ReadUser, ReadQuit, ReadOther, Read, LateEndOfFile
<1>10. CASE Hangup(t) \/ Crash(t)
  BY <1>10 DEF Hangup, Crash, BadFree, CrashLookup, CrashNick, Complete
<1>11. CASE Relay(t)
  <2>1. CASE Address(t) \/ SendOther(t) \/ FailAwayReply(t)
    BY <2>1 DEF Address, SendOther, FailAwayReply, AfterRelay
  <2>2. CASE EvictCount(t) \/ EvictRemove(t) \/ EvictClose(t)
    BY <2>2 DEF EvictCount, EvictRemove, EvictClose
  <2> QED BY <1>11, <2>1, <2>2 DEF Relay
<1> QED BY <1>1, <1>2, <1>3, <1>4, <1>5, <1>6, <1>7, <1>8, <1>9, <1>10, <1>11 DEF Moves, Step

\* The kernel's table changes only where a thread closes its descriptor, or loses one.
LEMMA StepDescriptor ==
  ASSUME TypeOK, NEW t \in Conns, Moves(t)
  PROVE  \/ descriptor' = descriptor
         \/ Close(t) /\ \A s \in Sockets \ {socket[t]} : descriptor'[s] = descriptor[s]
         \/ \A s \in Sockets \ lost' : descriptor'[s] = descriptor[s]
<1>1. CASE Close(t)
  BY <1>1 DEF Close, TypeOK
<1>2. CASE EvictClose(t)
  <2>1. PICK s : descriptor' = [descriptor EXCEPT ![s] = NoConn] /\ lost' = lost \cup {s}
    BY <1>2 DEF EvictClose
  <2> QED BY <2>1 DEF TypeOK
<1>3. CASE Relay(t) /\ ~EvictClose(t)
  BY <1>3 DEF Relay, Address, SendOther, FailAwayReply, EvictCount, EvictRemove
<1>4. CASE Moves(t) /\ ~Relay(t) /\ ~Close(t)
  BY <1>4 DEF Moves, Step, SetupDone, SignalSetup, CountUnregistered, EndOfFile, Reply, Abandon, LockTwice,
              RefuseNick, TakeNick, TakeUser, RefuseUser, ChooseBranch, Register, Promote, Welcome, CountGone,
              QuitReply, Farewell, CountQuit, RemoveClient, Arrive, ReadNick, ReadUser, ReadQuit, ReadOther, Read,
              LateEndOfFile, Hangup, Crash, BadFree, CrashLookup, CrashNick
<1> QED BY <1>1, <1>2, <1>3, <1>4

\* A thread crashes only if a descriptor has been lost.
LEMMA StepCrash == ASSUME IInv, NEW t \in Conns, Moves(t) PROVE crashed' => lost' # {}
<1>0. TypeOK /\ (crashed => lost # {}) /\ lost \subseteq lost' /\ Steady(t) /\ (Keeps(t) => Progress(t))
  BY StepsAreLocal DEF IInv
<1>1. CASE BadFree(t)
  BY <1>0, <1>1 DEF BadFree, Steady
<1>2. CASE CrashLookup(t)
  <2>1. Own(t) = {} /\ pc[t] = "reply" /\ ~firstTimeLogin[t]
    BY <1>2 DEF CrashLookup, is_registered, Own
  <2>2. ~Keeps(t)
    BY <1>0, <2>1 DEF Progress, Leaving
  <2> QED BY <1>0, <2>2 DEF Keeps
<1>3. CASE CrashNick(t)
  <2>1. Own(t) = {} /\ pc[t] = "nick" /\ nickname[t] # NoNick
    BY <1>3 DEF CrashNick, NameMissing, is_already_nick, is_registered, Own
  <2>2. ~Keeps(t)
    BY <1>0, <2>1 DEF Progress, AtRest, Leaving, TypeOK
  <2> QED BY <1>0, <2>2 DEF Keeps
<1>4. CASE Moves(t) /\ ~Crash(t)
  <2>1. crashed' = crashed
    BY <1>4 DEF Moves, Step, SetupDone, SignalSetup, CountUnregistered, EndOfFile, Reply, Abandon, LockTwice,
              RefuseNick, TakeNick, TakeUser, RefuseUser, ChooseBranch, Register, Promote, Welcome, CountGone,
              QuitReply, Farewell, CountQuit, RemoveClient, Close, Arrive, ReadNick, ReadUser, ReadQuit, ReadOther,
              Read, LateEndOfFile, Hangup, Relay, Address, SendOther, FailAwayReply, EvictCount, EvictRemove,
              EvictClose, relays
  <2> QED BY <1>0, <2>1
<1> QED BY <1>1, <1>2, <1>3, <1>4 DEF Crash

LEMMA ThreadStep ==
  ASSUME IInv, NEW t \in Conns, Moves(t)
  PROVE  IInv'
<1>0. /\ TypeOK /\ Created /\ OthersStay(t) /\ ListOK /\ lost \subseteq lost' /\ socket[t] \in Sockets
      /\ \A u \in Conns : Holds(u) /\ Steady(u) /\ (Keeps(u) => Progress(u))
      /\ \A u \in Conns : socket[u] \in Sockets
  BY DistinctInInvariant, StepsAreLocal DEF IInv, TypeOK
<1>1. TypeOK'
  BY StepTypes
<1>2. TotalAgrees'
  BY StepTotal
<1>3. EntriesAreConnected'
  <2>1. SocksDistinct'
    <3>1. CASE clients' = clients
      BY <1>0, <3>1 DEF ListOK, SocksDistinct
    <3>2. CASE ListSteps(t)
      BY <3>2, TheListStep DEF ListOK
    <3> QED BY <1>0, <3>1, <3>2, StepsAreLocal
  <2> QED BY <2>1, StepConnected DEF EntriesAreConnected, Connected, SocksDistinct, Present
\* The thread's descriptor is its own until it ends, and it starts by the acceptor only.
<1>4. Live(t) /\ (Live(t)' => ~Close(t) /\ socket'[t] = socket[t])
  <2>1. Live(t)
    BY <1>0 DEF Moves, Step, SetupDone, SignalSetup, CountUnregistered, EndOfFile, Reply, Abandon, LockTwice,
              RefuseNick, TakeNick, TakeUser, RefuseUser, ChooseBranch, Register, Promote, Welcome, CountGone,
              QuitReply, Farewell, CountQuit, RemoveClient, Close, Arrive, ReadNick, ReadUser, ReadQuit, ReadOther,
              Read, LateEndOfFile, Hangup, Crash, BadFree, CrashLookup, CrashNick, Relay, Address, SendOther,
              FailAwayReply, EvictCount, EvictRemove, EvictClose, Live
  <2>2. Close(t) => ~Live(t)'
    BY <1>0 DEF Close, Go, Live, TypeOK
  <2> QED BY <1>0, <2>1, <2>2, StepsAreLocal
<1>5. ASSUME NEW u \in Conns PROVE Holds(u)'
  <2> SUFFICES ASSUME Live(u)', Keeps(u)' PROVE descriptor'[socket'[u]] = u
    BY DEF Holds
  <2>1. Live(u) /\ socket'[u] = socket[u] /\ socket[u] \notin lost' /\ socket[u] \notin lost
    BY <1>0, <1>4 DEF OthersStay, Live, Keeps
  <2>2. descriptor[socket[u]] = u
    BY <1>0, <2>1 DEF Holds, Keeps
  <2>3. Close(t) => u # t /\ socket[u] # socket[t]
    <3>1. Close(t) => u # t
      BY <1>4
    <3>2. socket[u] = socket[t] => u = t
      BY <1>0, <1>4, <2>1, <2>2 DEF Holds, Keeps
    <3> QED BY <3>1, <3>2
  <2> QED BY <1>0, <2>1, <2>2, <2>3, StepDescriptor
<1>6. Created'
  <2>1. server' = "create" => server = "create" /\ newest' = newest /\ pc[newest] = "starting"
    BY <1>0, StepsAreLocal DEF Created
  <2>2. pc[t] = "starting" => pc'[t] = "starting"
    BY <1>0 DEF Moves, Step, SetupDone, SignalSetup, CountUnregistered, EndOfFile, Reply, Abandon, LockTwice,
              RefuseNick, TakeNick, TakeUser, RefuseUser, ChooseBranch, Register, Promote, Welcome, CountGone,
              QuitReply, Farewell, CountQuit, RemoveClient, Close, Arrive, ReadNick, ReadUser, ReadQuit, ReadOther,
              Read, LateEndOfFile, Hangup, Crash, BadFree, CrashLookup, CrashNick, Relay, Address, SendOther,
              FailAwayReply, EvictCount, EvictRemove, EvictClose
  <2>3. newest \in Conns
    BY <1>0 DEF TypeOK
  <2> QED BY <1>0, <2>1, <2>2, <2>3 DEF Created, OthersStay
<1>7. ASSUME NEW u \in Conns PROVE Steady(u)' /\ (Keeps(u)' => Progress(u)')
  <2>1. CASE u = t
    BY <2>1, StepSteady, OwnProgress
  <2>2. CASE u # t
    <3>1. Steady(u)'
      BY <1>0, <2>2 DEF OthersStay, Steady, Complete
    <3>2. ASSUME Keeps(u)' PROVE Progress(u)'
      <4>1. socket[u] \in Sockets \ lost /\ Progress(u)
        BY <1>0, <2>2, <3>2 DEF OthersStay, Keeps
      <4>2. Live(u) => KeepsEntry(socket[u])
        <5>1. CASE clients' = clients
          BY <5>1, Unchanged
        <5>2. CASE ListSteps(t)
          <6>1. Live(u) => socket[u] # socket[t]
            BY <1>0, <1>4, <2>2, <4>1 DEF Holds, Keeps
          <6> QED BY <4>1, <5>2, <6>1, TheListStep
        <5> QED BY <1>0, <5>1, <5>2, StepsAreLocal
      <4> QED BY <1>0, <2>2, <4>1, <4>2, Bystander DEF OthersStay
    <3> QED BY <3>1, <3>2
  <2> QED BY <2>1, <2>2
<1>8. crashed' => lost' # {}
  BY StepCrash
<1> QED BY <1>1, <1>2, <1>3, <1>5, <1>6, <1>7, <1>8 DEF IInv

----------------------------------------------------------------------------
(* accept_clients *)

\* The descriptor that the kernel gives is nobody's and, if it has not been lost, in no entry.
LEMMA AcceptStep == ASSUME IInv, Accept PROVE IInv'
<1> DEFINE unused == {t \in Conns : pc[t] = "none"}
           closed == {s \in Sockets : descriptor[s] = NoConn}
           t == newest'
<1>0. /\ TypeOK /\ TotalAgrees /\ EntriesAreConnected /\ (crashed => lost # {})
      /\ \A u \in Conns : Holds(u) /\ Steady(u) /\ (Keeps(u) => Progress(u))
  BY DEF IInv
<1>1. t \in Conns /\ pc[t] = "none"
  <2>1. unused \in SUBSET Nat
    BY ConnsAreNumbers
  <2>2. Min(unused) \in unused
    BY <2>1, MinIsMember DEF Accept
  <2> QED BY <2>2 DEF Accept
<1>2. /\ socket'[t] \in Sockets /\ descriptor[socket'[t]] = NoConn
      /\ socket' = [socket EXCEPT ![t] = socket'[t]] /\ descriptor' = [descriptor EXCEPT ![socket'[t]] = t]
  <2>1. closed \in SUBSET Nat
    BY SizeAssumption
  <2>2. Min(closed) \in closed
    BY <2>1, MinIsMember DEF Accept
  <2>3. socket' = [socket EXCEPT ![t] = Min(closed)] /\ descriptor' = [descriptor EXCEPT ![Min(closed)] = t]
    BY DEF Accept
  <2> QED BY <1>0, <1>1, <2>2, <2>3 DEF TypeOK
<1>3. /\ clients' = clients /\ registeredClients' = registeredClients /\ unregisteredClients' = unregisteredClients
      /\ lock' = lock /\ nickname' = nickname /\ username' = username /\ firstTimeLogin' = firstTimeLogin
      /\ params' = params /\ commands' = commands /\ peer' = peer /\ server' = "create"
      /\ relay' = relay /\ crashed' = crashed /\ lost' = lost /\ drift' = drift
      /\ pc' = [pc EXCEPT ![t] = "starting"]
  BY DEF Accept, Go, registry, relays
<1> HIDE DEF t, closed, unused
<1>4. pc'[t] = "starting"
  BY <1>0, <1>1, <1>3 DEF TypeOK
<1>5. \A u \in Conns \ {t} : pc'[u] = pc[u] /\ socket'[u] = socket[u]
  BY <1>0, <1>1, <1>2, <1>3 DEF TypeOK
<1>6. TypeOK'
  <2>1. /\ pc' \in [Conns -> Phases] /\ socket' \in [Conns -> Sockets]
        /\ descriptor' \in [Sockets -> Conns \cup {NoConn}]
    BY <1>0, <1>1, <1>2, <1>3 DEF TypeOK, Phases
  <2> QED BY <1>0, <1>1, <1>3, <2>1 DEF TypeOK, t
<1>7. TotalAgrees'
  <2>1. \A u \in Conns : pc'[u] \notin Uncounted <=> pc[u] \notin Uncounted
    BY <1>1, <1>4, <1>5 DEF Uncounted, Early
  <2>2. Counted' = Counted
    BY <2>1, CountedStays
  <2> QED BY <1>0, <1>3, <2>2 DEF TotalAgrees
<1>8. EntriesAreConnected'
  BY <1>0, <1>1, <1>3, <1>5 DEF EntriesAreConnected
<1>9. \A u \in Conns : Live(u) /\ Keeps(u) => socket[u] # socket'[t]
  BY <1>0, <1>2, SizeAssumption DEF Holds
<1>10. ASSUME NEW u \in Conns PROVE Holds(u)'
  <2>1. CASE u = t
    BY <1>0, <1>2, <2>1 DEF Holds, TypeOK
  <2>2. CASE u # t
    <3>1. Live(u)' /\ Keeps(u)' => Live(u) /\ Keeps(u) /\ socket'[u] = socket[u] /\ socket[u] \in Sockets
      BY <1>0, <1>3, <1>5, <2>2 DEF Live, Keeps, TypeOK
    <3> QED BY <1>0, <1>2, <1>9, <3>1 DEF Holds, TypeOK
  <2> QED BY <2>1, <2>2
<1>11. Created'
  BY <1>4 DEF Created, t
<1>12. ASSUME NEW u \in Conns PROVE Steady(u)' /\ (Keeps(u)' => Progress(u)')
  <2>1. CASE u = t
    <3>1. firstTimeLogin[u] /\ nickname[u] = NoNick /\ username[u] = NoUser
      BY <1>0, <1>1, <2>1 DEF Steady, Early
    <3>2. Steady(u)'
      BY <1>3, <1>4, <2>1, <3>1 DEF Steady
    <3>3. ASSUME Keeps(u)' PROVE Progress(u)'
      <4>1. ASSUME NEW i \in DOMAIN clients, clients[i].sock = socket'[t] PROVE FALSE
        <5>1. PICK w \in Conns : pc[w] \notin {"none", "close", "ended"} /\ socket[w] = socket'[t]
          BY <1>0, <1>3, <2>1, <3>3, <4>1 DEF EntriesAreConnected, Keeps
        <5> QED BY <1>3, <1>9, <2>1, <3>3, <5>1 DEF Live, Keeps
      <4>2. Own(u)' = {}
        BY <1>3, <2>1, <4>1 DEF Own, WithSock
      <4> HIDE DEF Own
      <4> QED BY <1>3, <1>4, <2>1, <3>1, <4>2 DEF Progress, AtRest, Early, Leaving
    <3> QED BY <3>2, <3>3
  <2>2. CASE u # t
    <3>1. KeepsEntry(socket[u])
      BY <1>3, Unchanged
    <3>2. Steady(u)'
      BY <1>0, <1>3, <1>5, <2>2 DEF Steady, Complete
    <3>3. Keeps(u)' => Progress(u)'
      BY <1>0, <1>3, <1>5, <2>2, <3>1, Bystander DEF Keeps
    <3> QED BY <3>2, <3>3
  <2> QED BY <2>1, <2>2
<1>13. crashed' => lost' # {}
  BY <1>0, <1>3
<1> QED BY <1>6, <1>7, <1>8, <1>10, <1>11, <1>12, <1>13 DEF IInv

LEMMA ServerStepKeeps == ASSUME IInv, ServerStep \/ UNCHANGED vars PROVE IInv'
<1>0. /\ TypeOK /\ TotalAgrees /\ EntriesAreConnected /\ Created /\ (crashed => lost # {})
      /\ newest \in Conns /\ \A u \in Conns : Holds(u) /\ Steady(u) /\ (Keeps(u) => Progress(u))
  BY DEF IInv, TypeOK
<1>1. /\ clients' = clients /\ registeredClients' = registeredClients /\ unregisteredClients' = unregisteredClients
      /\ socket' = socket /\ nickname' = nickname /\ username' = username /\ firstTimeLogin' = firstTimeLogin
      /\ params' = params /\ commands' = commands /\ peer' = peer /\ newest' = newest
      /\ descriptor' = descriptor /\ relay' = relay /\ crashed' = crashed /\ lost' = lost /\ drift' = drift
  BY DEF ServerStep, CreateThread, CheckSetup, Woken, vars, registry, locals, relays
<1>2. \/ pc' = pc /\ (server' = "create" => server = "create")
      \/ server' # "create" /\ pc[newest] = "starting" /\ pc' = [pc EXCEPT ![newest] = "setup"]
  BY <1>0 DEF ServerStep, CreateThread, CheckSetup, Woken, vars, Go, Created
<1>3. \A u \in Conns : pc'[u] = pc[u] \/ (pc[u] = "starting" /\ pc'[u] = "setup")
  BY <1>0, <1>2 DEF TypeOK
<1>4. TypeOK'
  <2>1. pc' \in [Conns -> Phases]
    BY <1>0, <1>2 DEF TypeOK, Phases
  <2>2. /\ lock' \in {Free, Acceptor} \cup Conns
        /\ server' \in {"accept", "create", "check", "waiting", "woken"}
    BY <1>0 DEF TypeOK, ServerStep, CreateThread, CheckSetup, Woken, vars
  <2> QED BY <1>0, <1>1, <2>1, <2>2 DEF TypeOK
<1>5. TotalAgrees'
  <2>1. \A u \in Conns : pc'[u] \notin Uncounted <=> pc[u] \notin Uncounted
    BY <1>3 DEF Uncounted, Early
  <2>2. Counted' = Counted
    BY <2>1, CountedStays
  <2> QED BY <1>0, <1>1, <2>2 DEF TotalAgrees
<1>6. EntriesAreConnected'
  BY <1>0, <1>1, <1>3 DEF EntriesAreConnected
<1>7. (\A u \in Conns : Holds(u))' /\ (crashed' => lost' # {})
  BY <1>0, <1>1, <1>3 DEF Holds, Live, Keeps
<1>8. Created'
  BY <1>0, <1>1, <1>2 DEF Created
<1>9. ASSUME NEW u \in Conns PROVE Steady(u)' /\ (Keeps(u)' => Progress(u)')
  <2>1. CASE pc'[u] = pc[u]
    <3>1. KeepsEntry(socket[u])
      BY <1>1, Unchanged
    <3>2. Steady(u)'
      BY <1>0, <1>1, <2>1 DEF Steady, Complete
    <3>3. Keeps(u)' => Progress(u)'
      BY <1>0, <1>1, <2>1, <3>1, Bystander DEF Keeps
    <3> QED BY <3>2, <3>3
  <2>2. CASE pc[u] = "starting" /\ pc'[u] = "setup"
    <3>1. firstTimeLogin[u] /\ nickname[u] = NoNick /\ username[u] = NoUser
      BY <1>0, <2>2 DEF Steady, Early
    <3>2. Steady(u)'
      BY <1>1, <2>2, <3>1 DEF Steady
    <3>3. ASSUME Keeps(u)' PROVE Progress(u)'
      <4>1. Own(u) = {}
        BY <1>0, <1>1, <2>2, <3>3 DEF Progress, Early, Keeps
      <4>2. Own(u)' = {}
        BY <1>1, <4>1, SameList
      <4> HIDE DEF Own
      <4> QED BY <1>1, <2>2, <3>1, <4>2 DEF Progress, AtRest, Early, Leaving
    <3> QED BY <3>2, <3>3
  <2> QED BY <1>3, <2>1, <2>2
<1> QED BY <1>4, <1>5, <1>6, <1>7, <1>8, <1>9 DEF IInv

----------------------------------------------------------------------------
(* The theorems *)

\* With a resident client there is one entry, and its thread is the only one.
LEMMA Initially == Init => IInv
<1> SUFFICES ASSUME Init PROVE IInv
  OBVIOUS
<1> DEFINE someNick == CHOOSE n \in Nicks : TRUE
           here(t) == Resident /\ t = 1
           x == [sock |-> Min(Sockets), nick |-> someNick, user |-> 1]
<1>0. /\ Min(Sockets) \in Sockets /\ someNick \in Nicks /\ someNick # NoNick /\ Resident \in BOOLEAN
      /\ 1 \in Conns /\ 1 # NoUser /\ NoUser = 0 /\ 0 \in 0 .. MaxCommands /\ Conns \subseteq Nat \ {0}
  <2>1. N \in Nat \ {0} /\ MaxCommands \in Nat
    BY SizeAssumption
  <2> QED BY <2>1, MinIsMember, SizeAssumption, ConnsAreNumbers DEF Conns, NoUser
<1>1. x \in Client /\ x.sock = Min(Sockets) /\ x.nick = someNick /\ x.user = 1
  BY <1>0 DEF Client
<1>2. /\ clients = IF Resident THEN <<x>> ELSE <<>>
      /\ registeredClients = (IF Resident THEN 1 ELSE 0) /\ unregisteredClients = 0
      /\ lock = Free /\ server = "accept" /\ newest = 1 /\ commands = 0
      /\ pc = [t \in Conns |-> IF here(t) THEN "read" ELSE "none"]
      /\ socket = [t \in Conns |-> Min(Sockets)]
      /\ nickname = [t \in Conns |-> IF here(t) THEN someNick ELSE NoNick]
      /\ username = [t \in Conns |-> IF here(t) THEN t ELSE NoUser]
      /\ firstTimeLogin = [t \in Conns |-> ~here(t)]
      /\ params = [t \in Conns |-> NoNick] /\ peer = [t \in Conns |-> "up"]
      /\ descriptor = [s \in Sockets |-> IF Resident /\ s = Min(Sockets) THEN 1 ELSE NoConn]
      /\ relay = [t \in Conns |-> [to |-> Min(Sockets), back |-> "reply"]]
      /\ crashed = FALSE /\ lost = {} /\ drift = 0
  BY DEF Init
<1> HIDE DEF x, someNick
<1>3. /\ clients \in Seq(Client)
      /\ Resident => DOMAIN clients = {1} /\ clients[1] = x
      /\ ~Resident => DOMAIN clients = {}
  BY <1>0, <1>1, <1>2
<1>4. TypeOK
  <2>1. descriptor \in [Sockets -> Conns \cup {NoConn}]
    <3>1. \A s \in Sockets : (IF Resident /\ s = Min(Sockets) THEN 1 ELSE NoConn) \in Conns \cup {NoConn}
      BY <1>0
    <3> QED BY <1>2, <3>1
  <2>2. relay \in [Conns -> [to : Sockets, back : {"reply", "farewell"}]]
    BY <1>0, <1>2
  <2>3. crashed \in BOOLEAN /\ lost \in SUBSET Sockets /\ drift \in Int
    <3>1. crashed \in BOOLEAN
      BY <1>2
    <3>2. lost \in SUBSET Sockets
      BY <1>2
    <3>3. drift \in Int
      BY <1>2
    <3> QED BY <3>1, <3>2, <3>3
  <2>4. pc \in [Conns -> Phases] /\ socket \in [Conns -> Sockets]
    BY <1>0, <1>2 DEF Phases
  <2>5. /\ nickname \in [Conns -> Nicks \cup {NoNick}] /\ username \in [Conns -> Conns \cup {NoUser}]
        /\ firstTimeLogin \in [Conns -> BOOLEAN] /\ params \in [Conns -> Nicks \cup {NoNick}]
        /\ peer \in [Conns -> {"up", "gone"}]
    BY <1>0, <1>2
  <2>6. /\ registeredClients \in Int /\ unregisteredClients \in Int /\ lock \in {Free, Acceptor} \cup Conns
        /\ server \in {"accept", "create", "check", "waiting", "woken"} /\ newest \in Conns
        /\ commands \in 0 .. MaxCommands
    BY <1>0, <1>2
  <2> QED BY <1>3, <2>1, <2>2, <2>3, <2>4, <2>5, <2>6 DEF TypeOK
<1>5. TotalAgrees
  <2>1. CASE Resident
    <3>1. Counted = {1}
      BY <1>0, <1>2, <2>1 DEF Counted, Leaving
    <3> QED BY <1>2, <2>1, <3>1, FS_Singleton DEF TotalAgrees
  <2>2. CASE ~Resident
    <3>1. Counted = {}
      BY <1>2, <2>2 DEF Counted
    <3> QED BY <1>2, <2>2, <3>1, FS_EmptySet DEF TotalAgrees
  <2> QED BY <1>0, <2>1, <2>2
<1>6. EntriesAreConnected
  BY <1>0, <1>1, <1>2, <1>3 DEF EntriesAreConnected
<1>7. (\A t \in Conns : Holds(t)) /\ (crashed => lost # {})
  BY <1>0, <1>2 DEF Holds, Live, Keeps
<1>8. Created
  BY <1>2 DEF Created
<1>9. ASSUME NEW t \in Conns PROVE Steady(t) /\ Progress(t)
  <2>1. CASE here(t)
    <3>1. pc[t] = "read" /\ ~firstTimeLogin[t]
      BY <1>2, <2>1
    <3>2. 1 \in Own(t)
      BY <1>0, <1>1, <1>2, <1>3, <2>1 DEF Own, WithSock
    <3> HIDE DEF Own
    <3> QED BY <3>1, <3>2 DEF Steady, Progress, AtRest, Early, Leaving
  <2>2. CASE ~here(t)
    <3>1. pc[t] = "none" /\ firstTimeLogin[t] /\ nickname[t] = NoNick /\ username[t] = NoUser
      BY <1>2, <2>2
    <3> QED BY <3>1 DEF Steady, Progress, AtRest, Early, Leaving
  <2> QED BY <2>1, <2>2
<1> QED BY <1>4, <1>5, <1>6, <1>7, <1>8, <1>9 DEF IInv

LEMMA InvariantKept == IInv /\ [Next]_vars => IInv'
<1> SUFFICES ASSUME IInv, [Next]_vars PROVE IInv'
  OBVIOUS
<1>1. CASE Accept
  BY <1>1, AcceptStep
<1>2. CASE ServerStep \/ UNCHANGED vars
  BY <1>2, ServerStepKeeps
<1>3. CASE \E t \in Conns : Moves(t)
  BY <1>3, ThreadStep
<1> QED BY <1>1, <1>2, <1>3 DEF Next, Moves

\* Where each connection is in its registration agrees with what the list of clients has of
\* it, at every point between two sections that hold the mutex (main.c, login_handlers.c).
THEOREM RegistryInvariance == Spec => []IInv
<1> QED BY Initially, InvariantKept, PTL DEF Spec

\* The types of the list, the counters and each thread's own copies.
THEOREM RegistryTypes == Spec => []TypeOK
<1>1. IInv => TypeOK
  BY DEF IInv
<1> QED BY <1>1, RegistryInvariance, PTL

\* LUSERS' two counters always add up to the connections that have been counted and not yet
\* discounted, by whichever route they leave, but for one less each time sock_is_gone gives up
\* a client on behalf of somebody else's thread, and one more for each client abandoned.
THEOREM CountersAgree == Spec => []TotalAgrees
<1>1. IInv => TotalAgrees
  BY DEF IInv
<1> QED BY <1>1, RegistryInvariance, PTL

\* add_client never makes a second entry of a connection, and remove_client leaves none
\* behind for the next user of the descriptor, unless somebody closed the descriptor under its
\* thread or the thread left its entry behind; other descriptors are not touched by that.
THEOREM EntriesHaveThreads == Spec => []EntriesAreConnected
<1>1. IInv => EntriesAreConnected
  BY DEF IInv
<1> QED BY <1>1, RegistryInvariance, PTL

\* Look-ups whose result is used without a test find an entry, unless the descriptor of the
\* thread is lost; and the process crashes only after a descriptor has been lost.
THEOREM LookupsFindEntries == Spec => []LookupsSucceed
<1>1. IInv => LookupsSucceed
  <2> SUFFICES ASSUME IInv PROVE LookupsSucceed
    OBVIOUS
  <2>1. ASSUME NEW t \in Conns, Keeps(t),
               \/ pc[t] = "welcome"
               \/ ~firstTimeLogin[t] /\ pc[t] \notin Leaving
               \/ pc[t] = "nick" /\ is_already_nick(nickname[t])
        PROVE  is_registered(socket[t])
    <3>1. Progress(t) /\ firstTimeLogin[t] \in BOOLEAN
      BY <2>1, LocalTypes DEF IInv
    <3>2. is_already_nick(nickname[t]) => nickname[t] # NoNick
      BY DEF is_already_nick
    <3>3. Own(t) # {}
      <4> HIDE DEF Own
      <4> QED BY <2>1, <3>1, <3>2 DEF Progress, AtRest, Leaving
    <3> QED BY <3>3 DEF Own, is_registered
  <2> QED BY <2>1 DEF IInv, LookupsSucceed, Keeps
<1> QED BY <1>1, RegistryInvariance, PTL

=============================================================================
