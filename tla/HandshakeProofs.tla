---------------------------- MODULE HandshakeProofs ----------------------------
(***************************************************************************)
(* Proofs about Handshake, for any versions that are agreed as 3.7 or 3.8, *)
(* any offers without Tight and any lengths: type correctness, and that    *)
(* both sides stay in step, fail for a reason and are connected together.  *)
(***************************************************************************)
EXTENDS Handshake, FiniteSetTheorems, FunctionTheorems, SequenceTheorems, TLAPS

(* Every server names a version that the two agree on as 3.7 or 3.8; in 3.3 the server
   decides on the security type, which the client does not know (see HandshakeEnds).    *)
V37 == [major |-> 3, minor |-> 7]
V38 == [major |-> 3, minor |-> 8]
TypesAreOffered == \A version \in Versions : Agreed(version) \in {V37, V38}

-----------------------------------------------------------------------------
(***************************************************************************)
(* The inductive invariant.  InStep says what the next unit is; that it    *)
(* stays so depends on all the units under way.  They are what is left of  *)
(* the last message of the server, so the invariant has one part for each  *)
(* place of the server, which says what the message was, how much of it    *)
(* the client has read and where that brought the client.  When the server *)
(* gave up, the end of the message may be missing.                         *)
(***************************************************************************)
Values == Nat \cup BOOLEAN \cup Types \cup [major : Nat, minor : Nat]
Unit   == [of : Fields, value : Values]

Stream  == arrived \o wire
Streams == arrived \in Seq(Unit) /\ wire \in Seq(Unit)

(* stream comes after the first p units of message: all that is left of it or a part. *)
Left(stream, message, p) ==
    /\ Len(stream) <= Len(message) - p
    /\ \A i \in 1..Len(stream) : stream[i] = message[p + i]

(* The client has read the first p units of message, of which the rest is in the stream. *)
HasRead(message, p) ==
    /\ Left(Stream, message, p)
    /\ ~server.gaveUp => Len(Stream) = Len(message) - p

(* The client is reading field, whose first unit comes after start others. *)
IsReading(field, message, start) ==
    /\ client.at = field /\ client.got < Length(client)
    /\ HasRead(message, start + client.got)

(* The client has read the message and gone on to place. *)
IsAt(place, message) ==
    /\ client.at = place /\ client.got = 0
    /\ HasRead(message, Len(message))

(* Both sides know what they agreed on; a session is only offered to who was accepted. *)
Agreement == server.agreed = client.version /\ client.version = Agreed(server.version)
SameType  == server.type = client.type /\ client.type \in Types \ {"tight", "other"}
Accepted  == ResultExpected(client.type, client.version) => server.accepts

(* What the client writes before the server answers. *)
VersionMessage == [kind |-> "version", value |-> client.version]
TypeMessage    == [kind |-> "type", value |-> client.type]

(* The server has written nothing yet. *)
Greeting ==
    /\ client.at = "version" /\ client.got = 0 /\ client.seen = {}
    /\ Stream = <<>> /\ toServer = <<>>

(* The server has named its version and waits for the client's. *)
Version ==
    LET message == Units("version", server.version, 2) IN
    /\ client.seen = {}
    /\ \/ IsReading("version", message, 0) /\ toServer = <<>>
       \/ /\ client.version = Agreed(server.version)
          /\ \/ IsAt("sendVersion", message) /\ toServer = <<>>
             \/ IsAt("count", message) /\ toServer = <<VersionMessage>>

(* What the client waits for or does when it has sent the type. *)
AfterTypeIsSent ==
    IF Challenge(client.type) # <<>> THEN Head(Challenge(client.type))
    ELSE IF ResultExpected(client.type, client.version) THEN "result" ELSE "sendInit"

(* The server has offered its types and waits for the one the client decides on.  In 3.7
   a client without authentication goes on to ClientInit before the server heard of it.   *)
SecurityType ==
    LET message == Offering(server.offer) IN
    /\ Agreement /\ server.offer # {}
    /\ \/ IsReading("count", message, 0) /\ client.seen = {} /\ toServer = <<>>
       \/ /\ IsReading("types", message, 1) /\ toServer = <<>>
          /\ client.number = Cardinality(server.offer)
          /\ client.seen = {message[i].value : i \in 2..(client.got + 1)}
       \/ /\ client.type = Decided(server.offer) /\ client.type # "invalid"
          /\ \/ IsAt("sendType", message) /\ toServer = <<>>
             \/ IsAt(AfterTypeIsSent, message) /\ toServer = <<TypeMessage>>
             \/ /\ IsAt("size", message) /\ AfterTypeIsSent = "sendInit"
                /\ toServer = <<TypeMessage, [kind |-> "init"]>>

(* Where the fields of a challenge begin. *)
Start(field) ==
    CASE field \in {"challenge", "generator", "gen"} -> 0
      [] field \in {"keySize", "modulus"}            -> 2
      [] field \in {"prime", "resp"}                 -> 4
      [] field = "peerKey"                           -> 6
ReadsChallenge ==
    /\ client.at \in ToSet(Challenge(client.type))
    /\ client.at \in {"prime", "peerKey"} => client.number = 2

(* The server has sent a challenge and waits for the response to it. *)
Response ==
    LET message == Challenging(client.type, 2) IN
    /\ Agreement /\ SameType /\ client.type # "none"
    /\ \/ ReadsChallenge /\ IsReading(client.at, message, Start(client.at)) /\ toServer = <<>>
       \/ IsAt("credential", message) /\ toServer = <<>>
       \/ IsAt("sendResponse", message) /\ toServer = <<>>
       \/ IsAt("result", message) /\ toServer = <<[kind |-> "response"]>>

(* The server has accepted the client, says so if it has to, and waits for ClientInit. *)
Initialisation ==
    LET expected == ResultExpected(client.type, client.version)
        message  == IF expected THEN Units("result", TRUE, 2) ELSE <<>>
    IN
    /\ Agreement /\ SameType /\ Accepted
    /\ \/ expected /\ IsReading("result", message, 0) /\ toServer = <<>>
       \/ IsAt("sendInit", message) /\ toServer = <<>>
       \/ IsAt("size", message) /\ toServer = <<[kind |-> "init"]>>

ServerInit(length) == Units("size", 0, 2) \o Sized("nameLength", "name", length)

(* The server has sent ServerInit with a name of this length, and waits for whatever a
   session begins with.                                                                *)
Session(length) ==
    /\ Agreement /\ SameType /\ Accepted
    /\ \/ /\ toServer = <<>>
          /\ \/ IsReading("size", ServerInit(length), 0)
             \/ IsReading("nameLength", ServerInit(length), 2)
             \/ IsReading("name", ServerInit(length), 4) /\ client.number = length
       \/ /\ toServer \in Seq({[kind |-> "session"]})
          /\ \E place \in {"sendFormat", "sendEncodings", "connected"} :
                IsAt(place, ServerInit(length))

NothingOffered(length) == Offering({}) \o Sized("reasonLength", "reason", length)
(* The server has nothing to offer, says why and closes the connection. *)
NoTypes(length) ==
    LET message == NothingOffered(length) IN
    /\ server.offer = {} /\ toServer = <<>>
    /\ \/ IsReading("count", message, 0) /\ client.error = "none"
       \/ IsReading("reasonLength", message, 1) /\ client.error = "noTypes"
       \/ IsReading("reason", message, 3) /\ client.number = length /\ client.error = "noTypes"

Refusal(version, length) ==
    Units("result", FALSE, 2)
    \o (IF version.minor >= 8 THEN Sized("reasonLength", "reason", length) ELSE <<>>)
(* The server refuses the client, says why from 3.8 on and closes the connection. *)
Refused(length) ==
    LET message == Refusal(client.version, length) IN
    /\ Agreement /\ ~server.accepts /\ toServer = <<>>
    /\ \/ IsReading("result", message, 0) /\ client.error = "none"
       \/ /\ client.version = V38 /\ client.error = "rejected"
          /\ \/ IsReading("reasonLength", message, 2)
             \/ IsReading("reason", message, 4) /\ client.number = length

(* Only messages of the session are on the way to the server. *)
SessionFollows == toServer \in Seq({[kind |-> "session"]})

(* The handshake is over; what the server still writes does not matter, and what it still
   hears the client wrote before it failed to make the framebuffer.                      *)
Failed ==
    /\ client.at = "failed"
    /\ server.at # "closed" => toServer = <<>> \/ (server.at = "session" /\ SessionFollows)
    /\ FailsForAReason

(* The server is at this place, or gave up there. *)
Was(place) == IF server.gaveUp THEN server.at = "closed" ELSE server.at = place

Together ==
    \/ Was("greets") /\ Greeting
    \/ Was("version") /\ Version
    \/ Was("type") /\ SecurityType
    \/ Was("response") /\ Response
    \/ Was("init") /\ Initialisation
    \/ Was("session") /\ \E length \in Lengths : Session(length)

(* Only a refusal sets an error before the handshake fails. *)
Place ==
    \/ client.error = "none" /\ Together
    \/ ~server.gaveUp /\ server.at = "closed" /\ \E length \in Lengths : NoTypes(length) \/ Refused(length)
    \/ Failed

IInv ==
    /\ backend \in Backends /\ client \in Clients /\ server \in Servers
    /\ Streams /\ Place

-----------------------------------------------------------------------------
(***************************************************************************)
(* Messages of the server.                                                 *)
(***************************************************************************)
AreUnits(s, field, value, length) ==
    /\ s \in Seq(Unit) /\ Len(s) = length
    /\ \A i \in 1..length : s[i].of = field /\ s[i].value = value

LEMMA UnitsAre ==
    ASSUME NEW field \in Fields, NEW value \in Values, NEW length \in Nat
    PROVE  AreUnits(Units(field, value, length), field, value, length)
<1>1. [of |-> field, value |-> value] \in Unit
  BY DEF Unit
<1>2. Units(field, value, length) \in [1..length -> Unit]
  BY <1>1 DEF Units
<1>3. Units(field, value, length) \in Seq(Unit) /\ Len(Units(field, value, length)) = length
  BY <1>2, SeqDef
<1> QED
  BY <1>3 DEF Units, AreUnits

(* u is s followed by t. *)
Joins(u, s, t) ==
    /\ u \in Seq(Unit) /\ Len(u) = Len(s) + Len(t)
    /\ \A i \in 1..Len(s) : u[i] = s[i]
    /\ \A i \in 1..Len(t) : u[Len(s) + i] = t[i]

LEMMA Joined ==
    ASSUME NEW s \in Seq(Unit), NEW t \in Seq(Unit)
    PROVE  Joins(s \o t, s, t)
<1>1. Len(s) \in Nat /\ Len(t) \in Nat
  OBVIOUS
<1> QED
  BY <1>1, ConcatProperties DEF Joins

(* A length in two units, and that many units. *)
AreSized(s, first, second, length) ==
    /\ s \in Seq(Unit) /\ Len(s) = 2 + length
    /\ \A i \in 1..2 : s[i].of = first /\ s[i].value = length
    /\ \A i \in 1..length : s[2 + i].of = second

LEMMA SizedAre ==
    ASSUME NEW first \in Fields, NEW second \in Fields, NEW length \in Nat
    PROVE  AreSized(Sized(first, second, length), first, second, length)
<1>1. length \in Values
  BY DEF Values
<1>2. PICK u, s, t : /\ u = Sized(first, second, length)
                     /\ s = Units(first, length, 2) /\ t = Units(second, length, length)
  OBVIOUS
<1>3. AreUnits(s, first, length, 2) /\ AreUnits(t, second, length, length)
  BY <1>1, <1>2, UnitsAre
<1>4. s \in Seq(Unit) /\ t \in Seq(Unit)
  BY <1>3 DEF AreUnits
<1>5. Joins(u, s, t)
  <2>1. u = s \o t
    BY <1>2 DEF Sized
  <2> QED
    BY <1>4, <2>1, Joined
<1>6. /\ u \in Seq(Unit) /\ Len(u) = 2 + length
      /\ \A i \in 1..2 : u[i] = s[i]
      /\ \A i \in 1..length : u[2 + i] = t[i]
  BY <1>3, <1>5 DEF AreUnits, Joins
<1>7. AreSized(u, first, second, length)
  BY <1>3, <1>6 DEF AreSized, AreUnits
<1> QED
  BY <1>2, <1>7

LEMMA TypesFinite == IsFiniteSet(Types)
<1> DEFINE all == <<"none", "vnc", "diffieHellman", "ultraVNCMSLogonII", "tight", "other">>
<1>1. all \in [1..6 -> Types]
  BY DEF Types
<1>2. \A type \in Types : \E i \in 1..6 : all[i] = type
  <2>1. all[1] = "none" /\ all[2] = "vnc" /\ all[3] = "diffieHellman"
    OBVIOUS
  <2>2. all[4] = "ultraVNCMSLogonII" /\ all[5] = "tight" /\ all[6] = "other"
    OBVIOUS
  <2>3. 1 \in 1..6 /\ 2 \in 1..6 /\ 3 \in 1..6 /\ 4 \in 1..6 /\ 5 \in 1..6 /\ 6 \in 1..6
    OBVIOUS
  <2> HIDE DEF all
  <2> QED
    BY <2>1, <2>2, <2>3, Zenon DEF Types
<1> HIDE DEF all
<1>3. all \in Surjection(1..6, Types)
  BY <1>1, <1>2, Fun_IsSurj
<1>4. IsFiniteSet(1..6)
  <2>1. \A m, n \in Int : IsFiniteSet(m..n)
    BY FS_Interval
  <2>2. 1 \in Int /\ 6 \in Int
    OBVIOUS
  <2> QED
    BY <2>1, <2>2
<1> QED
  BY <1>3, <1>4, FS_Surjection

(* A set of offered types, as units in some order: each of them once. *)
LEMMA OneUnitEach ==
    ASSUME NEW offer \in SUBSET Types
    PROVE  LET units == {[of |-> "types", value |-> type] : type \in offer} IN
           /\ IsFiniteSet(units) /\ Cardinality(units) = Cardinality(offer)
           /\ Cardinality(offer) \in Nat
           /\ Cardinality(offer) = 0 <=> offer = {}
<1> DEFINE units == {[of |-> "types", value |-> type] : type \in offer}
           f     == [type \in offer |-> [of |-> "types", value |-> type]]
<1>1. IsFiniteSet(offer)
  BY TypesFinite, FS_Subset
<1>2. f \in Bijection(offer, units)
  <2>1. f \in [offer -> units]
    OBVIOUS
  <2>2. \A a, b \in offer : f[a] = f[b] => a = b
    OBVIOUS
  <2>3. \A t \in units : \E s \in offer : f[s] = t
    OBVIOUS
  <2> HIDE DEF f, units
  <2> QED
    BY <2>1, <2>2, <2>3, Fun_IsBij
<1>3. ExistsBijection(offer, units)
  BY <1>2 DEF ExistsBijection
<1>4. IsFiniteSet(units) /\ Cardinality(units) = Cardinality(offer)
  BY <1>1, <1>3, FS_Bijection
<1>5. Cardinality(offer) \in Nat
  BY <1>1, FS_CardinalityType
<1>6. Cardinality(offer) = 0 <=> offer = {}
  BY <1>1, FS_EmptySet
<1> QED
  BY <1>4, <1>5, <1>6

(* SetToSeq lists each element of a finite set. *)
LEMMA SetToSeqIs ==
    ASSUME NEW S, IsFiniteSet(S)
    PROVE  /\ SetToSeq(S) \in [1..Cardinality(S) -> S]
           /\ \A x \in S : \E i \in 1..Cardinality(S) : SetToSeq(S)[i] = x
<1> DEFINE n == Cardinality(S)
<1>1. n \in Nat /\ ExistsBijection(1..n, S)
  BY FS_CardinalityType
<1>2. PICK g : g \in Bijection(1..n, S)
  BY <1>1 DEF ExistsBijection
<1>3. g \in [1..n -> S] /\ IsInjective(g)
  BY <1>2 DEF Bijection, Injection
<1>4. SetToSeq(S) \in [1..n -> S] /\ IsInjective(SetToSeq(S))
  BY <1>3 DEF SetToSeq
<1>5. SetToSeq(S) \in Injection(1..n, S)
  BY <1>4 DEF Injection
<1>6. IsFiniteSet(1..n) /\ Cardinality(1..n) = n
  BY <1>1, FS_Interval
<1>7. SetToSeq(S) \in Surjection(1..n, S)
  BY <1>5, <1>6, FS_Injection
<1> QED
  BY <1>4, <1>7 DEF Surjection

(* s is the number of types, and each of them once. *)
IsOffering(s, offer) ==
    /\ Cardinality(offer) \in Nat /\ (Cardinality(offer) = 0 <=> offer = {})
    /\ s \in Seq(Unit) /\ Len(s) = 1 + Cardinality(offer)
    /\ s[1].of = "count" /\ s[1].value = Cardinality(offer)
    /\ \A i \in 1..Cardinality(offer) : s[1 + i].of = "types" /\ s[1 + i].value \in offer
    /\ \A type \in offer : \E i \in 1..Cardinality(offer) : s[1 + i].value = type

LEMMA OfferingIs ==
    ASSUME NEW offer \in SUBSET Types
    PROVE  IsOffering(Offering(offer), offer)
<1>1. PICK n, units, s, t, u :
        /\ n = Cardinality(offer) /\ units = {[of |-> "types", value |-> type] : type \in offer}
        /\ s = Units("count", n, 1) /\ t = SetToSeq(units) /\ u = Offering(offer)
  OBVIOUS
<1>2. n \in Nat /\ (n = 0 <=> offer = {}) /\ IsFiniteSet(units) /\ Cardinality(units) = n
  BY <1>1, OneUnitEach
<1>3. t \in [1..n -> units] /\ \A x \in units : \E i \in 1..n : t[i] = x
  BY <1>1, <1>2, SetToSeqIs
<1>4. t \in Seq(Unit) /\ Len(t) = n
  <2>1. units \subseteq Unit
    BY <1>1 DEF Unit, Fields, Values
  <2>2. t \in [1..n -> Unit]
    BY <1>3, <2>1
  <2> QED
    BY <1>2, <2>2, SeqDef
<1>5. \A x \in units : x.of = "types" /\ x.value \in offer
  BY <1>1
<1>6. \A i \in 1..n : t[i].of = "types" /\ t[i].value \in offer
  BY <1>3, <1>5
<1>7. \A type \in offer : \E i \in 1..n : t[i].value = type
  <2> TAKE type \in offer
  <2>1. [of |-> "types", value |-> type] \in units
    BY <1>1
  <2>2. PICK i \in 1..n : t[i] = [of |-> "types", value |-> type]
    BY <1>3, <2>1
  <2> QED
    BY <2>2
<1>8. AreUnits(s, "count", n, 1)
  <2>1. "count" \in Fields /\ n \in Values
    BY <1>2 DEF Fields, Values
  <2> QED
    BY <1>1, <2>1, UnitsAre
<1>9. s \in Seq(Unit) /\ Len(s) = 1 /\ s[1].of = "count" /\ s[1].value = n
  BY <1>8 DEF AreUnits
<1>10. Joins(u, s, t)
  <2>1. u = s \o t
    BY <1>1 DEF Offering
  <2> QED
    BY <1>4, <1>9, <2>1, Joined
<1>11. /\ u \in Seq(Unit) /\ Len(u) = 1 + n /\ u[1] = s[1]
       /\ \A i \in 1..n : u[1 + i] = t[i]
  BY <1>2, <1>4, <1>9, <1>10 DEF Joins
<1>12. IsOffering(u, offer)
  BY <1>1, <1>2, <1>6, <1>7, <1>9, <1>11, SMTT(30) DEF IsOffering
<1> QED
  BY <1>1, <1>12

(* Each field of a challenge is two units at its place. *)
FieldsLieIn(message, type) ==
    /\ message \in Seq(Unit)
    /\ \A field \in ToSet(Challenge(type)) :
        /\ Start(field) \in Nat /\ Start(field) + 2 <= Len(message)
        /\ \A i \in Start(field) + 1..Start(field) + 2 :
            message[i].of = field /\ (field = "keySize" => message[i].value = 2)

LEMMA ChallengeFieldsAre ==
    /\ ToSet(Challenge("vnc")) = {"challenge"}
    /\ ToSet(Challenge("diffieHellman")) = {"generator", "keySize", "prime", "peerKey"}
    /\ ToSet(Challenge("ultraVNCMSLogonII")) = {"gen", "modulus", "resp"}
    /\ Challenge("none") = <<>>
BY DEF ToSet, Challenge

(* Fields of two units, one behind the other. *)
AreThree(u, a, b, c) ==
    /\ u \in Seq(Unit) /\ Len(u) = 6
    /\ u[1] = a[1] /\ u[2] = a[2] /\ u[3] = b[1] /\ u[4] = b[2]
    /\ u[5] = c[1] /\ u[6] = c[2]
AreFour(u, a, b, c, d) ==
    /\ u \in Seq(Unit) /\ Len(u) = 8
    /\ u[1] = a[1] /\ u[2] = a[2] /\ u[3] = b[1] /\ u[4] = b[2]
    /\ u[5] = c[1] /\ u[6] = c[2] /\ u[7] = d[1] /\ u[8] = d[2]

LEMMA ThreeFields ==
    ASSUME NEW a \in Seq(Unit), Len(a) = 2, NEW b \in Seq(Unit), Len(b) = 2,
           NEW c \in Seq(Unit), Len(c) = 2
    PROVE  AreThree((a \o b) \o c, a, b, c)
<1>1. PICK v, u : v = a \o b /\ u = v \o c
  OBVIOUS
<1>2. Joins(v, a, b)
  BY <1>1, Joined
<1>3. v \in Seq(Unit)
  BY <1>2 DEF Joins
<1>4. Joins(u, v, c)
  BY <1>1, <1>3, Joined
<1>5. AreThree(u, a, b, c)
  BY <1>2, <1>4 DEF Joins, AreThree
<1> QED
  BY <1>1, <1>5

LEMMA FourFields ==
    ASSUME NEW a \in Seq(Unit), Len(a) = 2, NEW b \in Seq(Unit), Len(b) = 2,
           NEW c \in Seq(Unit), Len(c) = 2, NEW d \in Seq(Unit), Len(d) = 2
    PROVE  AreFour(((a \o b) \o c) \o d, a, b, c, d)
<1>1. PICK v, w, u : v = a \o b /\ w = v \o c /\ u = w \o d
  OBVIOUS
<1>2. Joins(v, a, b)
  BY <1>1, Joined
<1>3. v \in Seq(Unit)
  BY <1>2 DEF Joins
<1>4. Joins(w, v, c)
  BY <1>1, <1>3, Joined
<1>5. w \in Seq(Unit)
  BY <1>4 DEF Joins
<1>6. Joins(u, w, d)
  BY <1>1, <1>5, Joined
<1>8. Len(v) = 4 /\ v[1] = a[1] /\ v[2] = a[2] /\ v[3] = b[1] /\ v[4] = b[2]
  BY <1>2 DEF Joins
<1>9. /\ Len(w) = 6 /\ w[1] = v[1] /\ w[2] = v[2] /\ w[3] = v[3] /\ w[4] = v[4]
      /\ w[5] = c[1] /\ w[6] = c[2]
  BY <1>4, <1>8 DEF Joins
<1>10. /\ u \in Seq(Unit) /\ Len(u) = 8
       /\ \A i \in 1..6 : u[i] = w[i]
       /\ u[7] = d[1] /\ u[8] = d[2]
  BY <1>6, <1>9 DEF Joins
<1>11. AreFour(u, a, b, c, d)
  BY <1>8, <1>9, <1>10 DEF AreFour
<1> QED
  BY <1>1, <1>11

(* s is a field of two units. *)
IsField(s, field) == s \in Seq(Unit) /\ Len(s) = 2 /\ s[1].of = field /\ s[2].of = field

LEMMA FieldIs == \A field \in ChallengeFields : IsField(Units(field, 0, 2), field)
<1> TAKE field \in ChallengeFields
<1>1. PICK s : s = Units(field, 0, 2)
  OBVIOUS
<1>2. field \in Fields /\ 0 \in Values
  BY DEF Fields, Values
<1>3. AreUnits(s, field, 0, 2)
  BY <1>1, <1>2, UnitsAre
<1> QED
  BY <1>1, <1>3 DEF AreUnits, IsField

LEMMA KeySizeIs ==
    /\ IsField(Units("keySize", 2, 2), "keySize")
    /\ \A i \in 1..2 : Units("keySize", 2, 2)[i].value = 2
<1>1. PICK s : s = Units("keySize", 2, 2)
  OBVIOUS
<1>2. "keySize" \in Fields /\ 2 \in Values
  BY DEF Fields, ChallengeFields, Values
<1>3. AreUnits(s, "keySize", 2, 2)
  BY <1>1, <1>2, UnitsAre
<1> QED
  BY <1>1, <1>3 DEF AreUnits, IsField

LEMMA ChallengeOfVNC ==
    ASSUME NEW message, message = Challenging("vnc", 2)
    PROVE  FieldsLieIn(message, "vnc") /\ Len(message) = 2
<1>1. message = Units("challenge", 0, 2)
  BY DEF Challenging
<1>2. IsField(message, "challenge")
  BY <1>1, FieldIs DEF ChallengeFields
<1>3. Start("challenge") = 0
  BY DEF Start
<1> QED
  BY <1>2, <1>3, ChallengeFieldsAre DEF FieldsLieIn, IsField

LEMMA ChallengeOfUltraVNC ==
    ASSUME NEW message, message = Challenging("ultraVNCMSLogonII", 2)
    PROVE  FieldsLieIn(message, "ultraVNCMSLogonII") /\ Len(message) = 6
<1>1. PICK a, b, c : a = Units("gen", 0, 2) /\ b = Units("modulus", 0, 2) /\ c = Units("resp", 0, 2)
  OBVIOUS
<1>2. message = (a \o b) \o c
  BY <1>1 DEF Challenging
<1>3. IsField(a, "gen") /\ IsField(b, "modulus") /\ IsField(c, "resp")
  BY <1>1, FieldIs DEF ChallengeFields
<1>4. AreThree(message, a, b, c)
  BY <1>2, <1>3, ThreeFields DEF IsField
<1>5. Start("gen") = 0 /\ Start("modulus") = 2 /\ Start("resp") = 4
  BY DEF Start
<1>6. /\ message \in Seq(Unit) /\ Len(message) = 6
      /\ message[1].of = "gen" /\ message[2].of = "gen" /\ message[3].of = "modulus"
      /\ message[4].of = "modulus" /\ message[5].of = "resp" /\ message[6].of = "resp"
  BY <1>3, <1>4 DEF AreThree, IsField
<1> QED
  BY <1>5, <1>6, ChallengeFieldsAre DEF FieldsLieIn

LEMMA ChallengeOfARD ==
    ASSUME NEW message, message = Challenging("diffieHellman", 2)
    PROVE  FieldsLieIn(message, "diffieHellman") /\ Len(message) = 8
<1>1. PICK a, b, c, d : /\ a = Units("generator", 0, 2) /\ b = Units("keySize", 2, 2)
                        /\ c = Units("prime", 0, 2) /\ d = Units("peerKey", 0, 2)
  OBVIOUS
<1>2. message = ((a \o b) \o c) \o d
  BY <1>1 DEF Challenging
<1>3. IsField(a, "generator") /\ IsField(c, "prime") /\ IsField(d, "peerKey")
  BY <1>1, FieldIs DEF ChallengeFields
<1>4. IsField(b, "keySize") /\ b[1].value = 2 /\ b[2].value = 2
  BY <1>1, KeySizeIs
<1>5. AreFour(message, a, b, c, d)
  BY <1>2, <1>3, <1>4, FourFields DEF IsField
<1>6. Start("generator") = 0 /\ Start("keySize") = 2 /\ Start("prime") = 4 /\ Start("peerKey") = 6
  BY DEF Start
<1>7. /\ message \in Seq(Unit) /\ Len(message) = 8
      /\ message[1].of = "generator" /\ message[2].of = "generator"
      /\ message[3].of = "keySize" /\ message[3].value = 2
      /\ message[4].of = "keySize" /\ message[4].value = 2
      /\ message[5].of = "prime" /\ message[6].of = "prime"
      /\ message[7].of = "peerKey" /\ message[8].of = "peerKey"
  BY <1>3, <1>4, <1>5 DEF AreFour, IsField
<1> QED
  BY <1>6, <1>7, ChallengeFieldsAre, SMTT(30) DEF FieldsLieIn

LEMMA ServerInitIs ==
    ASSUME NEW length \in Nat, NEW message, message = ServerInit(length)
    PROVE  /\ message \in Seq(Unit) /\ Len(message) = 4 + length
           /\ \A i \in 1..2 : message[i].of = "size"
           /\ \A i \in 3..4 : message[i].of = "nameLength" /\ message[i].value = length
           /\ \A i \in 5..4 + length : message[i].of = "name"
<1>1. PICK s, t : s = Units("size", 0, 2) /\ t = Sized("nameLength", "name", length)
  OBVIOUS
<1>2. AreUnits(s, "size", 0, 2) /\ AreSized(t, "nameLength", "name", length)
  <2>1. "size" \in Fields /\ "nameLength" \in Fields /\ "name" \in Fields /\ 0 \in Values
    BY DEF Fields, Values
  <2> QED
    BY <1>1, <2>1, UnitsAre, SizedAre
<1>3. Joins(message, s, t)
  <2>1. message = s \o t
    BY <1>1 DEF ServerInit
  <2>2. s \in Seq(Unit) /\ t \in Seq(Unit)
    BY <1>2 DEF AreUnits, AreSized
  <2> QED
    BY <2>1, <2>2, Joined
<1>4. /\ message \in Seq(Unit) /\ Len(message) = 4 + length
      /\ \A i \in 1..2 : message[i].of = "size"
      /\ \A i \in 1..2 : message[2 + i].of = "nameLength" /\ message[2 + i].value = length
  BY <1>2, <1>3 DEF AreUnits, AreSized, Joins
<1>5. \A i \in 3..4 : message[i].of = "nameLength" /\ message[i].value = length
  BY <1>4
<1>6. ASSUME NEW i \in 5..4 + length PROVE message[i].of = "name"
  <2>1. PICK j \in 1..length : i = 2 + (2 + j)
    <3>1. i - 4 \in 1..length /\ i = 2 + (2 + (i - 4))
      OBVIOUS
    <3> QED
      BY <3>1
  <2>2. 2 + j \in 1..Len(t) /\ t[2 + j].of = "name"
    BY <1>2 DEF AreSized
  <2>3. message[2 + (2 + j)] = t[2 + j]
    BY <1>2, <1>3, <2>2 DEF AreUnits, Joins
  <2> QED
    BY <2>1, <2>2, <2>3
<1> QED
  BY <1>4, <1>5, <1>6

(* message is the number 0, and a reason. *)
IsNothingOffered(message, length) ==
    /\ message \in Seq(Unit) /\ Len(message) = 3 + length
    /\ message[1].of = "count" /\ message[1].value = 0
    /\ \A i \in 2..3 : message[i].of = "reasonLength" /\ message[i].value = length
    /\ \A i \in 4..3 + length : message[i].of = "reason"

LEMMA NothingOfferedIs ==
    ASSUME NEW length \in Nat, NEW message, message = NothingOffered(length)
    PROVE  IsNothingOffered(message, length)
<1>1. PICK s, t : s = Offering({}) /\ t = Sized("reasonLength", "reason", length)
  OBVIOUS
<1>2. IsOffering(s, {}) /\ AreSized(t, "reasonLength", "reason", length)
  <2>1. "reasonLength" \in Fields /\ "reason" \in Fields
    BY DEF Fields
  <2> QED
    BY <1>1, <2>1, OfferingIs, SizedAre
<1>3. s \in Seq(Unit) /\ Len(s) = 1 /\ s[1].of = "count" /\ s[1].value = 0
  BY <1>2 DEF IsOffering
<1>4. Joins(message, s, t)
  <2>1. message = s \o t
    BY <1>1 DEF NothingOffered
  <2>2. s \in Seq(Unit) /\ t \in Seq(Unit)
    BY <1>2, <1>3 DEF AreSized
  <2> QED
    BY <2>1, <2>2, Joined
<1>5. /\ message \in Seq(Unit) /\ Len(message) = 3 + length
      /\ message[1].of = "count" /\ message[1].value = 0
      /\ \A i \in 1..2 : message[1 + i].of = "reasonLength" /\ message[1 + i].value = length
  BY <1>2, <1>3, <1>4 DEF AreSized, Joins
<1>6. \A i \in 2..3 : message[i].of = "reasonLength" /\ message[i].value = length
  BY <1>5
<1>7. ASSUME NEW i \in 4..3 + length PROVE message[i].of = "reason"
  <2>1. PICK j \in 1..length : i = 1 + (2 + j)
    <3>1. i - 3 \in 1..length /\ i = 1 + (2 + (i - 3))
      OBVIOUS
    <3> QED
      BY <3>1
  <2>2. 2 + j \in 1..Len(t) /\ t[2 + j].of = "reason"
    BY <1>2 DEF AreSized
  <2>3. message[1 + (2 + j)] = t[2 + j]
    BY <1>3, <1>4, <2>2 DEF Joins
  <2> QED
    BY <2>1, <2>2, <2>3
<1> QED
  BY <1>5, <1>6, <1>7 DEF IsNothingOffered

LEMMA VerdictIs ==
    ASSUME NEW verdict \in BOOLEAN, NEW message, message = Units("result", verdict, 2)
    PROVE  /\ message \in Seq(Unit) /\ Len(message) = 2
           /\ \A i \in 1..2 : message[i].of = "result" /\ message[i].value = verdict
<1>1. "result" \in Fields /\ verdict \in Values
  BY DEF Fields, Values
<1>2. AreUnits(message, "result", verdict, 2)
  BY <1>1, UnitsAre
<1> QED
  BY <1>2 DEF AreUnits

(* message is the verdict, and from 3.8 on a reason. *)
IsRefusal(message, version, length) ==
    /\ message \in Seq(Unit) /\ 2 <= Len(message)
    /\ \A i \in 1..2 : message[i].of = "result" /\ message[i].value = FALSE
    /\ version = V38 =>
         /\ Len(message) = 4 + length
         /\ \A i \in 3..4 : message[i].of = "reasonLength" /\ message[i].value = length
         /\ \A i \in 5..4 + length : message[i].of = "reason"

LEMMA RefusalIs ==
    ASSUME NEW length \in Nat, NEW version \in {V37, V38},
           NEW message, message = Refusal(version, length)
    PROVE  IsRefusal(message, version, length)
<1>1. PICK s, t : s = Units("result", FALSE, 2) /\ t = Sized("reasonLength", "reason", length)
  OBVIOUS
<1>2. /\ s \in Seq(Unit) /\ Len(s) = 2
      /\ \A i \in 1..2 : s[i].of = "result" /\ s[i].value = FALSE
  <2>1. PICK verdict \in BOOLEAN : verdict = FALSE
    OBVIOUS
  <2>2. s = Units("result", verdict, 2)
    BY <1>1, <2>1, Zenon
  <2>3. /\ s \in Seq(Unit) /\ Len(s) = 2
        /\ \A i \in 1..2 : s[i].of = "result" /\ s[i].value = verdict
    BY <2>2, VerdictIs
  <2> QED
    BY <2>1, <2>3
<1>3. AreSized(t, "reasonLength", "reason", length)
  <2>1. "reasonLength" \in Fields /\ "reason" \in Fields
    BY DEF Fields
  <2> QED
    BY <1>1, <2>1, SizedAre
<1>4. V38.minor = 8 /\ V37.minor = 7 /\ V37 # V38
  BY DEF V37, V38
<1>5. PICK empty : empty = <<>> /\ empty \in Seq(Unit) /\ Len(empty) = 0
  BY EmptySeq
<1>6. CASE version = V37
  <2>1. ~(version.minor >= 8)
    BY <1>4, <1>6
  <2>2. message = s \o empty
    BY <1>1, <1>5, <2>1, Zenon DEF Refusal
  <2>3. Joins(message, s, empty)
    BY <1>2, <1>5, <2>2, Joined
  <2> QED
    BY <1>2, <1>4, <1>5, <1>6, <2>3 DEF Joins, IsRefusal
<1>7. CASE version = V38
  <2>1. version.minor >= 8
    BY <1>4, <1>7
  <2>2. message = s \o t
    BY <1>1, <2>1, Zenon DEF Refusal
  <2>3. t \in Seq(Unit)
    BY <1>3 DEF AreSized
  <2>4. Joins(message, s, t)
    BY <1>2, <2>2, <2>3, Joined
  <2>5. /\ message \in Seq(Unit) /\ Len(message) = 4 + length
        /\ \A i \in 1..2 : message[i] = s[i]
        /\ \A i \in 1..2 : message[2 + i].of = "reasonLength" /\ message[2 + i].value = length
    BY <1>2, <1>3, <2>4 DEF AreSized, Joins
  <2>6. \A i \in 3..4 : message[i].of = "reasonLength" /\ message[i].value = length
    BY <2>5
  <2>7. ASSUME NEW i \in 5..4 + length PROVE message[i].of = "reason"
    <3>1. PICK j \in 1..length : i = 2 + (2 + j)
      <4>1. i - 4 \in 1..length /\ i = 2 + (2 + (i - 4))
        OBVIOUS
      <4> QED
        BY <4>1
    <3>2. 2 + j \in 1..Len(t) /\ t[2 + j].of = "reason"
      BY <1>3 DEF AreSized
    <3>3. message[2 + (2 + j)] = t[2 + j]
      BY <1>2, <2>4, <3>2 DEF Joins
    <3> QED
      BY <3>1, <3>2, <3>3
  <2> QED
    BY <1>2, <1>4, <1>7, <2>5, <2>6, <2>7 DEF IsRefusal
<1> QED
  BY <1>6, <1>7

-----------------------------------------------------------------------------
(***************************************************************************)
(* The client's decisions.                                                 *)
(***************************************************************************)
LEMMA DecidedIs ==
    ASSUME NEW offer \in SUBSET (Types \ {"tight"})
    PROVE  /\ Decided(offer) \in (Types \ {"tight", "other"}) \cup {"invalid"}
           /\ Decided(offer) = "invalid" <=> offer \cap ToSet(Preference) = {}
<1> DEFINE found == {i \in DOMAIN Preference : Preference[i] \in offer}
<1>1. /\ DOMAIN Preference = 1..5
      /\ Preference[1] = "none" /\ Preference[2] = "diffieHellman"
      /\ Preference[3] = "ultraVNCMSLogonII" /\ Preference[4] = "vnc" /\ Preference[5] = "tight"
  BY DEF Preference
<1>2. CASE offer \cap ToSet(Preference) = {}
  BY <1>2 DEF Decided
<1>3. CASE offer \cap ToSet(Preference) # {}
  <2>1. found # {} /\ found \subseteq 1..5
    BY <1>1, <1>3 DEF ToSet
  <2>2. \E x \in found : \A y \in found : x <= y
    BY <2>1
  <2>3. Min(found) \in found
    BY <2>2 DEF Min
  <2>4. Decided(offer) = Preference[Min(found)]
    BY <1>3 DEF Decided
  <2>5. Decided(offer) \in offer
    BY <2>3, <2>4
  <2>6. Decided(offer) \in {"none", "diffieHellman", "ultraVNCMSLogonII", "vnc", "tight"}
    <3> HIDE DEF found
    <3>1. Min(found) \in 1..5
      BY <2>1, <2>3
    <3> QED
      BY <1>1, <2>4, <3>1
  <2> QED
    BY <1>3, <2>5, <2>6 DEF Types
<1> QED
  BY <1>2, <1>3

-----------------------------------------------------------------------------
(***************************************************************************)
(* The stream.                                                             *)
(***************************************************************************)
(* t is s after its first n units. *)
Shifted(t, s, n) ==
    /\ t \in Seq(Unit) /\ Len(t) = Len(s) - n
    /\ \A i \in 1..Len(t) : t[i] = s[n + i]

(* t is a prefix of s. *)
Cut(t, s) ==
    /\ t \in Seq(Unit) /\ Len(t) <= Len(s)
    /\ \A i \in 1..Len(t) : t[i] = s[i]

(* What is left of a message when more of it is read, or its end is lost. *)
LEMMA LeftShift ==
    ASSUME NEW s \in Seq(Unit), NEW t, NEW n \in Nat, Shifted(t, s, n),
           NEW message \in Seq(Unit), NEW p \in Nat, Left(s, message, p)
    PROVE  Left(t, message, p + n)
<1>1. /\ Len(s) \in Nat /\ Len(message) \in Nat /\ Len(t) \in Nat /\ Len(t) = Len(s) - n
      /\ Len(s) <= Len(message) - p
  BY DEF Shifted, Left
<1>2. ASSUME NEW i \in 1..Len(t) PROVE t[i] = message[(p + n) + i]
  <2>1. n + i \in 1..Len(s) /\ p + (n + i) = (p + n) + i
    BY <1>1
  <2>2. t[i] = s[n + i] /\ s[n + i] = message[p + (n + i)]
    BY <2>1 DEF Shifted, Left
  <2> QED
    BY <2>1, <2>2
<1>3. Len(t) <= Len(message) - (p + n)
  BY <1>1
<1> QED
  BY <1>2, <1>3 DEF Left

LEMMA LeftCut ==
    ASSUME NEW s \in Seq(Unit), NEW t, Cut(t, s),
           NEW message \in Seq(Unit), NEW p \in Nat, Left(s, message, p)
    PROVE  Left(t, message, p)
<1>1. /\ Len(s) \in Nat /\ Len(message) \in Nat /\ Len(t) \in Nat /\ Len(t) <= Len(s)
      /\ Len(s) <= Len(message) - p
  BY DEF Cut, Left
<1>2. ASSUME NEW i \in 1..Len(t) PROVE t[i] = message[p + i]
  <2>1. i \in 1..Len(s)
    BY <1>1
  <2> QED
    BY <2>1 DEF Cut, Left
<1> QED
  BY <1>1, <1>2 DEF Left

LEMMA LeftWhole ==
    ASSUME NEW message \in Seq(Unit)
    PROVE  Left(message, message, 0)
BY DEF Left

(* A part of a sequence, in terms of its elements. *)
LEMMA PartIs ==
    ASSUME NEW s \in Seq(Unit), NEW m \in 1..Len(s) + 1, NEW n \in 0..Len(s), m <= n + 1,
           NEW t, t = SubSeq(s, m, n)
    PROVE  /\ t \in Seq(Unit) /\ Len(t) = n + 1 - m
           /\ \A i \in 1..Len(t) : t[i] = s[m + i - 1]
<1>1. Len(s) \in Nat /\ m \in Int /\ n \in Int
  OBVIOUS
<1>2. \A i \in m..n : s[i] \in Unit
  BY <1>1
<1>3. /\ t \in Seq(Unit) /\ Len(t) = IF m <= n THEN n - m + 1 ELSE 0
      /\ \A i \in 1..n - m + 1 : t[i] = s[m + i - 1]
  BY <1>1, <1>2, SubSeqProperties
<1> QED
  BY <1>1, <1>3

(* A sequence after its first n elements, and before what comes behind them. *)
LEMMA TailIs ==
    ASSUME NEW a \in Seq(Unit), NEW n \in 0..Len(a), NEW b, b = SubSeq(a, n + 1, Len(a))
    PROVE  /\ b \in Seq(Unit) /\ Len(b) = Len(a) - n
           /\ \A i \in 1..Len(b) : b[i] = a[n + i]
<1>1. Len(a) \in Nat /\ n \in Nat
  OBVIOUS
<1>2. n + 1 \in 1..Len(a) + 1 /\ Len(a) \in 0..Len(a) /\ n + 1 <= Len(a) + 1
  BY <1>1
<1>3. PICK m, l : m = n + 1 /\ l = Len(a)
  OBVIOUS
<1>4. /\ b \in Seq(Unit) /\ Len(b) = l + 1 - m
      /\ \A i \in 1..Len(b) : b[i] = a[m + i - 1]
  BY <1>2, <1>3, PartIs
<1>5. \A i \in 1..Len(b) : m + i - 1 = n + i
  BY <1>1, <1>3
<1> QED
  BY <1>1, <1>3, <1>4, <1>5

LEMMA PrefixIs ==
    ASSUME NEW a \in Seq(Unit), NEW n \in 0..Len(a), NEW b, b = SubSeq(a, 1, n)
    PROVE  /\ b \in Seq(Unit) /\ Len(b) = n
           /\ \A i \in 1..Len(b) : b[i] = a[i]
<1>1. Len(a) \in Nat /\ n \in Nat
  OBVIOUS
<1>2. PICK one : one = 1
  OBVIOUS
<1>3. one \in 1..Len(a) + 1 /\ one <= n + 1
  BY <1>1, <1>2
<1>4. /\ b \in Seq(Unit) /\ Len(b) = n + 1 - one
      /\ \A i \in 1..Len(b) : b[i] = a[one + i - 1]
  BY <1>2, <1>3, PartIs
<1> QED
  BY <1>1, <1>2, <1>4

(* What has arrived comes before what has not. *)
LEMMA TakenFromArrived ==
    ASSUME NEW a \in Seq(Unit), NEW w \in Seq(Unit), NEW n \in 0..Len(a),
           NEW b \in Seq(Unit), Len(b) = Len(a) - n, \A i \in 1..Len(b) : b[i] = a[n + i],
           NEW s, Joins(s, a, w), NEW t, Joins(t, b, w)
    PROVE  Shifted(t, s, n) /\ n <= Len(s) /\ \A i \in 1..n : a[i] = s[i]
<1>1. Len(a) \in Nat /\ Len(w) \in Nat /\ n \in Nat /\ Len(b) \in Nat
  OBVIOUS
<1>2. Len(s) = Len(a) + Len(w) /\ t \in Seq(Unit) /\ Len(t) = Len(s) - n
  BY <1>1 DEF Joins
<1>3. ASSUME NEW i \in 1..Len(t) PROVE t[i] = s[n + i]
  <2>1. CASE i <= Len(b)
    <3>1. i \in 1..Len(b) /\ n + i \in 1..Len(a)
      BY <1>1, <2>1
    <3>2. t[i] = b[i] /\ s[n + i] = a[n + i] /\ b[i] = a[n + i]
      BY <3>1 DEF Joins
    <3> QED
      BY <3>2
  <2>2. CASE i > Len(b)
    <3>1. PICK j \in 1..Len(w) : i = Len(b) + j
      <4>1. i - Len(b) \in 1..Len(w) /\ i = Len(b) + (i - Len(b))
        BY <1>1, <1>2, <2>2
      <4> QED
        BY <4>1
    <3>2. t[i] = w[j] /\ s[Len(a) + j] = w[j]
      BY <3>1 DEF Joins
    <3>3. Len(a) + j = n + i
      BY <1>1, <3>1
    <3> QED
      BY <3>2, <3>3
  <2>3. i \in Nat
    BY <1>2
  <2> QED
    BY <1>1, <2>1, <2>2, <2>3
<1>4. \A i \in 1..n : a[i] = s[i]
  BY <1>1 DEF Joins
<1>5. n <= Len(s)
  BY <1>1, <1>2
<1> QED
  BY <1>2, <1>3, <1>4, <1>5 DEF Shifted

LEMMA JoinedInAnyOrder ==
    ASSUME NEW s \in Seq(Unit), NEW t \in Seq(Unit), NEW u \in Seq(Unit)
    PROVE  (s \o t) \o u = s \o (t \o u)
BY ConcatAssociative

(* An equation that the provers are not to rewrite by. *)
Same(s, t) == s = t

(* The stream does not change when a part of it is delivered. *)
LEMMA MovedToArrived ==
    ASSUME NEW a \in Seq(Unit), NEW w \in Seq(Unit), NEW n \in 1..Len(w),
           NEW x, x = SubSeq(w, 1, n), NEW v, v = SubSeq(w, n + 1, Len(w))
    PROVE  /\ a \o x \in Seq(Unit) /\ v \in Seq(Unit)
           /\ Same((a \o x) \o v, a \o w)
<1>1. Len(a) \in Nat /\ Len(w) \in Nat /\ n \in Nat
  OBVIOUS
<1>3. x \in Seq(Unit) /\ v \in Seq(Unit) /\ x \o v = w
  <2>1. x \in Seq(Unit) /\ Len(x) = n /\ \A i \in 1..Len(x) : x[i] = w[i]
    BY <1>1, PrefixIs
  <2>2. v \in Seq(Unit) /\ Len(v) = Len(w) - n /\ \A i \in 1..Len(v) : v[i] = w[n + i]
    BY <1>1, TailIs
  <2>3. PICK u : u = x \o v
    OBVIOUS
  <2>4. Joins(u, x, v)
    BY <2>1, <2>2, <2>3, Joined
  <2>5. u \in Seq(Unit) /\ Len(u) = Len(w)
    BY <1>1, <2>1, <2>2, <2>4 DEF Joins
  <2>6. ASSUME NEW i \in 1..Len(w) PROVE u[i] = w[i]
    <3>1. CASE i <= n
      <4>1. i \in 1..Len(x)
        BY <1>1, <2>1, <3>1
      <4> QED
        BY <2>1, <2>4, <4>1 DEF Joins
    <3>2. CASE i > n
      <4>1. PICK j \in 1..Len(v) : i = n + j
        <5>1. i - n \in 1..Len(v) /\ i = n + (i - n)
          BY <1>1, <2>2, <3>2
        <5> QED
          BY <5>1
      <4> QED
        BY <2>1, <2>2, <2>4, <4>1 DEF Joins
    <3> QED
      BY <1>1, <3>1, <3>2
  <2>7. u = w
    BY <2>5, <2>6, SeqEqual
  <2> QED
    BY <2>1, <2>2, <2>3, <2>7
<1>4. (a \o x) \o v = a \o (x \o v)
  BY <1>3, JoinedInAnyOrder
<1>5. Joins(a \o x, a, x)
  BY <1>3, Joined
<1> QED
  BY <1>3, <1>4, <1>5 DEF Joins, Same

(* What is lost comes last. *)
LEMMA LostAtTheEnd ==
    ASSUME NEW a \in Seq(Unit), NEW w \in Seq(Unit), NEW n \in 0..Len(w),
           NEW v, v = SubSeq(w, 1, n), NEW s, s = a \o w, NEW t, t = a \o v
    PROVE  v \in Seq(Unit) /\ Cut(t, s)
<1>1. Len(a) \in Nat /\ Len(w) \in Nat /\ n \in Nat
  OBVIOUS
<1>2. v \in Seq(Unit) /\ Len(v) = n /\ \A i \in 1..Len(v) : v[i] = w[i]
  BY PrefixIs
<1>3. Joins(s, a, w) /\ Joins(t, a, v)
  BY <1>2, Joined
<1>4. t \in Seq(Unit) /\ Len(t) = Len(a) + n /\ Len(s) = Len(a) + Len(w)
  BY <1>2, <1>3 DEF Joins
<1>5. ASSUME NEW i \in 1..Len(t) PROVE t[i] = s[i]
  <2>1. CASE i <= Len(a)
    BY <1>1, <1>3, <2>1 DEF Joins
  <2>2. CASE i > Len(a)
    <3>1. PICK j \in 1..Len(v) : i = Len(a) + j
      <4>1. i - Len(a) \in 1..Len(v) /\ i = Len(a) + (i - Len(a))
        BY <1>1, <1>2, <1>4, <2>2
      <4> QED
        BY <4>1
    <3>2. j \in 1..Len(w)
      BY <1>1, <1>2
    <3> QED
      BY <1>2, <1>3, <3>1, <3>2 DEF Joins
  <2> QED
    BY <1>1, <2>1, <2>2
<1> QED
  BY <1>1, <1>2, <1>4, <1>5 DEF Cut

LEMMA StreamIs ==
    /\ Streams => Stream \in Seq(Unit) /\ Joins(Stream, arrived, wire)
    /\ Streams' => Stream' \in Seq(Unit) /\ Joins(Stream', arrived', wire')
<1>1. ASSUME Streams PROVE Stream \in Seq(Unit) /\ Joins(Stream, arrived, wire)
  <2>1. Joins(Stream, arrived, wire)
    BY <1>1, Joined DEF Streams, Stream
  <2> QED
    BY <2>1 DEF Joins
<1>2. ASSUME Streams' PROVE Stream' \in Seq(Unit) /\ Joins(Stream', arrived', wire')
  <2>1. Joins(Stream', arrived', wire')
    BY <1>2, Joined DEF Streams, Stream
  <2> QED
    BY <2>1 DEF Joins
<1> QED
  BY <1>1, <1>2

LEMMA StreamStays ==
    ASSUME Streams, UNCHANGED <<arrived, wire>>
    PROVE  Streams' /\ Stream' = Stream
BY DEF Streams, Stream

(* The stream as a whole: delivery leaves it alone, a server that gives up cuts its end. *)
LEMMA DeliverMoves ==
    ASSUME Streams, Deliver
    PROVE  Streams' /\ Stream' = Stream
<1>1. PICK n \in 1..Len(wire) : /\ arrived' = arrived \o SubSeq(wire, 1, n)
                                /\ wire' = SubSeq(wire, n + 1, Len(wire))
  BY DEF Deliver
<1>2. arrived' \in Seq(Unit) /\ wire' \in Seq(Unit) /\ arrived' \o wire' = arrived \o wire
  <2>1. PICK a, w, x, v, s : /\ a = arrived /\ w = wire /\ x = SubSeq(wire, 1, n)
                             /\ v = wire' /\ s = arrived \o wire
    OBVIOUS
  <2>2. a \in Seq(Unit) /\ w \in Seq(Unit) /\ n \in 1..Len(w)
    BY <2>1 DEF Streams
  <2>3. x = SubSeq(w, 1, n) /\ v = SubSeq(w, n + 1, Len(w))
    BY <1>1, <2>1
  <2>4. a \o x \in Seq(Unit) /\ v \in Seq(Unit)
    BY <2>2, <2>3, MovedToArrived
  <2>5. Same((a \o x) \o v, a \o w)
    BY <2>2, <2>3, MovedToArrived
  <2>6. arrived' = a \o x /\ arrived \o wire = a \o w
    BY <1>1, <2>1
  <2> QED
    BY <2>1, <2>4, <2>5, <2>6 DEF Same
<1> QED
  BY <1>2 DEF Streams, Stream

LEMMA GiveUpCuts ==
    ASSUME Streams, GiveUp
    PROVE  Streams' /\ Cut(Stream', Stream)
<1>1. PICK n \in 0..Len(wire) : wire' = SubSeq(wire, 1, n)
  BY DEF GiveUp
<1>2. arrived' = arrived
  BY DEF GiveUp
<1>3. wire' \in Seq(Unit) /\ Cut(arrived \o wire', arrived \o wire)
  BY <1>1, LostAtTheEnd DEF Streams
<1> QED
  BY <1>2, <1>3 DEF Streams, Stream

(* When nothing is left of the last message, the next one is the stream. *)
LEMMA RespondsWrites ==
    ASSUME Streams, Len(Stream) = 0, NEW units \in Seq(Unit), wire' = wire \o units,
           arrived' = arrived
    PROVE  Streams' /\ Stream' = units
<1>1. arrived = <<>> /\ wire = <<>>
  <2>1. Len(arrived) = 0 /\ Len(wire) = 0
    BY StreamIs DEF Joins, Streams
  <2> QED
    BY <2>1, EmptySeq DEF Streams
<1>2. PICK empty \in Seq(Unit) : empty = <<>>
  BY <1>1 DEF Streams
<1>3. empty \o units = units
  BY <1>2, ConcatEmptySeq
<1>4. wire' = units /\ arrived' = empty
  BY <1>1, <1>2, <1>3
<1> QED
  BY <1>2, <1>3, <1>4 DEF Streams, Stream

(* A read takes one unit or more, and no more than are missing. *)
More(n) == [client EXCEPT !.got = @ + n,
                          !.seen = IF client.at = "types"
                                   THEN @ \cup {Stream[i].value : i \in 1..n} ELSE @]

LEMMA ReadTakes ==
    ASSUME Streams, Read, client.got \in Nat, Length(client) \in Nat, client.got < Length(client)
    PROVE  \E n \in Nat \ {0} :
            /\ n <= Length(client) - client.got /\ n <= Len(Stream)
            /\ Streams' /\ Shifted(Stream', Stream, n)
            /\ client' = IF n = Length(client) - client.got
                         THEN After(More(n), Stream[n].value) ELSE More(n)
<1>1. Len(arrived) \in Nat \ {0} /\ Remaining \in Nat \ {0}
  BY EmptySeq DEF Read, Remaining, Streams
<1>2. PICK n : n = Min({Len(arrived), Remaining}) /\ Consume(n)
  BY DEF Read
<1>3. n \in {Len(arrived), Remaining} /\ n <= Len(arrived) /\ n <= Remaining
  <2>1. \E x \in {Len(arrived), Remaining} : \A y \in {Len(arrived), Remaining} : x <= y
    BY <1>1
  <2> QED
    BY <1>1, <1>2, <2>1 DEF Min
<1>4. n \in Nat \ {0} /\ n \in 0..Len(arrived)
  BY <1>1, <1>3
<1>5. /\ arrived' \in Seq(Unit) /\ Len(arrived') = Len(arrived) - n
      /\ \A i \in 1..Len(arrived') : arrived'[i] = arrived[n + i]
  <2>1. PICK a, b : a = arrived /\ b = arrived'
    OBVIOUS
  <2>2. a \in Seq(Unit) /\ n \in 0..Len(a) /\ b = SubSeq(a, n + 1, Len(a))
    BY <1>2, <1>4, <2>1 DEF Consume, Streams
  <2>3. b \in Seq(Unit) /\ Len(b) = Len(a) - n /\ \A i \in 1..Len(b) : b[i] = a[n + i]
    BY <2>2, TailIs
  <2> QED
    BY <2>1, <2>3
<1>6. wire' = wire
  BY DEF Read
<1>7. Streams'
  BY <1>5, <1>6 DEF Streams
<1>8. Joins(Stream, arrived, wire) /\ Joins(Stream', arrived', wire)
  BY <1>6, <1>7, StreamIs
<1>9. Shifted(Stream', Stream, n) /\ n <= Len(Stream) /\ \A i \in 1..n : arrived[i] = Stream[i]
  <2>1. PICK a, w, b, s, t : /\ a = arrived /\ w = wire /\ b = arrived'
                             /\ s = Stream /\ t = Stream'
    OBVIOUS
  <2>2. /\ a \in Seq(Unit) /\ w \in Seq(Unit) /\ n \in 0..Len(a) /\ b \in Seq(Unit)
        /\ Len(b) = Len(a) - n /\ \A i \in 1..Len(b) : b[i] = a[n + i]
    BY <1>4, <1>5, <2>1 DEF Streams
  <2>3. Joins(s, a, w) /\ Joins(t, b, w)
    BY <1>8, <2>1
  <2>4. Shifted(t, s, n) /\ n <= Len(s) /\ \A i \in 1..n : a[i] = s[i]
    BY <2>2, <2>3, TakenFromArrived, SMTT(30)
  <2> QED
    BY <2>1, <2>4
<1>10. {arrived[i].value : i \in 1..n} = {Stream[i].value : i \in 1..n}
  BY <1>9
<1>11. arrived[n].value = Stream[n].value
  BY <1>4, <1>9
<1>12. client' = IF n = Remaining THEN After(More(n), Stream[n].value) ELSE More(n)
  BY <1>2, <1>10, <1>11 DEF Consume, More
<1> QED
  BY <1>3, <1>4, <1>7, <1>9, <1>12 DEF Remaining

LEMMA HasReadCut ==
    ASSUME NEW message \in Seq(Unit), NEW p \in Nat, HasRead(message, p), Streams, GiveUp,
           server \in Servers
    PROVE  HasRead(message, p)'
<1>1. Cut(Stream', Stream) /\ Stream \in Seq(Unit)
  BY GiveUpCuts, StreamIs
<1>2. server'.gaveUp
  BY DEF GiveUp, Servers
<1>3. Left(Stream', message, p)
  BY <1>1, LeftCut DEF HasRead
<1> QED
  BY <1>2, <1>3 DEF HasRead

-----------------------------------------------------------------------------
(***************************************************************************)
(* A field is read, in part or to its end.                                 *)
(***************************************************************************)
(* The client has read up to the first g units of the field, and seen these values. *)
ReadUpTo(field, message, start, g, seen) ==
    /\ client.got < g /\ g <= Length(client) /\ start + g <= Len(message)
    /\ seen = IF field = "types"
              THEN client.seen \cup {message[i].value : i \in start + client.got + 1..start + g}
              ELSE client.seen
    /\ HasRead(message, start + g)'
    /\ client' = IF g = Length(client)
                 THEN After([client EXCEPT !.got = g, !.seen = seen], message[start + g].value)
                 ELSE [client EXCEPT !.got = g, !.seen = seen]

(* A read takes the field's next units, all that are there if they are not too many, and
   with the last one the client goes on.                                                *)
LEMMA FieldIsRead ==
    ASSUME NEW field \in Fields, NEW message \in Seq(Unit), NEW start \in Nat,
           Streams, Read, client \in Clients, Length(client) \in Nat,
           IsReading(field, message, start)
    PROVE  /\ Streams'
           /\ \E g, seen : g \in Nat /\ ReadUpTo(field, message, start, g, seen)
<1>1. client.got \in Nat /\ client.at = field /\ client.got < Length(client)
  BY DEF IsReading, Clients
<1>2. PICK n \in Nat \ {0} :
        /\ n <= Length(client) - client.got /\ n <= Len(Stream)
        /\ Streams' /\ Shifted(Stream', Stream, n)
        /\ client' = IF n = Length(client) - client.got
                     THEN After(More(n), Stream[n].value) ELSE More(n)
  BY <1>1, ReadTakes
<1>3. PICK g, p : g = client.got + n /\ p = start + client.got
  OBVIOUS
<1>4. /\ g \in Nat /\ client.got < g /\ g <= Length(client) /\ p \in Nat /\ p + n = start + g
      /\ (n = Length(client) - client.got) = (g = Length(client))
  <2>1. PICK length \in Nat, got \in Nat : length = Length(client) /\ got = client.got
    BY <1>1
  <2>2. g = got + n /\ p = start + got /\ n <= length - got
    BY <1>2, <1>3, <2>1
  <2>3. /\ g \in Nat /\ got < g /\ g <= length /\ p \in Nat /\ p + n = start + g
        /\ (n = length - got) = (g = length)
    BY <2>2
  <2> QED
    BY <2>1, <2>3
<1>5. Stream \in Seq(Unit) /\ Stream' \in Seq(Unit) /\ Left(Stream, message, p)
  BY <1>2, <1>3, StreamIs DEF IsReading, HasRead
<1>6. Len(Stream) \in Nat /\ Len(message) \in Nat /\ Len(Stream) <= Len(message) - p
  BY <1>5 DEF Left
<1>7. \A i \in 1..n : Stream[i] = message[p + i]
  <2>1. \A i \in 1..n : i \in 1..Len(Stream)
    BY <1>2, <1>6
  <2> QED
    BY <1>5, <2>1 DEF Left
<1>8. HasRead(message, start + g)'
  <2>1. Left(Stream', message, p + n)
    BY <1>2, <1>4, <1>5, LeftShift
  <2>2. server' = server
    BY DEF Read
  <2>3. ~server.gaveUp => Len(Stream) = Len(message) - p
    BY <1>3 DEF IsReading, HasRead
  <2>4. Len(Stream') = Len(Stream) - n
    BY <1>2 DEF Shifted
  <2>5. ~server.gaveUp => Len(Stream') = Len(message) - (start + g)
    BY <1>2, <1>4, <1>6, <2>3, <2>4
  <2> QED
    BY <1>4, <2>1, <2>2, <2>5 DEF HasRead
<1>9. {Stream[i].value : i \in 1..n} = {message[i].value : i \in start + client.got + 1..start + g}
  <2>1. \A i \in 1..n : p + i \in p + 1..p + n
    BY <1>4
  <2>2. ASSUME NEW j \in p + 1..p + n PROVE \E i \in 1..n : j = p + i
    <3>1. j - p \in 1..n /\ j = p + (j - p)
      BY <1>4
    <3> QED
      BY <3>1
  <2>3. {Stream[i].value : i \in 1..n} = {message[i].value : i \in p + 1..p + n}
    BY <1>7, <2>1, <2>2
  <2> QED
    BY <1>3, <1>4, <2>3
<1>10. PICK seen : seen = IF field = "types"
                          THEN client.seen \cup {message[i].value :
                                                    i \in start + client.got + 1..start + g}
                          ELSE client.seen
  OBVIOUS
<1>11. More(n) = [client EXCEPT !.got = g, !.seen = seen]
  BY <1>1, <1>3, <1>9, <1>10 DEF More
<1>12. Stream[n].value = message[start + g].value
  <2>1. n \in 1..n /\ p + n = start + g
    BY <1>4
  <2>2. Stream[n] = message[p + n]
    BY <1>7, <2>1
  <2> QED
    BY <2>1, <2>2
<1>13. start + g <= Len(message)
  BY <1>2, <1>4, <1>6
<1>14. client' = IF g = Length(client)
                 THEN After([client EXCEPT !.got = g, !.seen = seen], message[start + g].value)
                 ELSE [client EXCEPT !.got = g, !.seen = seen]
  BY <1>2, <1>4, <1>11, <1>12
<1>15. ReadUpTo(field, message, start, g, seen)
  BY <1>4, <1>8, <1>10, <1>13, <1>14 DEF ReadUpTo
<1> QED
  BY <1>2, <1>4, <1>15

(* Every field but the types only moves the client on. *)
LEMMA PlainFieldIsRead ==
    ASSUME NEW field \in Fields \ {"types"}, NEW message \in Seq(Unit), NEW start \in Nat,
           Streams, Read, client \in Clients, Length(client) \in Nat,
           IsReading(field, message, start)
    PROVE  /\ Streams'
           /\ \E g \in Nat :
                \/ client' = [client EXCEPT !.got = g] /\ IsReading(field, message, start)'
                \/ /\ client' = After([client EXCEPT !.got = g], message[start + g].value)
                   /\ HasRead(message, start + g)'
                   /\ g = Length(client) /\ start + g <= Len(message)
<1>1. Streams' /\ \E g, seen : g \in Nat /\ ReadUpTo(field, message, start, g, seen)
  BY FieldIsRead
<1>2. PICK g \in Nat : \E seen : ReadUpTo(field, message, start, g, seen)
  BY <1>1
<1>3. PICK seen : ReadUpTo(field, message, start, g, seen)
  BY <1>2
<1>4. [client EXCEPT !.got = g, !.seen = seen] = [client EXCEPT !.got = g]
  BY <1>3 DEF Clients, ReadUpTo
<1>5. /\ HasRead(message, start + g)' /\ start + g <= Len(message) /\ g <= Length(client)
      /\ client' = IF g = Length(client)
                   THEN After([client EXCEPT !.got = g], message[start + g].value)
                   ELSE [client EXCEPT !.got = g]
  BY <1>3, <1>4 DEF ReadUpTo
<1>6. CASE g = Length(client)
  <2>1. client' = After([client EXCEPT !.got = g], message[start + g].value)
    BY <1>5, <1>6
  <2> QED
    BY <1>1, <1>5, <1>6, <2>1
<1>7. CASE g # Length(client)
  <2>1. client' = [client EXCEPT !.got = g]
    BY <1>5, <1>7
  <2>2. client'.at = field /\ client'.at = client.at /\ client'.number = client.number /\ client'.got = g
    BY <2>1 DEF Clients, IsReading
  <2>3. Length(client') = Length(client)
    BY <2>2 DEF Length
  <2>4. g < Length(client')
    BY <1>5, <1>7, <2>3
  <2>5. IsReading(field, message, start)'
    BY <1>5, <2>2, <2>4 DEF IsReading
  <2> QED
    BY <1>1, <2>1, <2>5
<1> QED
  BY <1>6, <1>7

(* What the client does with each field's value. *)
LEMMA AfterIs ==
    ASSUME NEW c, NEW value
    PROVE  /\ c.at = "version" => After(c, value) = Goes([c EXCEPT !.version = Agreed(value)], "sendVersion")
           /\ c.at = "count" => After(c, value) =
                IF value > 0 THEN Goes([c EXCEPT !.number = value], "types")
                ELSE Goes([c EXCEPT !.error = "noTypes"], "reasonLength")
           /\ c.at = "types" => After(c, value) = AfterTypes(c)
           /\ c.at = "reasonLength" => After(c, value) =
                IF value > 0 THEN Goes([c EXCEPT !.number = value], "reason") ELSE Fails(c, "closed")
           /\ c.at = "reason" => After(c, value) = Fails(c, "closed")
           /\ c.at = "keySize" => After(c, value) = AfterChallenge([c EXCEPT !.number = value])
           /\ c.at \in ChallengeFields \ {"keySize"} => After(c, value) = AfterChallenge(c)
           /\ c.at = "result" => After(c, value) = AfterResult(c, value)
           /\ c.at = "size" => After(c, value) = Goes(c, "nameLength")
           /\ c.at = "nameLength" => After(c, value) =
                IF value > 0 THEN Goes([c EXCEPT !.number = value], "name") ELSE Goes(c, "sendFormat")
           /\ c.at = "name" => After(c, value) = Goes(c, "sendFormat")
BY DEF After, ChallengeFields

(* The fields of a challenge, one after the other. *)
LEMMA NextField ==
    ASSUME NEW c, NEW fields, fields = Challenge(c.type), NEW n \in DOMAIN fields,
           fields[n] = c.at, \A m \in DOMAIN fields : fields[m] = c.at => m = n
    PROVE  AfterChallenge(c) = IF n = Len(fields) THEN Goes(c, "credential") ELSE Goes(c, fields[n + 1])
<1>1. (CHOOSE m \in DOMAIN fields : fields[m] = c.at) = n
  OBVIOUS
<1> QED
  BY <1>1 DEF AfterChallenge

LEMMA AfterChallengeIs ==
    ASSUME NEW c
    PROVE  /\ c.type = "vnc" =>
                /\ c.at = "challenge" => AfterChallenge(c) = Goes(c, "credential")
           /\ c.type = "diffieHellman" =>
                /\ c.at = "generator" => AfterChallenge(c) = Goes(c, "keySize")
                /\ c.at = "keySize" => AfterChallenge(c) = Goes(c, "prime")
                /\ c.at = "prime" => AfterChallenge(c) = Goes(c, "peerKey")
                /\ c.at = "peerKey" => AfterChallenge(c) = Goes(c, "credential")
           /\ c.type = "ultraVNCMSLogonII" =>
                /\ c.at = "gen" => AfterChallenge(c) = Goes(c, "modulus")
                /\ c.at = "modulus" => AfterChallenge(c) = Goes(c, "resp")
                /\ c.at = "resp" => AfterChallenge(c) = Goes(c, "credential")
<1>1. CASE c.type = "vnc"
  <2>1. PICK fields : fields = Challenge(c.type)
    OBVIOUS
  <2>2. DOMAIN fields = 1..1 /\ Len(fields) = 1 /\ fields[1] = "challenge"
    BY <1>1, <2>1 DEF Challenge
  <2>3. \A m, n \in 1..1 : fields[m] = fields[n] => m = n
    BY <2>2
  <2>4. ASSUME NEW n \in 1..1, c.at = fields[n]
        PROVE  AfterChallenge(c) = IF n = 1 THEN Goes(c, "credential") ELSE Goes(c, fields[n + 1])
    <3>1. n \in DOMAIN fields /\ \A m \in DOMAIN fields : fields[m] = c.at => m = n
      BY <2>2, <2>3, <2>4
    <3>2. AfterChallenge(c) = IF n = Len(fields) THEN Goes(c, "credential") ELSE Goes(c, fields[n + 1])
      BY <2>1, <2>4, <3>1, NextField
    <3> QED
      BY <2>2, <3>2
  <2> QED
    BY <1>1, <2>2, <2>4
<1>2. CASE c.type = "diffieHellman"
  <2>1. PICK fields : fields = Challenge(c.type)
    OBVIOUS
  <2>2. /\ DOMAIN fields = 1..4 /\ Len(fields) = 4 /\ fields[1] = "generator"
        /\ fields[2] = "keySize" /\ fields[3] = "prime" /\ fields[4] = "peerKey"
    BY <1>2, <2>1 DEF Challenge
  <2>3. \A m, n \in 1..4 : fields[m] = fields[n] => m = n
    BY <2>2
  <2>4. ASSUME NEW n \in 1..4, c.at = fields[n]
        PROVE  AfterChallenge(c) = IF n = 4 THEN Goes(c, "credential") ELSE Goes(c, fields[n + 1])
    <3>1. n \in DOMAIN fields /\ \A m \in DOMAIN fields : fields[m] = c.at => m = n
      BY <2>2, <2>3, <2>4
    <3>2. AfterChallenge(c) = IF n = Len(fields) THEN Goes(c, "credential") ELSE Goes(c, fields[n + 1])
      BY <2>1, <2>4, <3>1, NextField
    <3> QED
      BY <2>2, <3>2
  <2> QED
    BY <1>2, <2>2, <2>4
<1>3. CASE c.type = "ultraVNCMSLogonII"
  <2>1. PICK fields : fields = Challenge(c.type)
    OBVIOUS
  <2>2. /\ DOMAIN fields = 1..3 /\ Len(fields) = 3
        /\ fields[1] = "gen" /\ fields[2] = "modulus" /\ fields[3] = "resp"
    BY <1>3, <2>1 DEF Challenge
  <2>3. \A m, n \in 1..3 : fields[m] = fields[n] => m = n
    BY <2>2
  <2>4. ASSUME NEW n \in 1..3, c.at = fields[n]
        PROVE  AfterChallenge(c) = IF n = 3 THEN Goes(c, "credential") ELSE Goes(c, fields[n + 1])
    <3>1. n \in DOMAIN fields /\ \A m \in DOMAIN fields : fields[m] = c.at => m = n
      BY <2>2, <2>3, <2>4
    <3>2. AfterChallenge(c) = IF n = Len(fields) THEN Goes(c, "credential") ELSE Goes(c, fields[n + 1])
      BY <2>1, <2>4, <3>1, NextField
    <3> QED
      BY <2>2, <3>2
  <2> QED
    BY <1>3, <2>2, <2>4
<1> QED
  BY <1>1, <1>2, <1>3

-----------------------------------------------------------------------------
(***************************************************************************)
(* The network delivers, and the server gives up.                          *)
(***************************************************************************)
LEMMA ConstantsAre ==
    /\ Lengths \subseteq Nat
    /\ server \in Servers =>
        /\ server.offer \in SUBSET (Types \ {"tight"}) /\ server.offer \in SUBSET Types
        /\ server.version \in [major : Nat, minor : Nat] /\ server.version \in Values
BY HandshakeAssumption DEF Servers, Values

(* The parts speak of the stream, not of what of it has arrived. *)
LEMMA NothingMoves ==
    ASSUME IInv, Streams', Stream' = Stream, UNCHANGED <<backend, client, server, toServer>>
    PROVE  IInv'
<1>1. Stream' = Stream
  OBVIOUS
<1>2. UNCHANGED <<backend, client, server, toServer>>
  OBVIOUS
<1>3. \A message, p : HasRead(message, p) => HasRead(message, p)'
  BY <1>1, <1>2 DEF HasRead
<1>4. /\ \A field, message, start : IsReading(field, message, start) => IsReading(field, message, start)'
      /\ \A place, message : IsAt(place, message) => IsAt(place, message)'
  BY <1>2, <1>3 DEF IsReading, IsAt
<1>5. Together => Together'
  <2>1. Greeting => Greeting'
    BY <1>1, <1>2 DEF Greeting
  <2>2. Version => Version'
    BY <1>2, <1>4 DEF Version, VersionMessage
  <2>3. SecurityType => SecurityType'
    BY <1>2, <1>4 DEF SecurityType, AfterTypeIsSent, TypeMessage, Agreement
  <2>4. Response => Response'
    BY <1>2, <1>4 DEF Response, ReadsChallenge, Agreement, SameType
  <2>5. Initialisation => Initialisation'
    BY <1>2, <1>4 DEF Initialisation, Agreement, SameType, Accepted
  <2>6. \A length \in Lengths : Session(length) => Session(length)'
    BY <1>2, <1>4 DEF Session, Agreement, SameType, Accepted
  <2> QED
    BY <1>2, <2>1, <2>2, <2>3, <2>4, <2>5, <2>6 DEF Together, Was
<1>6. \A length \in Lengths : (NoTypes(length) => NoTypes(length)') /\ (Refused(length) => Refused(length)')
  BY <1>2, <1>4 DEF NoTypes, Refused, Agreement
<1>7. Failed => Failed'
  BY <1>2 DEF Failed, FailsForAReason, SessionFollows
<1> QED
  BY <1>1, <1>2, <1>5, <1>6, <1>7 DEF IInv, Place

LEMMA DeliverKeeps ==
    ASSUME IInv, Deliver
    PROVE  IInv'
<1>1. Streams' /\ Stream' = Stream
  BY DeliverMoves DEF IInv
<1> QED
  BY <1>1, NothingMoves DEF Deliver

(* What may be lost is at the end of the message. *)
LEMMA GiveUpKeepsReading ==
    ASSUME IInv, GiveUp
    PROVE  /\ \A field : \A message \in Seq(Unit), start \in Nat :
                IsReading(field, message, start) => IsReading(field, message, start)'
           /\ \A place : \A message \in Seq(Unit) :
                IsAt(place, message) => IsAt(place, message)'
<1>1. client' = client /\ client.got \in Nat
  BY DEF GiveUp, IInv, Clients
<1>2. \A message \in Seq(Unit), p \in Nat : HasRead(message, p) => HasRead(message, p)'
  BY HasReadCut DEF IInv
<1>3. \A start \in Nat : start + client.got \in Nat
  BY <1>1
<1>4. \A message \in Seq(Unit) : Len(message) \in Nat
  OBVIOUS
<1> QED
  BY <1>1, <1>2, <1>3, <1>4 DEF IsReading, IsAt

(* The messages of the server are sequences of units. *)
LEMMA MessagesAre ==
    ASSUME IInv
    PROVE  /\ Units("version", server.version, 2) \in Seq(Unit)
           /\ Offering(server.offer) \in Seq(Unit)
           /\ Challenge(client.type) # <<>> /\ SameType => Challenging(client.type, 2) \in Seq(Unit)
           /\ Units("result", TRUE, 2) \in Seq(Unit) /\ <<>> \in Seq(Unit)
           /\ \A length \in Lengths : /\ ServerInit(length) \in Seq(Unit)
                                      /\ NothingOffered(length) \in Seq(Unit)
           /\ \A length \in Lengths, version \in {V37, V38} : Refusal(version, length) \in Seq(Unit)
<1>1. Units("version", server.version, 2) \in Seq(Unit)
  <2>1. PICK m : m = Units("version", server.version, 2)
    OBVIOUS
  <2>2. "version" \in Fields /\ server.version \in Values
    BY ConstantsAre DEF Fields, IInv
  <2>3. AreUnits(m, "version", server.version, 2)
    BY <2>1, <2>2, UnitsAre
  <2> QED
    BY <2>1, <2>3 DEF AreUnits
<1>2. Offering(server.offer) \in Seq(Unit)
  <2>1. IsOffering(Offering(server.offer), server.offer)
    BY OfferingIs, ConstantsAre DEF IInv
  <2> QED
    BY <2>1 DEF IsOffering
<1>3. Challenge(client.type) # <<>> /\ SameType => Challenging(client.type, 2) \in Seq(Unit)
  BY ChallengeOfVNC, ChallengeOfARD, ChallengeOfUltraVNC DEF Challenge, FieldsLieIn
<1>4. Units("result", TRUE, 2) \in Seq(Unit)
  <2>1. PICK verdict, m : verdict \in BOOLEAN /\ verdict = TRUE /\ m = Units("result", verdict, 2)
    OBVIOUS
  <2>2. m \in Seq(Unit)
    BY <2>1, VerdictIs
  <2> QED
    BY <2>1, <2>2
<1>5. <<>> \in Seq(Unit)
  BY EmptySeq
<1>6. \A length \in Lengths : ServerInit(length) \in Seq(Unit) /\ NothingOffered(length) \in Seq(Unit)
  BY ServerInitIs, NothingOfferedIs, ConstantsAre DEF IsNothingOffered
<1>7. \A length \in Lengths, version \in {V37, V38} : Refusal(version, length) \in Seq(Unit)
  BY RefusalIs, ConstantsAre DEF IsRefusal
<1> QED
  BY <1>1, <1>2, <1>3, <1>4, <1>5, <1>6, <1>7

LEMMA GiveUpKeeps ==
    ASSUME IInv, TypesAreOffered, GiveUp
    PROVE  IInv'
<1>2. /\ client' = client /\ toServer' = toServer /\ backend' = backend
      /\ server' = [server EXCEPT !.at = "closed", !.gaveUp = TRUE] /\ server.at # "closed"
  BY DEF GiveUp
<1>3. /\ server' \in Servers /\ server'.at = "closed" /\ server'.gaveUp
      /\ server'.version = server.version /\ server'.offer = server.offer
      /\ server'.agreed = server.agreed /\ server'.type = server.type
      /\ server'.accepts = server.accepts
  BY <1>2 DEF IInv, Servers
<1>4. /\ \A field : \A message \in Seq(Unit), start \in Nat :
            IsReading(field, message, start) => IsReading(field, message, start)'
      /\ \A place : \A message \in Seq(Unit) :
            IsAt(place, message) => IsAt(place, message)'
  BY GiveUpKeepsReading
<1>5. CASE client.error = "none" /\ Together
  <2>1. Was("greets") /\ Greeting => Greeting'
    <3>1. Stream = <<>> => Stream' = <<>>
      <4>1. Cut(Stream', Stream)
        BY GiveUpCuts DEF IInv
      <4> QED
        BY <4>1, EmptySeq DEF Cut
    <3> QED
      BY <1>2, <3>1 DEF Greeting
  <2>2. Version => Version'
    <3>1. PICK m \in Seq(Unit) : m = Units("version", server.version, 2)
      BY MessagesAre
    <3>2. m = Units("version", server.version, 2)'
      BY <1>3, <3>1
    <3>3. /\ IsReading("version", m, 0) => IsReading("version", m, 0)'
          /\ IsAt("sendVersion", m) => IsAt("sendVersion", m)'
          /\ IsAt("count", m) => IsAt("count", m)'
      BY <1>4
    <3> QED
      BY <1>2, <1>3, <3>1, <3>2, <3>3 DEF Version, VersionMessage
  <2>3. SecurityType => SecurityType'
    <3>1. PICK m \in Seq(Unit) : m = Offering(server.offer)
      BY MessagesAre
    <3>2. m = Offering(server.offer)'
      BY <1>3, <3>1
    <3>3. /\ IsReading("count", m, 0) => IsReading("count", m, 0)'
          /\ IsReading("types", m, 1) => IsReading("types", m, 1)'
          /\ \A place : IsAt(place, m) => IsAt(place, m)'
      BY <1>4
    <3>4. AfterTypeIsSent' = AfterTypeIsSent /\ TypeMessage' = TypeMessage /\ Agreement' = Agreement
      BY <1>2, <1>3 DEF AfterTypeIsSent, TypeMessage, Agreement
    <3> QED
      BY <1>2, <1>3, <3>1, <3>2, <3>3, <3>4 DEF SecurityType
  <2>4. Response => Response'
    <3>1. ASSUME Response
          PROVE  /\ Challenging(client.type, 2) \in Seq(Unit)
                 /\ ReadsChallenge => Start(client.at) \in Nat
      <4>1. SameType /\ client.type # "none"
        BY <3>1 DEF Response
      <4>2. client.type \in {"vnc", "diffieHellman", "ultraVNCMSLogonII"}
        BY <4>1 DEF SameType, Types
      <4>3. Challenge(client.type) # <<>>
        BY <4>2 DEF Challenge
      <4>4. ReadsChallenge => client.at \in ChallengeFields
        BY <4>2, ChallengeFieldsAre DEF ReadsChallenge, ChallengeFields
      <4>5. \A field \in ChallengeFields : Start(field) \in Nat
        BY DEF ChallengeFields, Start
      <4> QED
        BY <4>1, <4>3, <4>4, <4>5, MessagesAre
    <3>2. ASSUME Response PROVE Response'
      <4>1. PICK m \in Seq(Unit) : m = Challenging(client.type, 2) /\ m = Challenging(client.type, 2)'
        BY <1>2, <3>1, <3>2
      <4>2. /\ ReadsChallenge /\ IsReading(client.at, m, Start(client.at)) =>
                    IsReading(client.at, m, Start(client.at))'
            /\ \A place : IsAt(place, m) => IsAt(place, m)'
        <5>1. PICK field, start : field = client.at /\ start = Start(client.at)
          OBVIOUS
        <5>2. ReadsChallenge /\ IsReading(field, m, start) => IsReading(field, m, start)'
          BY <1>4, <3>1, <3>2, <5>1
        <5> QED
          BY <1>2, <1>4, <5>1, <5>2
      <4>3. ReadsChallenge' = ReadsChallenge /\ (Agreement /\ SameType => (Agreement /\ SameType)')
        BY <1>2, <1>3 DEF ReadsChallenge, Agreement, SameType
      <4> QED
        BY <1>2, <3>2, <4>1, <4>2, <4>3 DEF Response
    <3> QED
      BY <3>2
  <2>5. Initialisation => Initialisation'
    <3>1. PICK m \in Seq(Unit) :
            m = IF ResultExpected(client.type, client.version) THEN Units("result", TRUE, 2) ELSE <<>>
      BY MessagesAre
    <3>2. /\ IsReading("result", m, 0) => IsReading("result", m, 0)'
          /\ \A place : IsAt(place, m) => IsAt(place, m)'
      BY <1>4
    <3>3. Agreement /\ SameType /\ Accepted => (Agreement /\ SameType /\ Accepted)'
      BY <1>2, <1>3 DEF Agreement, SameType, Accepted
    <3> QED
      BY <1>2, <3>1, <3>2, <3>3 DEF Initialisation
  <2>6. \A length \in Lengths : Session(length) => Session(length)'
    <3> TAKE length \in Lengths
    <3>1. PICK m \in Seq(Unit) : m = ServerInit(length)
      BY MessagesAre
    <3>2. /\ IsReading("size", m, 0) => IsReading("size", m, 0)'
          /\ IsReading("nameLength", m, 2) => IsReading("nameLength", m, 2)'
          /\ IsReading("name", m, 4) => IsReading("name", m, 4)'
          /\ \A place : IsAt(place, m) => IsAt(place, m)'
      BY <1>4
    <3>3. Agreement /\ SameType /\ Accepted => (Agreement /\ SameType /\ Accepted)'
      BY <1>2, <1>3 DEF Agreement, SameType, Accepted
    <3> QED
      BY <1>2, <3>1, <3>2, <3>3 DEF Session
  <2>7. Together'
    BY <1>3, <1>5, <2>1, <2>2, <2>3, <2>4, <2>5, <2>6 DEF Together, Was
  <2> QED
    BY <1>2, <1>3, <1>5, <2>7, GiveUpCuts DEF IInv, Place
<1>6. CASE Failed
  <2>1. Failed'
    BY <1>2, <1>3, <1>6 DEF Failed, FailsForAReason
  <2> QED
    BY <1>2, <1>3, <2>1, GiveUpCuts DEF IInv, Place
<1> QED
  BY <1>2, <1>5, <1>6 DEF IInv, Place

-----------------------------------------------------------------------------
(***************************************************************************)
(* Which field the client reads, and where it lies in the message.         *)
(***************************************************************************)
Reads(message, start) ==
    /\ message \in Seq(Unit) /\ start \in Nat /\ Length(client) \in Nat
    /\ IsReading(client.at, message, start)
    /\ start + Length(client) <= Len(message)
    /\ \A i \in start + 1..start + Length(client) : message[i].of = client.at

(* How many units the client asks for. *)
LEMMA LengthIs ==
    ASSUME NEW c
    PROVE  /\ c.at = "count" => Length(c) = 1
           /\ c.at \in {"types", "reason", "name", "prime", "peerKey"} => Length(c) = c.number
           /\ c.at \in {"version", "reasonLength", "result", "size", "nameLength", "challenge",
                        "generator", "keySize", "gen", "modulus", "resp"} => Length(c) = 2
BY DEF Length

(* Each field the client reads lies where it was written: its units come from start on,
   as many as the client asks for.                                                     *)
LEMMA ReadsVersion ==
    ASSUME IInv, NEW m, m = Units("version", server.version, 2), IsReading("version", m, 0)
    PROVE  Reads(m, 0) /\ Length(client) = 2 /\ Len(m) = 2 /\ m[2].value = server.version
<1>1. client.at = "version" /\ Length(client) = 2
  BY LengthIs DEF IsReading
<1>2. "version" \in Fields /\ server.version \in Values
  BY ConstantsAre DEF Fields, IInv
<1>3. AreUnits(m, "version", server.version, 2)
  BY <1>2, UnitsAre
<1> QED
  BY <1>1, <1>3 DEF AreUnits, Reads

LEMMA OffersAre ==
    ASSUME IInv
    PROVE  IsOffering(Offering(server.offer), server.offer) /\ Cardinality(server.offer) \in Nat
<1>1. IsOffering(Offering(server.offer), server.offer)
  BY OfferingIs, ConstantsAre DEF IInv
<1> QED
  BY <1>1 DEF IsOffering

LEMMA ReadsCount ==
    ASSUME IInv, NEW m, m = Offering(server.offer), IsReading("count", m, 0)
    PROVE  Reads(m, 0) /\ Length(client) = 1 /\ m[1].value = Cardinality(server.offer)
<1>1. client.at = "count" /\ Length(client) = 1
  BY LengthIs DEF IsReading
<1>2. IsOffering(m, server.offer)
  BY OffersAre
<1>3. /\ m \in Seq(Unit) /\ 1 <= Len(m) /\ m[1].of = "count"
      /\ m[1].value = Cardinality(server.offer)
  BY <1>2 DEF IsOffering
<1> QED
  BY <1>1, <1>3 DEF Reads

LEMMA ReadsTypes ==
    ASSUME IInv, NEW m, m = Offering(server.offer), IsReading("types", m, 1),
           client.number = Cardinality(server.offer)
    PROVE  Reads(m, 1) /\ Length(client) = Cardinality(server.offer)
<1>1. client.at = "types" /\ Length(client) = client.number
  BY LengthIs DEF IsReading
<1>2. IsOffering(m, server.offer)
  BY OffersAre
<1>3. PICK n \in Nat : n = Cardinality(server.offer)
  BY OffersAre
<1>4. m \in Seq(Unit) /\ Len(m) = 1 + n /\ \A i \in 1..n : m[1 + i].of = "types"
  BY <1>2, <1>3 DEF IsOffering
<1>5. ASSUME NEW i \in 2..1 + n PROVE m[i].of = "types"
  <2>1. i - 1 \in 1..n /\ 1 + (i - 1) = i
    OBVIOUS
  <2> QED
    BY <1>4, <2>1
<1> QED
  BY <1>1, <1>3, <1>4, <1>5 DEF Reads

LEMMA ChallengesAre ==
    ASSUME SameType, client.type # "none"
    PROVE  /\ client.type \in {"vnc", "diffieHellman", "ultraVNCMSLogonII"}
           /\ FieldsLieIn(Challenging(client.type, 2), client.type)
           /\ Challenge(client.type) # <<>>
           /\ \A field \in ToSet(Challenge(client.type)) :
                field \in {"challenge", "peerKey", "resp"} =>
                    Start(field) + 2 = Len(Challenging(client.type, 2))
<1>1. client.type \in {"vnc", "diffieHellman", "ultraVNCMSLogonII"}
  BY DEF SameType, Types
<1>2. Challenge(client.type) # <<>>
  BY <1>1 DEF Challenge
<1>3. FieldsLieIn(Challenging(client.type, 2), client.type)
  BY <1>1, ChallengeOfVNC, ChallengeOfARD, ChallengeOfUltraVNC
<1>4. /\ client.type = "vnc" => Len(Challenging(client.type, 2)) = 2
      /\ client.type = "diffieHellman" => Len(Challenging(client.type, 2)) = 8
      /\ client.type = "ultraVNCMSLogonII" => Len(Challenging(client.type, 2)) = 6
  BY <1>1, ChallengeOfVNC, ChallengeOfARD, ChallengeOfUltraVNC
<1>5. PICK length : length = Len(Challenging(client.type, 2))
  OBVIOUS
<1>6. ASSUME NEW field \in ToSet(Challenge(client.type)), field \in {"challenge", "peerKey", "resp"}
      PROVE  Start(field) + 2 = length
  <2>1. CASE client.type = "vnc" /\ field = "challenge"
    <3>1. Start(field) = 0
      BY <2>1 DEF Start
    <3>2. length = 2
      BY <1>4, <1>5, <2>1
    <3> QED
      BY <3>1, <3>2
  <2>2. CASE client.type = "diffieHellman" /\ field = "peerKey"
    <3>1. Start(field) = 6
      BY <2>2 DEF Start
    <3>2. length = 8
      BY <1>4, <1>5, <2>2
    <3> QED
      BY <3>1, <3>2
  <2>3. CASE client.type = "ultraVNCMSLogonII" /\ field = "resp"
    <3>1. Start(field) = 4
      BY <2>3 DEF Start
    <3>2. length = 6
      BY <1>4, <1>5, <2>3
    <3> QED
      BY <3>1, <3>2
  <2> QED
    BY <1>1, <1>6, <2>1, <2>2, <2>3, ChallengeFieldsAre
<1> QED
  BY <1>1, <1>2, <1>3, <1>5, <1>6

LEMMA ReadsChallengeField ==
    ASSUME IInv, SameType, client.type # "none", ReadsChallenge,
           NEW m, m = Challenging(client.type, 2), IsReading(client.at, m, Start(client.at))
    PROVE  /\ Reads(m, Start(client.at)) /\ Length(client) = 2
           /\ client.at = "keySize" => m[Start(client.at) + 2].value = 2
<1>1. FieldsLieIn(m, client.type) /\ client.at \in ToSet(Challenge(client.type))
  BY ChallengesAre DEF ReadsChallenge
<1>2. client.at \in ChallengeFields
  BY <1>1, ChallengesAre, ChallengeFieldsAre DEF ChallengeFields
<1>3. Length(client) = 2
  BY <1>2, LengthIs DEF ReadsChallenge, ChallengeFields
<1>4. PICK start : start = Start(client.at)
  OBVIOUS
<1>5. /\ m \in Seq(Unit) /\ start \in Nat /\ start + 2 <= Len(m)
      /\ \A i \in start + 1..start + 2 : m[i].of = client.at
      /\ client.at = "keySize" => m[start + 2].value = 2
  BY <1>1, <1>4 DEF FieldsLieIn
<1> QED
  BY <1>3, <1>4, <1>5 DEF Reads

LEMMA ReadsResult ==
    ASSUME NEW verdict \in BOOLEAN, NEW m, m = Units("result", verdict, 2), IsReading("result", m, 0)
    PROVE  Reads(m, 0) /\ Length(client) = 2 /\ Len(m) = 2 /\ m[2].value = verdict
<1>1. client.at = "result" /\ Length(client) = 2
  BY LengthIs DEF IsReading
<1>2. /\ m \in Seq(Unit) /\ Len(m) = 2
      /\ \A i \in 1..2 : m[i].of = "result" /\ m[i].value = verdict
  BY VerdictIs
<1> QED
  BY <1>1, <1>2 DEF Reads

LEMMA ReadsServerInit ==
    ASSUME NEW length \in Lengths, NEW m, m = ServerInit(length)
    PROVE  /\ Len(m) = 4 + length /\ length \in Nat
           /\ IsReading("size", m, 0) => Reads(m, 0) /\ Length(client) = 2
           /\ IsReading("nameLength", m, 2) =>
                Reads(m, 2) /\ Length(client) = 2 /\ m[4].value = length
           /\ IsReading("name", m, 4) /\ client.number = length =>
                Reads(m, 4) /\ Length(client) = length
<1>1. length \in Nat
  BY ConstantsAre
<1>2. /\ m \in Seq(Unit) /\ Len(m) = 4 + length
      /\ \A i \in 1..2 : m[i].of = "size"
      /\ \A i \in 3..4 : m[i].of = "nameLength" /\ m[i].value = length
      /\ \A i \in 5..4 + length : m[i].of = "name"
  BY <1>1, ServerInitIs
<1>3. ASSUME IsReading("size", m, 0) PROVE Reads(m, 0) /\ Length(client) = 2
  <2>1. client.at = "size" /\ Length(client) = 2
    BY <1>3, LengthIs DEF IsReading
  <2> QED
    BY <1>1, <1>2, <1>3, <2>1 DEF Reads
<1>4. ASSUME IsReading("nameLength", m, 2)
      PROVE  Reads(m, 2) /\ Length(client) = 2 /\ m[4].value = length
  <2>1. client.at = "nameLength" /\ Length(client) = 2
    BY <1>4, LengthIs DEF IsReading
  <2> QED
    BY <1>1, <1>2, <1>4, <2>1 DEF Reads
<1>5. ASSUME IsReading("name", m, 4), client.number = length
      PROVE  Reads(m, 4) /\ Length(client) = length
  <2>1. client.at = "name" /\ Length(client) = length
    BY <1>5, LengthIs DEF IsReading
  <2> QED
    BY <1>1, <1>2, <1>5, <2>1 DEF Reads
<1> QED
  BY <1>1, <1>2, <1>3, <1>4, <1>5

LEMMA ReadsNothingOffered ==
    ASSUME NEW length \in Lengths, NEW m, m = NothingOffered(length)
    PROVE  /\ Len(m) = 3 + length /\ length \in Nat
           /\ IsReading("count", m, 0) => Reads(m, 0) /\ Length(client) = 1 /\ m[1].value = 0
           /\ IsReading("reasonLength", m, 1) =>
                Reads(m, 1) /\ Length(client) = 2 /\ m[3].value = length
           /\ IsReading("reason", m, 3) /\ client.number = length =>
                Reads(m, 3) /\ Length(client) = length
<1>1. length \in Nat
  BY ConstantsAre
<1>2. /\ m \in Seq(Unit) /\ Len(m) = 3 + length
      /\ m[1].of = "count" /\ m[1].value = 0
      /\ \A i \in 2..3 : m[i].of = "reasonLength" /\ m[i].value = length
      /\ \A i \in 4..3 + length : m[i].of = "reason"
  <2>1. IsNothingOffered(m, length)
    BY <1>1, NothingOfferedIs
  <2> QED
    BY <2>1 DEF IsNothingOffered
<1>3. ASSUME IsReading("count", m, 0) PROVE Reads(m, 0) /\ Length(client) = 1
  <2>1. client.at = "count" /\ Length(client) = 1
    BY <1>3, LengthIs DEF IsReading
  <2> QED
    BY <1>1, <1>2, <1>3, <2>1 DEF Reads
<1>4. ASSUME IsReading("reasonLength", m, 1)
      PROVE  Reads(m, 1) /\ Length(client) = 2 /\ m[3].value = length
  <2>1. client.at = "reasonLength" /\ Length(client) = 2
    BY <1>4, LengthIs DEF IsReading
  <2> QED
    BY <1>1, <1>2, <1>4, <2>1 DEF Reads
<1>5. ASSUME IsReading("reason", m, 3), client.number = length
      PROVE  Reads(m, 3) /\ Length(client) = length
  <2>1. client.at = "reason" /\ Length(client) = length
    BY <1>5, LengthIs DEF IsReading
  <2> QED
    BY <1>1, <1>2, <1>5, <2>1 DEF Reads
<1> QED
  BY <1>1, <1>2, <1>3, <1>4, <1>5

LEMMA ReadsRefusal ==
    ASSUME NEW length \in Lengths, NEW version \in {V37, V38}, NEW m, m = Refusal(version, length)
    PROVE  /\ Len(m) >= 2 /\ length \in Nat
           /\ version = V38 => Len(m) = 4 + length
           /\ IsReading("result", m, 0) => Reads(m, 0) /\ Length(client) = 2 /\ m[2].value = FALSE
           /\ version = V38 /\ IsReading("reasonLength", m, 2) =>
                Reads(m, 2) /\ Length(client) = 2 /\ m[4].value = length
           /\ version = V38 /\ IsReading("reason", m, 4) /\ client.number = length =>
                Reads(m, 4) /\ Length(client) = length
<1>1. length \in Nat
  BY ConstantsAre
<1>2. /\ m \in Seq(Unit) /\ Len(m) >= 2
      /\ \A i \in 1..2 : m[i].of = "result" /\ m[i].value = FALSE
      /\ version = V38 =>
           /\ Len(m) = 4 + length
           /\ \A i \in 3..4 : m[i].of = "reasonLength" /\ m[i].value = length
           /\ \A i \in 5..4 + length : m[i].of = "reason"
  <2>1. IsRefusal(m, version, length)
    BY <1>1, RefusalIs
  <2> QED
    BY <1>1, <2>1 DEF IsRefusal
<1>3. ASSUME IsReading("result", m, 0) PROVE Reads(m, 0) /\ Length(client) = 2
  <2>1. client.at = "result" /\ Length(client) = 2
    BY <1>3, LengthIs DEF IsReading
  <2> QED
    BY <1>1, <1>2, <1>3, <2>1 DEF Reads
<1>4. ASSUME version = V38, IsReading("reasonLength", m, 2)
      PROVE  Reads(m, 2) /\ Length(client) = 2 /\ m[4].value = length
  <2>1. client.at = "reasonLength" /\ Length(client) = 2
    BY <1>4, LengthIs DEF IsReading
  <2> QED
    BY <1>1, <1>2, <1>4, <2>1 DEF Reads
<1>5. ASSUME version = V38, IsReading("reason", m, 4), client.number = length
      PROVE  Reads(m, 4) /\ Length(client) = length
  <2>1. client.at = "reason" /\ Length(client) = length
    BY <1>5, LengthIs DEF IsReading
  <2> QED
    BY <1>1, <1>2, <1>5, <2>1 DEF Reads
<1> QED
  BY <1>1, <1>2, <1>3, <1>4, <1>5

(* A client that has read the message finds the stream empty. *)
LEMMA NothingLeft ==
    ASSUME Streams, NEW message \in Seq(Unit), NEW place, IsAt(place, message)
    PROVE  Len(Stream) = 0 /\ client.at = place /\ client.got = 0
<1>1. Stream \in Seq(Unit)
  BY StreamIs
<1>2. Len(Stream) <= Len(message) - Len(message)
  BY DEF IsAt, HasRead, Left
<1>3. Len(Stream) \in Nat /\ Len(message) \in Nat
  BY <1>1
<1> QED
  BY <1>2, <1>3 DEF IsAt

(* Whatever is in the stream, the client is in the middle of reading it. *)
LEMMA ReadsAField ==
    ASSUME IInv, TypesAreOffered
    PROVE  \/ Len(Stream) = 0 /\ (server.at = "closed" => server.gaveUp)
           \/ /\ server.at # "closed" => toServer = <<>>
              /\ \E message, start : Reads(message, start)
           \/ client.at = "failed"
<1>1. CASE client.error = "none" /\ Together
  <2>0. server.at = "closed" => server.gaveUp
    BY <1>1 DEF Together, Was
  <2>1. ASSUME Greeting PROVE Len(Stream) = 0
    BY <2>1, EmptySeq DEF Greeting
  <2>2. ASSUME Version
        PROVE  Len(Stream) = 0 \/ (toServer = <<>> /\ \E message, start : Reads(message, start))
    <3>1. PICK m \in Seq(Unit) : m = Units("version", server.version, 2)
      BY MessagesAre
    <3> QED
      BY <2>2, <3>1, ReadsVersion, NothingLeft DEF Version, IInv
  <2>3. ASSUME SecurityType
        PROVE  Len(Stream) = 0 \/ (toServer = <<>> /\ \E message, start : Reads(message, start))
    <3>1. PICK m \in Seq(Unit) : m = Offering(server.offer)
      BY MessagesAre
    <3> QED
      BY <2>3, <3>1, ReadsCount, ReadsTypes, NothingLeft DEF SecurityType, IInv
  <2>4. ASSUME Response
        PROVE  Len(Stream) = 0 \/ (toServer = <<>> /\ \E message, start : Reads(message, start))
    <3>1. SameType /\ client.type # "none"
      BY <2>4 DEF Response
    <3>2. PICK m \in Seq(Unit) : m = Challenging(client.type, 2)
      BY <3>1, ChallengesAre DEF FieldsLieIn
    <3> QED
      BY <2>4, <3>1, <3>2, ReadsChallengeField, NothingLeft DEF Response, IInv
  <2>5. ASSUME Initialisation
        PROVE  Len(Stream) = 0 \/ (toServer = <<>> /\ \E message, start : Reads(message, start))
    <3>1. PICK m \in Seq(Unit) :
            m = IF ResultExpected(client.type, client.version) THEN Units("result", TRUE, 2) ELSE <<>>
      BY MessagesAre
    <3>2. CASE ResultExpected(client.type, client.version) /\ IsReading("result", m, 0) /\ toServer = <<>>
      <4>1. PICK verdict \in BOOLEAN : verdict = TRUE
        OBVIOUS
      <4>2. m = Units("result", verdict, 2)
        BY <3>1, <3>2, <4>1
      <4> QED
        BY <3>2, <4>2, ReadsResult
    <3> QED
      BY <2>5, <3>1, <3>2, NothingLeft DEF Initialisation, IInv
  <2>6. ASSUME NEW length \in Lengths, Session(length)
        PROVE  Len(Stream) = 0 \/ (toServer = <<>> /\ \E message, start : Reads(message, start))
    <3>1. PICK m \in Seq(Unit) : m = ServerInit(length)
      BY MessagesAre
    <3> QED
      BY <2>6, <3>1, ReadsServerInit, NothingLeft DEF Session, IInv
  <2> QED
    BY <1>1, <2>0, <2>1, <2>2, <2>3, <2>4, <2>5, <2>6 DEF Together
<1>2. ASSUME NEW length \in Lengths, NoTypes(length)
      PROVE  toServer = <<>> /\ \E message, start : Reads(message, start)
  <2>1. PICK m : m = NothingOffered(length)
    OBVIOUS
  <2> QED
    BY <1>2, <2>1, ReadsNothingOffered DEF NoTypes
<1>3. ASSUME NEW length \in Lengths, Refused(length)
      PROVE  toServer = <<>> /\ \E message, start : Reads(message, start)
  <2>1. PICK m : m = Refusal(client.version, length)
    OBVIOUS
  <2>2. client.version \in {V37, V38}
    BY <1>3 DEF Refused, Agreement, TypesAreOffered, IInv, Servers
  <2> QED
    BY <1>3, <2>1, <2>2, ReadsRefusal DEF Refused
<1> QED
  BY <1>1, <1>2, <1>3 DEF IInv, Place, Failed

(* An error is set before the handshake fails only by a server that refuses. *)
LEMMA ReasonSoFar ==
    ASSUME IInv
    PROVE  /\ client.error # "none" /\ client.at # "failed" =>
                \/ client.error = "noTypes" /\ server.offer = {}
                \/ client.error = "rejected" /\ ~server.accepts
           /\ server.at = "closed" /\ ~server.gaveUp /\ client.at # "failed" =>
                client.at \in {"count", "result", "reasonLength", "reason"}
<1>1. CASE client.error = "none" /\ Together
  BY <1>1 DEF Together, Was
<1>2. ASSUME NEW length \in Lengths, NoTypes(length)
      PROVE  /\ client.error = "none" \/ (client.error = "noTypes" /\ server.offer = {})
             /\ client.at \in {"count", "result", "reasonLength", "reason"}
  BY <1>2 DEF NoTypes, IsReading
<1>3. ASSUME NEW length \in Lengths, Refused(length)
      PROVE  /\ client.error = "none" \/ (client.error = "rejected" /\ ~server.accepts)
             /\ client.at \in {"count", "result", "reasonLength", "reason"}
  BY <1>3 DEF Refused, IsReading
<1> QED
  BY <1>1, <1>2, <1>3 DEF IInv, Place, Failed

(* A server that closes the connection after a refusal leaves something to read. *)
LEMMA ReadsOn ==
    ASSUME IInv, TypesAreOffered, server.at = "closed", ~server.gaveUp, client.at # "failed"
    PROVE  Len(Stream) > 0
<1>1. PICK message, start : Reads(message, start)
  BY ReadsAField
<1>2. /\ message \in Seq(Unit) /\ start \in Nat /\ Length(client) \in Nat /\ client.got \in Nat
      /\ client.got < Length(client) /\ start + Length(client) <= Len(message)
      /\ Len(Stream) = Len(message) - (start + client.got)
  BY <1>1 DEF Reads, IsReading, HasRead, IInv, Clients
<1> QED
  BY <1>2

(* The client writes, and asks for a credential, only while the server has not refused it. *)
LEMMA OnlyTogether ==
    ASSUME IInv, client.at \in Writes \cup {"credential", "connected"}
    PROVE  client.error = "none" /\ Together
<1>1. client.at \notin {"failed", "count", "reasonLength", "reason", "result"}
  BY DEF Writes
<1>2. ASSUME NEW length \in Lengths PROVE ~NoTypes(length) /\ ~Refused(length)
  BY <1>1 DEF NoTypes, Refused, IsReading
<1> QED
  BY <1>1, <1>2 DEF IInv, Place, Failed

(* Where each of these places is. *)
LEMMA PlaceOfWrite ==
    ASSUME IInv, client.at \in Writes \cup {"credential", "connected"}
    PROVE  /\ client.error = "none"
           /\ client.at = "sendVersion" => Was("version") /\ Version
           /\ client.at = "sendType" => Was("type") /\ SecurityType
           /\ client.at \in {"credential", "sendResponse"} => Was("response") /\ Response
           /\ client.at = "sendInit" => \/ Was("type") /\ SecurityType
                                        \/ Was("init") /\ Initialisation
           /\ client.at \in {"sendFormat", "sendEncodings", "connected"} =>
                Was("session") /\ \E length \in Lengths : Session(length)
<1>1. client.error = "none" /\ Together
  BY OnlyTogether
<1>2. ~Greeting
  BY DEF Greeting, Writes
<1>3. Version => client.at \in {"version", "sendVersion", "count"}
  BY DEF Version, IsReading, IsAt
<1>4. SecurityType => client.at \in {"count", "types", "sendType", "size", AfterTypeIsSent}
  BY DEF SecurityType, IsReading, IsAt
<1>5. AfterTypeIsSent \in {"challenge", "generator", "gen", "result", "sendInit"}
  BY DEF AfterTypeIsSent, Challenge
<1>6. Response => client.at \in ChallengeFields \cup {"credential", "sendResponse", "result"}
  <2>1. ASSUME Response, ReadsChallenge PROVE client.at \in ChallengeFields
    <3>1. client.type \in {"vnc", "diffieHellman", "ultraVNCMSLogonII"}
      BY <2>1, ChallengesAre DEF Response
    <3> QED
      BY <2>1, <3>1, ChallengeFieldsAre DEF ReadsChallenge, ChallengeFields
  <2> QED
    BY <2>1 DEF Response, IsAt
<1>7. Initialisation => client.at \in {"result", "sendInit", "size"}
  BY DEF Initialisation, IsReading, IsAt
<1>8. \A length \in Lengths : Session(length) =>
        client.at \in {"size", "nameLength", "name", "sendFormat", "sendEncodings", "connected"}
  BY DEF Session, IsReading, IsAt
<1>9. client.at \notin ChallengeFields
        \cup {"version", "count", "types", "result", "size", "nameLength", "name"}
  BY DEF Writes, ChallengeFields
<1> QED
  BY <1>1, <1>2, <1>3, <1>4, <1>5, <1>6, <1>7, <1>8, <1>9 DEF Together, ChallengeFields

(* What holds where the client computes the response. *)
LEMMA ResponseIsReady ==
    ASSUME IInv, client.at = "sendResponse"
    PROVE  server.agreed = client.version /\ server.type = client.type /\ toServer = <<>>
<1>1. Response
  BY PlaceOfWrite DEF Writes
<1>2. client.at \notin ToSet(Challenge(client.type))
  <2>1. client.type \in {"vnc", "diffieHellman", "ultraVNCMSLogonII"}
    BY <1>1, ChallengesAre DEF Response
  <2> QED
    BY <2>1, ChallengeFieldsAre
<1> QED
  BY <1>1, <1>2 DEF Response, ReadsChallenge, IsAt, Agreement, SameType

(* What holds where the client prepares the session. *)
LEMMA SessionIsOn ==
    ASSUME IInv, client.at = "sendEncodings"
    PROVE  /\ server.agreed = client.version /\ server.type = client.type
           /\ SessionFollows
           /\ server.at # "closed" => server.at = "session"
<1>1. Was("session") /\ \E length \in Lengths : Session(length)
  BY PlaceOfWrite DEF Writes
<1>2. PICK length \in Lengths : Session(length)
  BY <1>1
<1>3. Agreement /\ SameType /\ SessionFollows
  BY <1>2 DEF Session, IsReading, SessionFollows
<1> QED
  BY <1>1, <1>3 DEF Was, Agreement, SameType

(* A failure of the client's own making. *)
LEMMA OwnFault ==
    ASSUME client'.at = "failed", client'.error = "setup",
           server'.agreed = client'.version, server'.type = client'.type,
           server'.at # "closed" =>
                toServer' = <<>> \/ (server'.at = "session" /\ SessionFollows')
    PROVE  Failed'
BY DEF Failed, FailsForAReason

(* A step that fails the handshake fails it for a reason. *)
LEMMA FailingKeeps ==
    ASSUME IInv, TypesAreOffered,
           \/ ShortRead \/ ReadAtEnd \/ WriteThrows \/ SetupThrows
           \/ CredentialAnswered /\ client' = Fails(client, "denied")
    PROVE  IInv'
<1>1. UNCHANGED <<backend, server, toServer>>
  BY DEF ShortRead, ReadAtEnd, WriteThrows, SetupThrows, CredentialAnswered
<1>2. Streams'
  BY EmptySeq DEF ShortRead, ReadAtEnd, WriteThrows, SetupThrows, CredentialAnswered, IInv, Streams
<1>3. ASSUME NEW error \in Errors PROVE Fails(client, error) \in Clients
  BY <1>3, ZenonT(30) DEF Fails, Clients, Errors, IInv
<1>4. ASSUME NEW error, client' = Fails(client, error)
      PROVE  /\ client'.at = "failed" /\ client'.type = client.type
             /\ client'.version = client.version
             /\ client'.error = IF client.error = "none" THEN error ELSE client.error
  BY <1>4 DEF Fails, Clients, IInv
<1>5. client.at # "failed"
  BY DEF ShortRead, ReadAtEnd, WriteThrows, SetupThrows, CredentialAnswered, Reading, Fields,
         ChallengeFields, Writes
<1>6. /\ client.error # "none" =>
            \/ client.error = "noTypes" /\ server.offer = {}
            \/ client.error = "rejected" /\ ~server.accepts
      /\ server.at = "closed" /\ ~server.gaveUp =>
            client.at \in {"count", "result", "reasonLength", "reason"}
  BY <1>5, ReasonSoFar
<1>7. CASE ShortRead
  <2>1. client' = Fails(client, "invalid") /\ backend = "socket"
    BY <1>7 DEF ShortRead
  <2>2. server.at # "closed" => toServer = <<>>
    <3>1. Len(Stream) # 0
      <4>1. Joins(Stream, arrived, wire) /\ arrived \in Seq(Unit) /\ wire \in Seq(Unit)
        BY StreamIs DEF IInv, Streams
      <4>2. Len(arrived) # 0 /\ Len(arrived) \in Nat /\ Len(wire) \in Nat
        BY <1>7, <4>1, EmptySeq DEF ShortRead
      <4> QED
        BY <4>1, <4>2 DEF Joins
    <3> QED
      BY <1>5, <3>1, ReadsAField
  <2>3. Failed'
    BY <1>1, <1>4, <1>6, <2>1, <2>2 DEF Failed, FailsForAReason
  <2> QED
    BY <1>1, <1>2, <1>3, <2>1, <2>3 DEF IInv, Place, Errors
<1>8. CASE ReadAtEnd
  <2>1. client' = Fails(client, "closed") /\ server.at = "closed"
    BY <1>8 DEF ReadAtEnd, AtEnd
  <2>2. server.gaveUp \/ backend = "nw"
    <3>1. ASSUME ~server.gaveUp, backend = "socket" PROVE FALSE
      <4>1. arrived = <<>> /\ wire = <<>>
        BY <1>8, <3>1 DEF ReadAtEnd, AtEnd
      <4>2. Joins(Stream, arrived, wire) /\ Len(arrived) = 0 /\ Len(wire) = 0
        BY <4>1, StreamIs, EmptySeq DEF IInv
      <4>3. Len(Stream) = 0
        BY <4>2 DEF Joins
      <4> QED
        BY <1>5, <2>1, <3>1, <4>3, ReadsOn
    <3> QED
      BY <3>1, HandshakeAssumption DEF IInv
  <2>3. Failed'
    BY <1>1, <1>4, <1>6, <2>1, <2>2 DEF Failed, FailsForAReason
  <2> QED
    BY <1>1, <1>2, <1>3, <2>1, <2>3 DEF IInv, Place, Errors
<1>9. CASE WriteThrows
  <2>1. client' = Fails(client, "closed") /\ server.at = "closed" /\ client.at \in Writes
    BY <1>9 DEF WriteThrows
  <2>2. server.gaveUp
    BY <1>6, <2>1 DEF Writes
  <2>3. Failed'
    BY <1>1, <1>4, <1>6, <2>1, <2>2 DEF Failed, FailsForAReason
  <2> QED
    BY <1>1, <1>2, <1>3, <2>1, <2>3 DEF IInv, Place, Errors
<1>10. CASE CredentialAnswered /\ client' = Fails(client, "denied")
  <2>1. client.at = "credential"
    BY <1>10 DEF CredentialAnswered
  <2>2. Response
    BY <2>1, PlaceOfWrite
  <2>3. toServer = <<>> /\ client.type # "none"
    BY <2>1, <2>2 DEF Response, IsAt
  <2>4. Failed'
    BY <1>1, <1>4, <1>6, <1>10, <2>3 DEF Failed, FailsForAReason
  <2> QED
    BY <1>1, <1>2, <1>3, <1>10, <2>4 DEF IInv, Place, Errors
<1>11. CASE SetupThrows
  <2>1. client.at \in {"sendResponse", "sendEncodings"} /\ client' = Fails(client, "setup")
    BY <1>11 DEF SetupThrows
  <2>2. client.error = "none"
    BY <2>1, PlaceOfWrite DEF Writes
  <2>3. /\ server.agreed = client.version /\ server.type = client.type
        /\ server.at # "closed" => toServer = <<>> \/ (server.at = "session" /\ SessionFollows)
    <3>1. CASE client.at = "sendResponse"
      BY <3>1, ResponseIsReady
    <3>2. CASE client.at = "sendEncodings"
      BY <3>2, SessionIsOn
    <3> QED
      BY <2>1, <3>1, <3>2
  <2>4. Failed'
    <3>1. SessionFollows => SessionFollows'
      BY <1>1 DEF SessionFollows
    <3>2. server' = server /\ toServer' = toServer
      BY <1>1
    <3>3. client'.at = "failed" /\ client'.error = "setup"
          /\ client'.version = client.version /\ client'.type = client.type
      BY <1>4, <2>1, <2>2
    <3> QED
      BY <2>3, <3>1, <3>2, <3>3, OwnFault
  <2> QED
    BY <1>1, <1>2, <1>3, <2>1, <2>4 DEF IInv, Place, Errors
<1> QED
  BY <1>7, <1>8, <1>9, <1>10, <1>11

-----------------------------------------------------------------------------
(***************************************************************************)
(* A read, at each place of the server.                                    *)
(***************************************************************************)
SameBut(c, d) ==
    /\ c.at = d.at /\ c.number = d.number /\ c.seen = d.seen
    /\ c.version = d.version /\ c.type = d.type /\ c.error = d.error

(* Either the field is not complete, or the client goes on with its value. *)
ReadsMore(field, message, start) ==
    /\ client' \in Clients /\ SameBut(client', client)
    /\ IsReading(field, message, start)'
Completes(message, end) ==
    /\ \E g \in Nat : client' = After([client EXCEPT !.got = g], message[end].value)
    /\ HasRead(message, end)'

(* A read of any field but the types, which are also remembered. *)
LEMMA ReadStep ==
    ASSUME IInv, Read, NEW message, NEW start, Reads(message, start),
           NEW field, client.at = field, field # "types", NEW end, end = start + Length(client)
    PROVE  Streams' /\ (ReadsMore(field, message, start) \/ Completes(message, end))
<1>1. field \in Fields \ {"types"}
  BY DEF Read, Reading
<1>2. /\ message \in Seq(Unit) /\ start \in Nat /\ Length(client) \in Nat
      /\ IsReading(field, message, start) /\ client \in Clients /\ Streams
  BY DEF Reads, IInv
<1>3. Streams' /\ \E g \in Nat :
        \/ client' = [client EXCEPT !.got = g] /\ IsReading(field, message, start)'
        \/ /\ client' = After([client EXCEPT !.got = g], message[start + g].value)
           /\ HasRead(message, start + g)'
           /\ g = Length(client) /\ start + g <= Len(message)
  BY <1>1, <1>2, PlainFieldIsRead
<1>4. PICK g \in Nat :
        \/ client' = [client EXCEPT !.got = g] /\ IsReading(field, message, start)'
        \/ /\ client' = After([client EXCEPT !.got = g], message[start + g].value)
           /\ HasRead(message, start + g)'
           /\ g = Length(client) /\ start + g <= Len(message)
  BY <1>3
<1>5. CASE client' = [client EXCEPT !.got = g] /\ IsReading(field, message, start)'
  <2>1. client' \in Clients /\ SameBut(client', client)
    BY <1>2, <1>5 DEF Clients, SameBut
  <2> QED
    BY <1>3, <1>5, <2>1 DEF ReadsMore
<1>6. CASE /\ client' = After([client EXCEPT !.got = g], message[start + g].value)
           /\ HasRead(message, start + g)' /\ g = Length(client)
  <2>1. start + g = end
    BY <1>6
  <2> QED
    BY <1>3, <1>6, <2>1 DEF Completes
<1> QED
  BY <1>4, <1>5, <1>6

LEMMA ReadNeedsUnits ==
    ASSUME Streams, Read
    PROVE  Len(Stream) # 0 /\ UNCHANGED <<backend, server, toServer>>
<1>1. Joins(Stream, arrived, wire) /\ arrived \in Seq(Unit) /\ wire \in Seq(Unit)
  BY StreamIs DEF Streams
<1>2. Len(arrived) # 0 /\ Len(arrived) \in Nat /\ Len(wire) \in Nat
  BY <1>1, EmptySeq DEF Read
<1> QED
  BY <1>1, <1>2 DEF Joins, Read

(* Where the client goes on, everything else about it is as it was. *)
Places == Fields \cup Writes \cup {"credential", "connected", "failed"}
GoneTo(c, d, to) ==
    /\ c \in Clients /\ c.at = to /\ c.got = 0 /\ c.number = d.number /\ c.seen = d.seen
    /\ c.version = d.version /\ c.type = d.type /\ c.error = d.error

LEMMA GoesOn ==
    ASSUME client \in Clients, NEW to \in Places
    PROVE  /\ GoneTo(Goes(client, to), client, to)
           /\ \A g \in Nat : GoneTo(Goes([client EXCEPT !.got = g], to), client, to)
BY DEF Goes, GoneTo, Clients, Places

(* At each place, a read leads on along the message, or to the next step of the client. *)
LEMMA ReadsInVersion ==
    ASSUME IInv, Read, Version
    PROVE  Streams' /\ client' \in Clients /\ client'.error = client.error /\ Version'
<1>1. PICK m \in Seq(Unit) : m = Units("version", server.version, 2)
  BY MessagesAre
<1>2. Len(Stream) # 0 /\ UNCHANGED <<backend, server, toServer>>
  BY ReadNeedsUnits DEF IInv
<1>3. IsReading("version", m, 0) /\ toServer = <<>> /\ client.seen = {}
  BY <1>1, <1>2, NothingLeft DEF Version, IInv
<1>4. Reads(m, 0) /\ Length(client) = 2 /\ Len(m) = 2 /\ m[2].value = server.version
  BY <1>1, <1>3, ReadsVersion
<1>5. Streams' /\ (ReadsMore("version", m, 0) \/ Completes(m, 2))
  <2>1. PICK start, end : start = 0 /\ end = 2 /\ end = start + Length(client)
    BY <1>4
  <2>2. client.at = "version"
    BY <1>3 DEF IsReading
  <2> QED
    BY <1>4, <2>1, <2>2, ReadStep
<1>6. CASE ReadsMore("version", m, 0)
  BY <1>1, <1>2, <1>3, <1>5, <1>6 DEF ReadsMore, SameBut, Version
<1>7. CASE Completes(m, 2)
  <2>1. PICK g \in Nat : client' = After([client EXCEPT !.got = g], server.version)
    BY <1>4, <1>7 DEF Completes
  <2>2. client.at = "version" /\ client \in Clients
    BY <1>3 DEF IsReading, IInv
  <2>3. client' = Goes([[client EXCEPT !.got = g] EXCEPT !.version = Agreed(server.version)], "sendVersion")
    BY <2>1, <2>2, AfterIs DEF Clients
  <2>4. Agreed(server.version) \in {v \in Versions : v.major <= 3 /\ v.minor <= 8}
                                  \cup {NoVersion, [major |-> 3, minor |-> 8]}
    BY DEF Agreed, IInv, Servers
  <2>5. /\ client' \in Clients /\ client'.at = "sendVersion" /\ client'.got = 0
        /\ client'.seen = {} /\ client'.version = Agreed(server.version) /\ client'.error = client.error
    BY <1>3, <2>2, <2>3, <2>4 DEF Goes, Clients, Writes
  <2>6. IsAt("sendVersion", m)'
    BY <1>4, <1>7, <2>5 DEF IsAt, Completes
  <2> QED
    BY <1>1, <1>2, <1>3, <1>5, <2>5, <2>6 DEF Version
<1> QED
  BY <1>5, <1>6, <1>7

(* The types are as many as the count says, and all are seen before one is chosen. *)
LEMMA ReadsCountStep ==
    ASSUME IInv, Read, SecurityType, NEW m \in Seq(Unit), m = Offering(server.offer),
           IsReading("count", m, 0), client.seen = {}, toServer = <<>>
    PROVE  Streams' /\ client' \in Clients /\ client'.error = client.error /\ SecurityType'
<1>1. UNCHANGED <<backend, server, toServer>>
  BY ReadNeedsUnits DEF IInv
<1>2. Reads(m, 0) /\ Length(client) = 1 /\ m[1].value = Cardinality(server.offer)
  BY ReadsCount
<1>3. client.at = "count" /\ client \in Clients
  BY DEF IsReading, IInv
<1>4. Streams' /\ (ReadsMore("count", m, 0) \/ Completes(m, 1))
  <2>1. PICK start, end : start = 0 /\ end = 1 /\ end = start + Length(client)
    BY <1>2
  <2> QED
    BY <1>2, <1>3, <2>1, ReadStep
<1>5. CASE ReadsMore("count", m, 0)
  BY <1>1, <1>4, <1>5 DEF ReadsMore, SameBut, SecurityType, Agreement
<1>6. CASE Completes(m, 1)
  <2>1. PICK n \in Nat \ {0} : n = Cardinality(server.offer)
    BY OffersAre DEF SecurityType, IsOffering
  <2>2. PICK g \in Nat : client' = After([client EXCEPT !.got = g], n)
    BY <1>2, <1>6, <2>1 DEF Completes
  <2>3. client' = Goes([[client EXCEPT !.got = g] EXCEPT !.number = n], "types")
    <3>1. PICK c : c = [client EXCEPT !.got = g]
      OBVIOUS
    <3>2. c.at = "count"
      BY <1>3, <3>1 DEF Clients
    <3>3. After(c, n) = IF n > 0 THEN Goes([c EXCEPT !.number = n], "types")
                        ELSE Goes([c EXCEPT !.error = "noTypes"], "reasonLength")
      BY <3>2, AfterIs
    <3> QED
      BY <2>1, <2>2, <3>1, <3>3
  <2>4. /\ client' \in Clients /\ client'.at = "types" /\ client'.got = 0 /\ client'.number = n
        /\ client'.seen = {} /\ client'.version = client.version /\ client'.error = client.error
    BY <1>3, <2>1, <2>3 DEF Goes, Clients, Fields
  <2>5. Length(client') = n
    BY <2>4, LengthIs
  <2>6. HasRead(m, 1)' /\ 1 + client'.got = 1
    BY <1>6, <2>4 DEF Completes
  <2>7. IsReading("types", m, 1)'
    BY <2>1, <2>4, <2>5, <2>6 DEF IsReading
  <2>8. {m[i].value : i \in 2..client'.got + 1} = {}
    BY <2>4
  <2> QED
    BY <1>1, <1>4, <2>1, <2>4, <2>7, <2>8 DEF SecurityType, Agreement
<1> QED
  BY <1>4, <1>5, <1>6

LEMMA ReadsTypesStep ==
    ASSUME IInv, Read, SecurityType, NEW m \in Seq(Unit), m = Offering(server.offer),
           IsReading("types", m, 1), client.number = Cardinality(server.offer),
           client.seen = {m[i].value : i \in 2..(client.got + 1)}, toServer = <<>>,
           client.error = "none"
    PROVE  /\ Streams' /\ client' \in Clients
           /\ (client'.error = "none" /\ SecurityType') \/ Failed'
<1>1. UNCHANGED <<backend, server, toServer>>
  BY ReadNeedsUnits DEF IInv
<1>2. PICK n \in Nat : n = Cardinality(server.offer) /\ Length(client) = n
  BY ReadsTypes, OffersAre
<1>3. client.at = "types" /\ client \in Clients /\ client.got \in Nat
  BY DEF IsReading, IInv, Clients
<1>4. PICK one \in Nat : one = 1
  OBVIOUS
<1>5. Streams' /\ \E g, seen : g \in Nat /\ ReadUpTo("types", m, one, g, seen)
  BY <1>2, <1>3, <1>4, FieldIsRead DEF IInv, Fields
<1>6. PICK g \in Nat : \E seen : ReadUpTo("types", m, one, g, seen)
  BY <1>5
<1>7. PICK seen : ReadUpTo("types", m, one, g, seen)
  BY <1>6
<1>8. PICK c : c = [client EXCEPT !.got = g, !.seen = seen]
  OBVIOUS
<1>9. /\ client.got < g /\ g <= n /\ HasRead(m, 1 + g)'
      /\ client' = IF g = n THEN After(c, m[1 + g].value) ELSE c
      /\ seen = client.seen \cup {m[i].value : i \in 1 + client.got + 1..1 + g}
  BY <1>2, <1>4, <1>7, <1>8 DEF ReadUpTo
<1>10. seen = {m[i].value : i \in 2..g + 1}
  <2>1. PICK got \in Nat : got = client.got
    BY <1>3
  <2>2. \A i : i \in 2..g + 1 <=> i \in 2..got + 1 \/ i \in 1 + got + 1..1 + g
    BY <1>9, <2>1
  <2> QED
    BY <1>9, <2>1, <2>2
<1>11. IsOffering(m, server.offer)
  BY OffersAre
<1>12. /\ \A i \in 1..n : m[1 + i].value \in server.offer
       /\ \A type \in server.offer : \E i \in 1..n : m[1 + i].value = type
       /\ Len(m) = 1 + n
  BY <1>2, <1>11 DEF IsOffering
<1>13. \A i \in 2..g + 1 : m[i].value \in server.offer
  <2> TAKE i \in 2..g + 1
  <2>1. i - 1 \in 1..n /\ 1 + (i - 1) = i
    BY <1>9
  <2> QED
    BY <1>12, <2>1
<1>14. seen \subseteq server.offer /\ server.offer \in SUBSET (Types \ {"tight"})
  BY <1>10, <1>13, ConstantsAre DEF IInv
<1>15. /\ c \in Clients /\ c.at = "types" /\ c.got = g /\ c.seen = seen /\ c.number = n
       /\ c.version = client.version /\ c.type = client.type /\ c.error = "none"
  BY <1>2, <1>3, <1>8, <1>14 DEF Clients
<1>16. CASE g # n
  <2>1. client' = c /\ Length(c) = n /\ g < n
    BY <1>9, <1>15, <1>16, LengthIs
  <2>2. IsReading("types", m, 1)'
    BY <1>9, <1>15, <2>1 DEF IsReading
  <2> QED
    BY <1>1, <1>2, <1>5, <1>10, <1>15, <2>1, <2>2 DEF SecurityType, Agreement
<1>17. CASE g = n
  <2>1. seen = server.offer
    <3>1. ASSUME NEW type \in server.offer PROVE type \in seen
      <4>1. PICK i \in 1..n : m[1 + i].value = type
        BY <1>12
      <4>2. 1 + i \in 2..g + 1
        BY <1>17
      <4> QED
        BY <1>10, <4>1, <4>2
    <3> QED
      BY <1>14, <3>1
  <2>2. client' = AfterTypes(c)
    BY <1>9, <1>15, <1>17, AfterIs
  <2>3. /\ Decided(server.offer) \in (Types \ {"tight", "other"}) \cup {"invalid"}
        /\ Decided(server.offer) = "invalid" <=> server.offer \cap ToSet(Preference) = {}
    BY <1>14, DecidedIs
  <2>4. CASE Decided(server.offer) = "invalid"
    <3>1. client' = Fails(c, "undecided")
      BY <1>15, <2>1, <2>2, <2>4 DEF AfterTypes
    <3>2. client' \in Clients /\ client'.at = "failed" /\ client'.error = "undecided"
      BY <1>15, <3>1 DEF Fails, Clients, Errors
    <3>3. Failed'
      BY <1>1, <2>3, <2>4, <3>2 DEF Failed, FailsForAReason
    <3> QED
      BY <1>5, <3>2, <3>3
  <2>5. CASE Decided(server.offer) # "invalid"
    <3>1. client' = Goes([c EXCEPT !.type = Decided(server.offer)], "sendType")
      BY <1>15, <2>1, <2>2, <2>5 DEF AfterTypes
    <3>2. /\ client' \in Clients /\ client'.at = "sendType" /\ client'.got = 0
          /\ client'.type = Decided(server.offer) /\ client'.error = "none"
          /\ client'.version = client.version
      BY <1>15, <2>3, <3>1 DEF Goes, Clients, Writes
    <3>3. HasRead(m, Len(m))'
      <4>1. Len(m) = 1 + g
        BY <1>12, <1>17
      <4> QED
        BY <1>9, <4>1
    <3>4. IsAt("sendType", m)'
      BY <3>2, <3>3 DEF IsAt
    <3> QED
      BY <1>1, <1>5, <2>5, <3>2, <3>4 DEF SecurityType, Agreement
  <2> QED
    BY <2>4, <2>5
<1> QED
  BY <1>16, <1>17

LEMMA ReadsInSecurityType ==
    ASSUME IInv, Read, SecurityType, client.error = "none"
    PROVE  /\ Streams' /\ client' \in Clients
           /\ (client'.error = "none" /\ SecurityType') \/ Failed'
<1>1. PICK m \in Seq(Unit) : m = Offering(server.offer)
  BY MessagesAre
<1>2. Len(Stream) # 0
  BY ReadNeedsUnits DEF IInv
<1>3. \/ IsReading("count", m, 0) /\ client.seen = {} /\ toServer = <<>>
      \/ /\ IsReading("types", m, 1) /\ toServer = <<>>
         /\ client.number = Cardinality(server.offer)
         /\ client.seen = {m[i].value : i \in 2..(client.got + 1)}
  BY <1>1, <1>2, NothingLeft DEF SecurityType, IInv
<1> QED
  BY <1>1, <1>3, ReadsCountStep, ReadsTypesStep

(* After each field of a challenge comes the next, or the owner is asked. *)
Follows(to, field, type) ==
    \/ to = "credential" /\ field \in {"challenge", "peerKey", "resp"}
    \/ /\ to \in ToSet(Challenge(type)) /\ Start(to) = Start(field) + 2
       /\ to \in {"prime", "peerKey"} => field \in {"keySize", "prime"}

LEMMA AfterChallengeField ==
    ASSUME client \in Clients, SameType, client.type # "none", ReadsChallenge,
           NEW g \in Nat, NEW value, client.at = "keySize" => value = 2
    PROVE  \E c, to : /\ Follows(to, client.at, client.type)
                      /\ c = IF client.at = "keySize"
                             THEN [[client EXCEPT !.got = g] EXCEPT !.number = 2]
                             ELSE [client EXCEPT !.got = g]
                      /\ After([client EXCEPT !.got = g], value) = Goes(c, to)
<1>1. PICK c, d : /\ d = [client EXCEPT !.got = g]
                  /\ c = IF client.at = "keySize" THEN [d EXCEPT !.number = 2] ELSE d
  OBVIOUS
<1>2. d.at = client.at /\ c.at = client.at /\ c.type = client.type
  BY <1>1 DEF Clients
<1>3. /\ client.type \in {"vnc", "diffieHellman", "ultraVNCMSLogonII"}
      /\ client.at \in ToSet(Challenge(client.type))
  BY ChallengesAre DEF ReadsChallenge
<1>4. client.at \in ChallengeFields
  BY <1>3, ChallengeFieldsAre DEF ChallengeFields
<1>5. After(d, value) = AfterChallenge(c)
  <2>1. CASE client.at = "keySize"
    <3>1. After(d, value) = AfterChallenge([d EXCEPT !.number = value])
      BY <1>2, <2>1, AfterIs
    <3>2. c = [d EXCEPT !.number = value]
      BY <1>1, <2>1
    <3> QED
      BY <3>1, <3>2
  <2>2. CASE client.at # "keySize"
    BY <1>1, <1>2, <1>4, <2>2, AfterIs
  <2> QED
    BY <2>1, <2>2
<1> SUFFICES ASSUME TRUE
             PROVE  \E to : Follows(to, client.at, client.type) /\ AfterChallenge(c) = Goes(c, to)
  BY <1>1, <1>5
<1>6. CASE client.type = "vnc" /\ client.at = "challenge"
  <2>1. AfterChallenge(c) = Goes(c, "credential")
    BY <1>2, <1>6, AfterChallengeIs
  <2>2. Follows("credential", client.at, client.type)
    BY <1>6 DEF Follows
  <2> QED
    BY <2>1, <2>2
<1>7. CASE client.type = "diffieHellman" /\ client.at = "generator"
  <2>1. AfterChallenge(c) = Goes(c, "keySize")
    BY <1>2, <1>7, AfterChallengeIs
  <2>2. Start("generator") = 0 /\ Start("keySize") = 2
    BY DEF Start
  <2>3. "keySize" \in ToSet(Challenge(client.type))
    BY <1>7, ChallengeFieldsAre
  <2>4. Follows("keySize", client.at, client.type)
    BY <1>7, <2>2, <2>3 DEF Follows
  <2> QED
    BY <2>1, <2>4
<1>8. CASE client.type = "diffieHellman" /\ client.at = "keySize"
  <2>1. AfterChallenge(c) = Goes(c, "prime")
    BY <1>2, <1>8, AfterChallengeIs
  <2>2. Start("keySize") = 2 /\ Start("prime") = 4
    BY DEF Start
  <2>3. "prime" \in ToSet(Challenge(client.type))
    BY <1>8, ChallengeFieldsAre
  <2>4. Follows("prime", client.at, client.type)
    BY <1>8, <2>2, <2>3 DEF Follows
  <2> QED
    BY <2>1, <2>4
<1>9. CASE client.type = "diffieHellman" /\ client.at = "prime"
  <2>1. AfterChallenge(c) = Goes(c, "peerKey")
    BY <1>2, <1>9, AfterChallengeIs
  <2>2. Start("prime") = 4 /\ Start("peerKey") = 6
    BY DEF Start
  <2>3. "peerKey" \in ToSet(Challenge(client.type))
    BY <1>9, ChallengeFieldsAre
  <2>4. Follows("peerKey", client.at, client.type)
    BY <1>9, <2>2, <2>3 DEF Follows
  <2> QED
    BY <2>1, <2>4
<1>10. CASE client.type = "diffieHellman" /\ client.at = "peerKey"
  <2>1. AfterChallenge(c) = Goes(c, "credential")
    BY <1>2, <1>10, AfterChallengeIs
  <2>2. Follows("credential", client.at, client.type)
    BY <1>10 DEF Follows
  <2> QED
    BY <2>1, <2>2
<1>11. CASE client.type = "ultraVNCMSLogonII" /\ client.at = "gen"
  <2>1. AfterChallenge(c) = Goes(c, "modulus")
    BY <1>2, <1>11, AfterChallengeIs
  <2>2. Start("gen") = 0 /\ Start("modulus") = 2
    BY DEF Start
  <2>3. "modulus" \in ToSet(Challenge(client.type))
    BY <1>11, ChallengeFieldsAre
  <2>4. Follows("modulus", client.at, client.type)
    BY <1>11, <2>2, <2>3 DEF Follows
  <2> QED
    BY <2>1, <2>4
<1>12. CASE client.type = "ultraVNCMSLogonII" /\ client.at = "modulus"
  <2>1. AfterChallenge(c) = Goes(c, "resp")
    BY <1>2, <1>12, AfterChallengeIs
  <2>2. Start("modulus") = 2 /\ Start("resp") = 4
    BY DEF Start
  <2>3. "resp" \in ToSet(Challenge(client.type))
    BY <1>12, ChallengeFieldsAre
  <2>4. Follows("resp", client.at, client.type)
    BY <1>12, <2>2, <2>3 DEF Follows
  <2> QED
    BY <2>1, <2>4
<1>13. CASE client.type = "ultraVNCMSLogonII" /\ client.at = "resp"
  <2>1. AfterChallenge(c) = Goes(c, "credential")
    BY <1>2, <1>13, AfterChallengeIs
  <2>2. Follows("credential", client.at, client.type)
    BY <1>13 DEF Follows
  <2> QED
    BY <2>1, <2>2
<1> QED
  BY <1>3, <1>6, <1>7, <1>8, <1>9, <1>10, <1>11, <1>12, <1>13, ChallengeFieldsAre

LEMMA ReadsInResponse ==
    ASSUME IInv, Read, Response
    PROVE  Streams' /\ client' \in Clients /\ client'.error = client.error /\ Response'
<1>1. SameType /\ client.type # "none" /\ Agreement /\ client \in Clients
  BY DEF Response, IInv
<1>2. PICK m \in Seq(Unit) : m = Challenging(client.type, 2)
  BY <1>1, ChallengesAre DEF FieldsLieIn
<1>3. Len(Stream) # 0 /\ UNCHANGED <<backend, server, toServer>>
  BY ReadNeedsUnits DEF IInv
<1>4. PICK field, start : field = client.at /\ start = Start(field)
  OBVIOUS
<1>5. ReadsChallenge /\ IsReading(field, m, start) /\ toServer = <<>>
  BY <1>2, <1>3, <1>4, NothingLeft DEF Response, IInv
<1>6. /\ Reads(m, start) /\ Length(client) = 2
      /\ field = "keySize" => m[start + 2].value = 2
  BY <1>1, <1>2, <1>4, <1>5, ReadsChallengeField
<1>7. /\ client.type \in {"vnc", "diffieHellman", "ultraVNCMSLogonII"}
      /\ field \in ToSet(Challenge(client.type)) /\ field \in ChallengeFields
  <2>1. client.type \in {"vnc", "diffieHellman", "ultraVNCMSLogonII"}
    BY <1>1, ChallengesAre
  <2>2. field \in ToSet(Challenge(client.type))
    BY <1>4, <1>5 DEF ReadsChallenge
  <2> QED
    BY <2>1, <2>2, ChallengeFieldsAre DEF ChallengeFields
<1>8. PICK end : end = start + 2 /\ end = start + Length(client)
  BY <1>6
<1>9. Streams' /\ (ReadsMore(field, m, start) \/ Completes(m, end))
  <2>1. field # "types"
    BY <1>7 DEF ChallengeFields
  <2> QED
    BY <1>4, <1>6, <1>8, <2>1, ReadStep
<1>10. CASE ReadsMore(field, m, start)
  <2>1. /\ client' \in Clients /\ client'.at = field /\ client'.type = client.type
        /\ client'.version = client.version /\ client'.number = client.number
        /\ client'.error = client.error /\ IsReading(field, m, start)'
    BY <1>4, <1>10 DEF ReadsMore, SameBut
  <2>2. ReadsChallenge' /\ Agreement' /\ SameType'
    BY <1>1, <1>3, <1>4, <1>5, <2>1 DEF ReadsChallenge, Agreement, SameType
  <2> QED
    BY <1>1, <1>2, <1>3, <1>4, <1>5, <1>9, <2>1, <2>2 DEF Response
<1>11. CASE Completes(m, end)
  <2>1. PICK value : value = m[end].value
    OBVIOUS
  <2>2. PICK g \in Nat : client' = After([client EXCEPT !.got = g], value)
    BY <1>11, <2>1 DEF Completes
  <2>3. client.at = "keySize" => value = 2
    BY <1>4, <1>6, <1>8, <2>1
  <2>4. PICK c, to : /\ Follows(to, client.at, client.type)
                     /\ c = IF client.at = "keySize"
                            THEN [[client EXCEPT !.got = g] EXCEPT !.number = 2]
                            ELSE [client EXCEPT !.got = g]
                     /\ After([client EXCEPT !.got = g], value) = Goes(c, to)
    BY <1>1, <1>5, <2>3, AfterChallengeField
  <2>5. to = "credential" \/ to \in ChallengeFields
    BY <1>7, <2>4, ChallengeFieldsAre DEF Follows, ChallengeFields
  <2>6. /\ client' \in Clients /\ client'.at = to /\ client'.got = 0
        /\ client'.type = client.type /\ client'.version = client.version
        /\ client'.error = client.error
        /\ client'.number = IF client.at = "keySize" THEN 2 ELSE client.number
    <3>1. c \in Clients /\ c.type = client.type /\ c.version = client.version /\ c.error = client.error
          /\ c.number = IF client.at = "keySize" THEN 2 ELSE client.number
      BY <1>1, <2>4 DEF Clients
    <3>2. to \in Places
      BY <2>5 DEF Places, Fields
    <3>3. client' = Goes(c, to)
      BY <2>2, <2>4
    <3> QED
      BY <3>1, <3>2, <3>3 DEF Goes, Clients, Places
  <2>7. Agreement' /\ SameType'
    BY <1>1, <1>3, <2>6 DEF Agreement, SameType
  <2>8. m = Challenging(client'.type, 2) /\ toServer' = <<>> /\ HasRead(m, end)'
    BY <1>2, <1>3, <1>5, <1>11, <2>6 DEF Completes
  <2>9. CASE to = "credential"
    <3>1. end = Len(m)
      <4>1. field \in {"challenge", "peerKey", "resp"}
        BY <1>4, <2>4, <2>9, <1>7, ChallengeFieldsAre DEF Follows
      <4>2. Start(field) + 2 = Len(Challenging(client.type, 2))
        BY <1>1, <1>7, <4>1, ChallengesAre
      <4> QED
        BY <1>2, <1>4, <1>8, <4>2
    <3>2. IsAt("credential", m)'
      BY <2>6, <2>8, <2>9, <3>1 DEF IsAt
    <3> QED
      BY <1>1, <1>9, <2>6, <2>7, <2>8, <3>2 DEF Response
  <2>10. CASE to # "credential"
    <3>1. /\ to \in ToSet(Challenge(client'.type)) /\ Start(to) = end
          /\ to \in {"prime", "peerKey"} => field \in {"keySize", "prime"}
      BY <1>4, <1>8, <2>4, <2>6, <2>10 DEF Follows
    <3>2. to \in {"prime", "peerKey"} => client'.number = 2
      BY <1>4, <1>5, <2>6, <3>1 DEF ReadsChallenge
    <3>3. Length(client') = 2
      BY <2>5, <2>6, <2>10, <3>2, LengthIs DEF ChallengeFields
    <3>4. Start(to) \in Nat
      BY <2>5, <2>10 DEF Start, ChallengeFields
    <3>5. HasRead(m, Start(to) + client.got)'
      <4>1. Start(to) + 0 = end
        BY <3>1, <3>4
      <4> QED
        BY <2>6, <2>8, <4>1
    <3>6. IsReading(to, m, Start(to))' /\ ReadsChallenge'
      BY <2>6, <3>1, <3>2, <3>3, <3>5 DEF IsReading, ReadsChallenge
    <3> QED
      BY <1>1, <1>9, <2>6, <2>7, <2>8, <3>6 DEF Response
  <2> QED
    BY <2>9, <2>10
<1> QED
  BY <1>9, <1>10, <1>11

LEMMA ReadsInInitialisation ==
    ASSUME IInv, Read, Initialisation
    PROVE  Streams' /\ client' \in Clients /\ client'.error = client.error /\ Initialisation'
<1>1. Agreement /\ SameType /\ Accepted /\ client \in Clients
  BY DEF Initialisation, IInv
<1>2. PICK m \in Seq(Unit) :
        m = IF ResultExpected(client.type, client.version) THEN Units("result", TRUE, 2) ELSE <<>>
  BY MessagesAre
<1>3. Len(Stream) # 0 /\ UNCHANGED <<backend, server, toServer>>
  BY ReadNeedsUnits DEF IInv
<1>4. /\ ResultExpected(client.type, client.version)
      /\ IsReading("result", m, 0) /\ toServer = <<>>
  BY <1>2, <1>3, NothingLeft DEF Initialisation, IInv
<1>5. PICK verdict \in BOOLEAN : verdict = TRUE /\ m = Units("result", verdict, 2)
  BY <1>2, <1>4
<1>6. Reads(m, 0) /\ Length(client) = 2 /\ Len(m) = 2 /\ m[2].value = TRUE
  BY <1>4, <1>5, ReadsResult
<1>7. client.at = "result"
  BY <1>4 DEF IsReading
<1>8. Streams' /\ (ReadsMore("result", m, 0) \/ Completes(m, 2))
  <2>1. PICK start, end : start = 0 /\ end = 2 /\ end = start + Length(client)
    BY <1>6
  <2> QED
    BY <1>6, <1>7, <2>1, ReadStep
<1>9. ASSUME client' \in Clients, client'.type = client.type, client'.version = client.version
      PROVE  /\ Agreement' /\ SameType' /\ Accepted'
             /\ ResultExpected(client'.type, client'.version)
             /\ m = IF ResultExpected(client'.type, client'.version)
                    THEN Units("result", TRUE, 2) ELSE <<>>
  BY <1>1, <1>2, <1>3, <1>4, <1>9 DEF Agreement, SameType, Accepted
<1>10. CASE ReadsMore("result", m, 0)
  <2>1. /\ client' \in Clients /\ client'.type = client.type /\ client'.version = client.version
        /\ client'.error = client.error /\ IsReading("result", m, 0)'
    BY <1>10 DEF ReadsMore, SameBut
  <2> QED
    BY <1>3, <1>4, <1>8, <1>9, <2>1 DEF Initialisation
<1>11. CASE Completes(m, 2)
  <2>1. PICK g \in Nat : client' = After([client EXCEPT !.got = g], TRUE)
    BY <1>6, <1>11 DEF Completes
  <2>2. client' = Goes([client EXCEPT !.got = g], "sendInit")
    <3>1. PICK c : c = [client EXCEPT !.got = g]
      OBVIOUS
    <3>2. c.at = "result"
      BY <1>1, <1>7, <3>1 DEF Clients
    <3>3. After(c, TRUE) = AfterResult(c, TRUE)
      BY <3>2, AfterIs
    <3> QED
      BY <2>1, <3>1, <3>3 DEF AfterResult
  <2>3. GoneTo(client', client, "sendInit")
    BY <1>1, <2>2, GoesOn DEF Places, Writes
  <2>4. IsAt("sendInit", m)'
    BY <1>6, <1>11, <2>3 DEF IsAt, Completes, GoneTo
  <2> QED
    BY <1>3, <1>4, <1>8, <1>9, <2>3, <2>4 DEF Initialisation, GoneTo
<1> QED
  BY <1>8, <1>10, <1>11

LEMMA ReadsInSession ==
    ASSUME IInv, Read, NEW length \in Lengths, Session(length)
    PROVE  Streams' /\ client' \in Clients /\ client'.error = client.error /\ Session(length)'
<1>1. Agreement /\ SameType /\ Accepted /\ client \in Clients
  BY DEF Session, IInv
<1>2. PICK m \in Seq(Unit) : m = ServerInit(length)
  BY MessagesAre
<1>3. Len(Stream) # 0 /\ UNCHANGED <<backend, server, toServer>>
  BY ReadNeedsUnits DEF IInv
<1>4. /\ toServer = <<>>
      /\ \/ IsReading("size", m, 0)
         \/ IsReading("nameLength", m, 2)
         \/ IsReading("name", m, 4) /\ client.number = length
  BY <1>2, <1>3, NothingLeft DEF Session, IInv
<1>5. /\ Len(m) = 4 + length /\ length \in Nat
      /\ IsReading("size", m, 0) => Reads(m, 0) /\ Length(client) = 2
      /\ IsReading("nameLength", m, 2) => Reads(m, 2) /\ Length(client) = 2 /\ m[4].value = length
      /\ IsReading("name", m, 4) /\ client.number = length => Reads(m, 4) /\ Length(client) = length
  BY <1>2, ReadsServerInit
<1>6. ASSUME client'.type = client.type, client'.version = client.version
      PROVE  Agreement' /\ SameType' /\ Accepted'
  BY <1>1, <1>3, <1>6 DEF Agreement, SameType, Accepted
<1>7. ASSUME GoneTo(client', client, "sendFormat"), HasRead(m, 4 + length)', Streams'
      PROVE  Streams' /\ client' \in Clients /\ client'.error = client.error /\ Session(length)'
  <2>1. IsAt("sendFormat", m)'
    BY <1>5, <1>7 DEF IsAt, GoneTo
  <2> QED
    BY <1>2, <1>3, <1>4, <1>6, <1>7, <2>1, EmptySeq DEF Session, GoneTo
<1>8. ASSUME NEW field, NEW start, ReadsMore(field, m, start), Streams',
             \/ field = "size" /\ start = 0
             \/ field = "nameLength" /\ start = 2
             \/ field = "name" /\ start = 4 /\ client.number = length
      PROVE  Streams' /\ client' \in Clients /\ client'.error = client.error /\ Session(length)'
  BY <1>2, <1>3, <1>4, <1>6, <1>8 DEF Session, ReadsMore, SameBut
<1>9. CASE IsReading("size", m, 0)
  <2>1. client.at = "size"
    BY <1>9 DEF IsReading
  <2>2. Streams' /\ (ReadsMore("size", m, 0) \/ Completes(m, 2))
    <3>1. PICK start, end : start = 0 /\ end = 2 /\ end = start + Length(client)
      BY <1>5, <1>9
    <3> QED
      BY <1>5, <1>9, <2>1, <3>1, ReadStep
  <2>3. CASE Completes(m, 2)
    <3>1. PICK g \in Nat : client' = After([client EXCEPT !.got = g], m[2].value)
      BY <2>3 DEF Completes
    <3>2. client' = Goes([client EXCEPT !.got = g], "nameLength")
      BY <1>1, <2>1, <3>1, AfterIs DEF Clients
    <3>3. GoneTo(client', client, "nameLength")
      BY <1>1, <3>2, GoesOn DEF Places, Fields
    <3>4. Length(client') = 2 /\ 2 + client'.got = 2
      BY <3>3, LengthIs DEF GoneTo
    <3>5. IsReading("nameLength", m, 2)'
      BY <2>3, <3>3, <3>4 DEF IsReading, Completes, GoneTo
    <3> QED
      BY <1>2, <1>3, <1>4, <1>6, <2>2, <3>3, <3>5 DEF Session, GoneTo
  <2> QED
    BY <1>8, <2>2, <2>3
<1>10. CASE IsReading("nameLength", m, 2)
  <2>1. client.at = "nameLength"
    BY <1>10 DEF IsReading
  <2>2. Streams' /\ (ReadsMore("nameLength", m, 2) \/ Completes(m, 4))
    <3>1. PICK start, end : start = 2 /\ end = 4 /\ end = start + Length(client)
      BY <1>5, <1>10
    <3> QED
      BY <1>5, <1>10, <2>1, <3>1, ReadStep
  <2>3. CASE Completes(m, 4)
    <3>1. PICK g \in Nat : client' = After([client EXCEPT !.got = g], length)
      BY <1>5, <1>10, <2>3 DEF Completes
    <3>2. client' = IF length > 0
                    THEN Goes([[client EXCEPT !.got = g] EXCEPT !.number = length], "name")
                    ELSE Goes([client EXCEPT !.got = g], "sendFormat")
      <4>1. PICK c : c = [client EXCEPT !.got = g]
        OBVIOUS
      <4>2. c.at = "nameLength"
        BY <1>1, <2>1, <4>1 DEF Clients
      <4>3. After(c, length) = IF length > 0 THEN Goes([c EXCEPT !.number = length], "name")
                               ELSE Goes(c, "sendFormat")
        BY <4>2, AfterIs
      <4> QED
        BY <3>1, <4>1, <4>3
    <3>3. CASE length > 0
      <4>1. /\ client' \in Clients /\ client'.at = "name" /\ client'.got = 0
            /\ client'.number = length /\ client'.version = client.version
            /\ client'.type = client.type /\ client'.error = client.error
        BY <1>1, <1>5, <3>2, <3>3 DEF Goes, Clients, Fields
      <4>2. Length(client') = length /\ 4 + client'.got = 4
        BY <4>1, LengthIs
      <4>3. IsReading("name", m, 4)'
        BY <2>3, <3>3, <4>1, <4>2 DEF IsReading, Completes
      <4> QED
        BY <1>2, <1>3, <1>4, <1>6, <2>2, <4>1, <4>3 DEF Session
    <3>4. CASE length = 0
      <4>1. client' = Goes([client EXCEPT !.got = g], "sendFormat")
        BY <3>2, <3>4
      <4>2. GoneTo(client', client, "sendFormat")
        BY <1>1, <4>1, GoesOn DEF Places, Writes
      <4>3. HasRead(m, 4 + length)'
        BY <2>3, <3>4 DEF Completes
      <4> QED
        BY <1>7, <2>2, <4>2, <4>3
    <3> QED
      BY <1>5, <3>3, <3>4
  <2> QED
    BY <1>8, <2>2, <2>3
<1>11. CASE IsReading("name", m, 4) /\ client.number = length
  <2>1. client.at = "name"
    BY <1>11 DEF IsReading
  <2>2. Streams' /\ (ReadsMore("name", m, 4) \/ Completes(m, 4 + length))
    <3>1. PICK start, end : start = 4 /\ end = 4 + length /\ end = start + Length(client)
      BY <1>5, <1>11
    <3> QED
      BY <1>5, <1>11, <2>1, <3>1, ReadStep
  <2>3. CASE Completes(m, 4 + length)
    <3>1. PICK value : value = m[4 + length].value
      OBVIOUS
    <3>2. PICK g \in Nat : client' = After([client EXCEPT !.got = g], value)
      BY <2>3, <3>1 DEF Completes
    <3>3. client' = Goes([client EXCEPT !.got = g], "sendFormat")
      BY <1>1, <2>1, <3>2, AfterIs DEF Clients
    <3>4. GoneTo(client', client, "sendFormat")
      BY <1>1, <3>3, GoesOn DEF Places, Writes
    <3> QED
      BY <1>7, <2>2, <2>3, <3>4 DEF Completes
  <2> QED
    BY <1>8, <1>11, <2>2, <2>3
<1> QED
  BY <1>4, <1>9, <1>10, <1>11

(* A reason is read to its end or not, the error is the one before. *)
LEMMA FailsAsBefore ==
    ASSUME client \in Clients, server' = server, toServer' = <<>>, NEW g \in Nat,
           client' = Fails([client EXCEPT !.got = g], "closed"),
           \/ client.error = "noTypes" /\ server.offer = {}
           \/ client.error = "rejected" /\ ~server.accepts
    PROVE  client' \in Clients /\ Failed'
<1>1. /\ client' \in Clients /\ client'.at = "failed" /\ client'.error = client.error
  BY DEF Fails, Clients, Errors
<1> QED
  BY <1>1 DEF Failed, FailsForAReason

LEMMA ReadsInNoTypes ==
    ASSUME IInv, Read, NEW length \in Lengths, NoTypes(length)
    PROVE  Streams' /\ client' \in Clients /\ (NoTypes(length)' \/ Failed')
<1>1. client \in Clients /\ server.offer = {} /\ toServer = <<>>
  BY DEF NoTypes, IInv
<1>2. PICK m \in Seq(Unit) : m = NothingOffered(length)
  BY MessagesAre
<1>3. UNCHANGED <<backend, server, toServer>>
  BY ReadNeedsUnits DEF IInv
<1>4. \/ IsReading("count", m, 0) /\ client.error = "none"
      \/ IsReading("reasonLength", m, 1) /\ client.error = "noTypes"
      \/ IsReading("reason", m, 3) /\ client.number = length /\ client.error = "noTypes"
  BY <1>2 DEF NoTypes
<1>5. /\ length \in Nat
      /\ IsReading("count", m, 0) => Reads(m, 0) /\ Length(client) = 1 /\ m[1].value = 0
      /\ IsReading("reasonLength", m, 1) => Reads(m, 1) /\ Length(client) = 2 /\ m[3].value = length
      /\ IsReading("reason", m, 3) /\ client.number = length => Reads(m, 3) /\ Length(client) = length
  BY <1>2, ReadsNothingOffered
<1>6. CASE IsReading("count", m, 0) /\ client.error = "none"
  <2>1. client.at = "count"
    BY <1>6 DEF IsReading
  <2>2. Streams' /\ (ReadsMore("count", m, 0) \/ Completes(m, 1))
    <3>1. PICK start, end : start = 0 /\ end = 1 /\ end = start + Length(client)
      BY <1>5, <1>6
    <3> QED
      BY <1>5, <1>6, <2>1, <3>1, ReadStep
  <2>3. CASE ReadsMore("count", m, 0)
    BY <1>1, <1>2, <1>3, <1>6, <2>2, <2>3 DEF NoTypes, ReadsMore, SameBut
  <2>4. CASE Completes(m, 1)
    <3>1. PICK g \in Nat : client' = After([client EXCEPT !.got = g], 0)
      BY <1>5, <1>6, <2>4 DEF Completes
    <3>2. client' = Goes([[client EXCEPT !.got = g] EXCEPT !.error = "noTypes"], "reasonLength")
      <4>1. PICK c : c = [client EXCEPT !.got = g]
        OBVIOUS
      <4>2. c.at = "count" /\ ~(0 > 0)
        BY <1>1, <2>1, <4>1 DEF Clients
      <4>3. After(c, 0) = Goes([c EXCEPT !.error = "noTypes"], "reasonLength")
        BY <4>2, AfterIs
      <4> QED
        BY <3>1, <4>1, <4>3
    <3>3. /\ client' \in Clients /\ client'.at = "reasonLength" /\ client'.got = 0
          /\ client'.error = "noTypes"
      BY <1>1, <3>2 DEF Goes, Clients, Fields, Errors
    <3>4. Length(client') = 2 /\ 1 + client'.got = 1
      BY <3>3, LengthIs
    <3>5. IsReading("reasonLength", m, 1)'
      BY <2>4, <3>3, <3>4 DEF IsReading, Completes
    <3> QED
      BY <1>1, <1>2, <1>3, <2>2, <3>3, <3>5 DEF NoTypes
  <2> QED
    BY <2>2, <2>3, <2>4
<1>7. CASE IsReading("reasonLength", m, 1) /\ client.error = "noTypes"
  <2>1. client.at = "reasonLength"
    BY <1>7 DEF IsReading
  <2>2. Streams' /\ (ReadsMore("reasonLength", m, 1) \/ Completes(m, 3))
    <3>1. PICK start, end : start = 1 /\ end = 3 /\ end = start + Length(client)
      BY <1>5, <1>7
    <3> QED
      BY <1>5, <1>7, <2>1, <3>1, ReadStep
  <2>3. CASE ReadsMore("reasonLength", m, 1)
    BY <1>1, <1>2, <1>3, <1>7, <2>2, <2>3 DEF NoTypes, ReadsMore, SameBut
  <2>4. CASE Completes(m, 3)
    <3>1. PICK g \in Nat : client' = After([client EXCEPT !.got = g], length)
      BY <1>5, <1>7, <2>4 DEF Completes
    <3>2. PICK c : c = [client EXCEPT !.got = g]
      OBVIOUS
    <3>3. c.at = "reasonLength"
      BY <1>1, <2>1, <3>2 DEF Clients
    <3>4. After(c, length) = IF length > 0 THEN Goes([c EXCEPT !.number = length], "reason")
                             ELSE Fails(c, "closed")
      BY <3>3, AfterIs
    <3>5. CASE length > 0
      <4>1. client' = Goes([[client EXCEPT !.got = g] EXCEPT !.number = length], "reason")
        BY <3>1, <3>2, <3>4, <3>5
      <4>2. /\ client' \in Clients /\ client'.at = "reason" /\ client'.got = 0
            /\ client'.number = length /\ client'.error = client.error
        BY <1>1, <1>5, <4>1 DEF Goes, Clients, Fields
      <4>3. Length(client') = length /\ 3 + client'.got = 3
        BY <4>2, LengthIs
      <4>4. IsReading("reason", m, 3)'
        BY <2>4, <3>5, <4>2, <4>3 DEF IsReading, Completes
      <4> QED
        BY <1>1, <1>2, <1>3, <1>7, <2>2, <4>2, <4>4 DEF NoTypes
    <3>6. CASE ~(length > 0)
      <4>1. client' = Fails([client EXCEPT !.got = g], "closed")
        BY <3>1, <3>2, <3>4, <3>6
      <4> QED
        BY <1>1, <1>3, <1>7, <2>2, <4>1, FailsAsBefore
    <3> QED
      BY <3>5, <3>6
  <2> QED
    BY <2>2, <2>3, <2>4
<1>8. CASE IsReading("reason", m, 3) /\ client.number = length /\ client.error = "noTypes"
  <2>1. client.at = "reason"
    BY <1>8 DEF IsReading
  <2>2. Streams' /\ (ReadsMore("reason", m, 3) \/ Completes(m, 3 + length))
    <3>1. PICK start, end : start = 3 /\ end = 3 + length /\ end = start + Length(client)
      BY <1>5, <1>8
    <3> QED
      BY <1>5, <1>8, <2>1, <3>1, ReadStep
  <2>3. CASE ReadsMore("reason", m, 3)
    BY <1>1, <1>2, <1>3, <1>8, <2>2, <2>3 DEF NoTypes, ReadsMore, SameBut
  <2>4. CASE Completes(m, 3 + length)
    <3>1. PICK value : value = m[3 + length].value
      OBVIOUS
    <3>2. PICK g \in Nat : client' = After([client EXCEPT !.got = g], value)
      BY <2>4, <3>1 DEF Completes
    <3>3. client' = Fails([client EXCEPT !.got = g], "closed")
      BY <1>1, <2>1, <3>2, AfterIs DEF Clients
    <3> QED
      BY <1>1, <1>3, <1>8, <2>2, <3>3, FailsAsBefore
  <2> QED
    BY <2>2, <2>3, <2>4
<1> QED
  BY <1>4, <1>6, <1>7, <1>8

LEMMA ReadsInRefused ==
    ASSUME IInv, TypesAreOffered, Read, NEW length \in Lengths, Refused(length)
    PROVE  Streams' /\ client' \in Clients /\ (Refused(length)' \/ Failed')
<1>1. client \in Clients /\ Agreement /\ ~server.accepts /\ toServer = <<>>
  BY DEF Refused, IInv
<1>2. PICK version \in {V37, V38} : version = client.version
  BY DEF Refused, Agreement, TypesAreOffered, IInv, Servers
<1>3. PICK m : m = Refusal(version, length)
  OBVIOUS
<1>4. UNCHANGED <<backend, server, toServer>>
  BY ReadNeedsUnits DEF IInv
<1>5. \/ IsReading("result", m, 0) /\ client.error = "none"
      \/ /\ version = V38 /\ client.error = "rejected"
         /\ \/ IsReading("reasonLength", m, 2)
            \/ IsReading("reason", m, 4) /\ client.number = length
  BY <1>2, <1>3 DEF Refused
<1>6. /\ length \in Nat
      /\ IsReading("result", m, 0) => Reads(m, 0) /\ Length(client) = 2 /\ m[2].value = FALSE
      /\ version = V38 /\ IsReading("reasonLength", m, 2) =>
           Reads(m, 2) /\ Length(client) = 2 /\ m[4].value = length
      /\ version = V38 /\ IsReading("reason", m, 4) /\ client.number = length =>
           Reads(m, 4) /\ Length(client) = length
  BY <1>3, ReadsRefusal
<1>7. ASSUME client'.version = client.version
      PROVE  Agreement' /\ ~server'.accepts /\ toServer' = <<>> /\ m = Refusal(client'.version, length)
  BY <1>1, <1>2, <1>3, <1>4, <1>7 DEF Agreement
<1>8. CASE IsReading("result", m, 0) /\ client.error = "none"
  <2>1. client.at = "result"
    BY <1>8 DEF IsReading
  <2>2. Streams' /\ (ReadsMore("result", m, 0) \/ Completes(m, 2))
    <3>1. PICK start, end : start = 0 /\ end = 2 /\ end = start + Length(client)
      BY <1>6, <1>8
    <3> QED
      BY <1>6, <1>8, <2>1, <3>1, ReadStep
  <2>3. CASE ReadsMore("result", m, 0)
    BY <1>7, <1>8, <2>2, <2>3 DEF Refused, ReadsMore, SameBut
  <2>4. CASE Completes(m, 2)
    <3>1. PICK g \in Nat : client' = After([client EXCEPT !.got = g], FALSE)
      BY <1>6, <1>8, <2>4 DEF Completes
    <3>2. PICK c : c = [client EXCEPT !.got = g]
      OBVIOUS
    <3>3. c.at = "result" /\ c.version = client.version
      BY <1>1, <2>1, <3>2 DEF Clients
    <3>4. client' = AfterResult(c, FALSE)
      BY <3>1, <3>2, <3>3, AfterIs
    <3>5. CASE version = V38
      <4>1. Is3Point8OrHigher(c.version)
        BY <1>2, <3>3, <3>5 DEF Is3Point8OrHigher, V38
      <4>2. client' = Goes([c EXCEPT !.error = "rejected"], "reasonLength")
        BY <3>4, <4>1 DEF AfterResult
      <4>3. /\ client' \in Clients /\ client'.at = "reasonLength" /\ client'.got = 0
            /\ client'.error = "rejected" /\ client'.version = client.version
        BY <1>1, <3>2, <4>2 DEF Goes, Clients, Fields, Errors
      <4>4. Length(client') = 2 /\ 2 + client'.got = 2
        BY <4>3, LengthIs
      <4>5. IsReading("reasonLength", m, 2)'
        BY <2>4, <4>3, <4>4 DEF IsReading, Completes
      <4> QED
        BY <1>2, <1>7, <2>2, <3>5, <4>3, <4>5 DEF Refused
    <3>6. CASE version # V38
      <4>1. ~Is3Point8OrHigher(c.version)
        BY <1>2, <3>3, <3>6 DEF Is3Point8OrHigher, V37
      <4>2. client' = Fails([c EXCEPT !.error = "rejected"], "rejected")
        BY <3>4, <4>1 DEF AfterResult
      <4>3. client' \in Clients /\ client'.at = "failed" /\ client'.error = "rejected"
        BY <1>1, <3>2, <4>2 DEF Fails, Clients, Errors
      <4>4. Failed'
        BY <1>1, <1>4, <4>3 DEF Failed, FailsForAReason
      <4> QED
        BY <2>2, <4>3, <4>4
    <3> QED
      BY <3>5, <3>6
  <2> QED
    BY <2>2, <2>3, <2>4
<1>9. CASE version = V38 /\ client.error = "rejected" /\ IsReading("reasonLength", m, 2)
  <2>1. client.at = "reasonLength"
    BY <1>9 DEF IsReading
  <2>2. Streams' /\ (ReadsMore("reasonLength", m, 2) \/ Completes(m, 4))
    <3>1. PICK start, end : start = 2 /\ end = 4 /\ end = start + Length(client)
      BY <1>6, <1>9
    <3> QED
      BY <1>6, <1>9, <2>1, <3>1, ReadStep
  <2>3. CASE ReadsMore("reasonLength", m, 2)
    BY <1>2, <1>7, <1>9, <2>2, <2>3 DEF Refused, ReadsMore, SameBut
  <2>4. CASE Completes(m, 4)
    <3>1. PICK g \in Nat : client' = After([client EXCEPT !.got = g], length)
      BY <1>6, <1>9, <2>4 DEF Completes
    <3>2. PICK c : c = [client EXCEPT !.got = g]
      OBVIOUS
    <3>3. c.at = "reasonLength"
      BY <1>1, <2>1, <3>2 DEF Clients
    <3>4. After(c, length) = IF length > 0 THEN Goes([c EXCEPT !.number = length], "reason")
                             ELSE Fails(c, "closed")
      BY <3>3, AfterIs
    <3>5. CASE length > 0
      <4>1. client' = Goes([[client EXCEPT !.got = g] EXCEPT !.number = length], "reason")
        BY <3>1, <3>2, <3>4, <3>5
      <4>2. /\ client' \in Clients /\ client'.at = "reason" /\ client'.got = 0
            /\ client'.number = length /\ client'.error = client.error
            /\ client'.version = client.version
        BY <1>1, <1>6, <4>1 DEF Goes, Clients, Fields
      <4>3. Length(client') = length /\ 4 + client'.got = 4
        BY <4>2, LengthIs
      <4>4. IsReading("reason", m, 4)'
        BY <2>4, <3>5, <4>2, <4>3 DEF IsReading, Completes
      <4> QED
        BY <1>2, <1>7, <1>9, <2>2, <4>2, <4>4 DEF Refused
    <3>6. CASE ~(length > 0)
      <4>1. client' = Fails([client EXCEPT !.got = g], "closed")
        BY <3>1, <3>2, <3>4, <3>6
      <4> QED
        BY <1>1, <1>4, <1>9, <2>2, <4>1, FailsAsBefore
    <3> QED
      BY <3>5, <3>6
  <2> QED
    BY <2>2, <2>3, <2>4
<1>10. CASE /\ version = V38 /\ client.error = "rejected"
            /\ IsReading("reason", m, 4) /\ client.number = length
  <2>1. client.at = "reason"
    BY <1>10 DEF IsReading
  <2>2. Streams' /\ (ReadsMore("reason", m, 4) \/ Completes(m, 4 + length))
    <3>1. PICK start, end : start = 4 /\ end = 4 + length /\ end = start + Length(client)
      BY <1>6, <1>10
    <3> QED
      BY <1>6, <1>10, <2>1, <3>1, ReadStep
  <2>3. CASE ReadsMore("reason", m, 4)
    BY <1>2, <1>7, <1>10, <2>2, <2>3 DEF Refused, ReadsMore, SameBut
  <2>4. CASE Completes(m, 4 + length)
    <3>1. PICK value : value = m[4 + length].value
      OBVIOUS
    <3>2. PICK g \in Nat : client' = After([client EXCEPT !.got = g], value)
      BY <2>4, <3>1 DEF Completes
    <3>3. client' = Fails([client EXCEPT !.got = g], "closed")
      BY <1>1, <2>1, <3>2, AfterIs DEF Clients
    <3> QED
      BY <1>1, <1>4, <1>10, <2>2, <3>3, FailsAsBefore
  <2> QED
    BY <2>2, <2>3, <2>4
<1> QED
  BY <1>5, <1>8, <1>9, <1>10

LEMMA ReadKeeps ==
    ASSUME IInv, TypesAreOffered, Read
    PROVE  IInv'
<1>1. UNCHANGED <<backend, server, toServer>> /\ Len(Stream) # 0
  BY ReadNeedsUnits DEF IInv
<1>2. CASE client.error = "none" /\ Together
  <2>1. ~Greeting
    BY <1>1, EmptySeq DEF Greeting
  <2>2. CASE Version /\ Was("version")
    BY <1>1, <1>2, <2>2, ReadsInVersion DEF IInv, Place, Together, Was
  <2>3. CASE SecurityType /\ Was("type")
    BY <1>1, <1>2, <2>3, ReadsInSecurityType DEF IInv, Place, Together, Was
  <2>4. CASE Response /\ Was("response")
    BY <1>1, <1>2, <2>4, ReadsInResponse DEF IInv, Place, Together, Was
  <2>5. CASE Initialisation /\ Was("init")
    BY <1>1, <1>2, <2>5, ReadsInInitialisation DEF IInv, Place, Together, Was
  <2>6. ASSUME NEW length \in Lengths, Session(length), Was("session") PROVE IInv'
    BY <1>1, <1>2, <2>6, ReadsInSession DEF IInv, Place, Together, Was
  <2> QED
    BY <1>2, <2>1, <2>2, <2>3, <2>4, <2>5, <2>6 DEF Together
<1>3. ASSUME NEW length \in Lengths, NoTypes(length), ~server.gaveUp, server.at = "closed"
      PROVE  IInv'
  BY <1>1, <1>3, ReadsInNoTypes DEF IInv, Place
<1>4. ASSUME NEW length \in Lengths, Refused(length), ~server.gaveUp, server.at = "closed"
      PROVE  IInv'
  BY <1>1, <1>4, ReadsInRefused DEF IInv, Place
<1>5. ~Failed
  BY DEF Failed, Read, Reading, Fields, ChallengeFields
<1> QED
  BY <1>2, <1>3, <1>4, <1>5 DEF IInv, Place

-----------------------------------------------------------------------------
(***************************************************************************)
(* The client writes, or goes on with a credential.                        *)
(***************************************************************************)
LEMMA WriteMoves ==
    ASSUME IInv, UNCHANGED <<backend, server, wire, arrived>>,
           NEW to \in Places, client' = Goes(client, to)
    PROVE  /\ Streams' /\ backend' \in Backends /\ server' \in Servers
           /\ GoneTo(client', client, to)
           /\ \A place, message : IsAt(place, message) => IsAt(to, message)'
<1>1. Streams' /\ Stream' = Stream
  BY StreamStays DEF IInv
<1>2. \A message, p : HasRead(message, p) => HasRead(message, p)'
  BY <1>1 DEF HasRead
<1>3. GoneTo(client', client, to)
  BY GoesOn DEF IInv
<1> QED
  BY <1>1, <1>2, <1>3 DEF IsAt, GoneTo, IInv

LEMMA AppendToOne ==
    ASSUME NEW a, NEW b
    PROVE  Append(<<a>>, b) = <<a, b>>
<1>1. PICK S, s, t, u : S = {a, b} /\ s = <<a>> /\ t = <<a, b>> /\ u = Append(s, b)
  OBVIOUS
<1>2. /\ s \in Seq(S) /\ t \in Seq(S) /\ b \in S
      /\ Len(s) = 1 /\ Len(t) = 2 /\ s[1] = a /\ t[1] = a /\ t[2] = b
  BY <1>1
<1>3. /\ u \in Seq(S) /\ Len(u) = Len(s) + 1 /\ u[Len(s) + 1] = b
      /\ \A i \in 1..Len(s) : u[i] = s[i]
  BY <1>1, <1>2, AppendProperties
<1>4. Len(u) = 2 /\ u[1] = a /\ u[2] = b
  BY <1>2, <1>3
<1>5. u = t
  BY <1>2, <1>3, <1>4, SeqEqual
<1> QED
  BY <1>1, <1>5

LEMMA SendVersionKeeps ==
    ASSUME IInv, SendVersion
    PROVE  IInv'
<1>1. /\ client.at = "sendVersion" /\ client' = Goes(client, "count")
      /\ toServer' = Append(toServer, VersionMessage)
      /\ UNCHANGED <<backend, server, wire, arrived>>
  BY DEF SendVersion, Writing, VersionMessage
<1>2. client.error = "none" /\ Was("version") /\ Version
  BY <1>1, PlaceOfWrite DEF Writes
<1>3. PICK m : m = Units("version", server.version, 2)
  OBVIOUS
<1>4. /\ client.version = Agreed(server.version) /\ IsAt("sendVersion", m)
      /\ toServer = <<>> /\ client.seen = {}
  BY <1>1, <1>2, <1>3 DEF Version, IsReading, IsAt
<1>5. /\ Streams' /\ backend' \in Backends /\ server' \in Servers
      /\ GoneTo(client', client, "count")
      /\ \A place, message : IsAt(place, message) => IsAt("count", message)'
  BY <1>1, WriteMoves DEF Places, Fields
<1>6. IsAt("count", m)'
  BY <1>4, <1>5
<1>7. toServer' = <<VersionMessage'>>
  BY <1>1, <1>4, <1>5 DEF VersionMessage, GoneTo
<1>8. Version' /\ Was("version")' /\ client'.error = "none"
  BY <1>1, <1>2, <1>3, <1>4, <1>5, <1>6, <1>7 DEF Version, Was, GoneTo
<1> QED
  BY <1>5, <1>8 DEF IInv, Place, Together, GoneTo

LEMMA SendTypeKeeps ==
    ASSUME IInv, SendType
    PROVE  IInv'
<1>1. /\ client.at = "sendType" /\ client' = Goes(client, AfterTypeIsSent)
      /\ toServer' = Append(toServer, TypeMessage)
      /\ UNCHANGED <<backend, server, wire, arrived>>
  BY DEF SendType, Writing, TypeMessage, AfterTypeIsSent, AfterAuthentication
<1>2. client.error = "none" /\ Was("type") /\ SecurityType
  BY <1>1, PlaceOfWrite DEF Writes
<1>3. PICK m, to : m = Offering(server.offer) /\ to = AfterTypeIsSent
  OBVIOUS
<1>4. AfterTypeIsSent \in {"challenge", "generator", "gen", "result", "sendInit"}
  BY DEF AfterTypeIsSent, Challenge
<1>5. /\ Agreement /\ server.offer # {} /\ client.type = Decided(server.offer)
      /\ client.type # "invalid" /\ IsAt("sendType", m) /\ toServer = <<>>
  BY <1>1, <1>2, <1>3, <1>4 DEF SecurityType, IsReading, IsAt
<1>6. to \in Places
  BY <1>3, <1>4 DEF Places, Fields, ChallengeFields, Writes
<1>7. /\ Streams' /\ backend' \in Backends /\ server' \in Servers
      /\ GoneTo(client', client, to)
      /\ \A place, message : IsAt(place, message) => IsAt(to, message)'
  BY <1>1, <1>3, <1>6, WriteMoves
<1>8. AfterTypeIsSent' = to /\ TypeMessage' = TypeMessage /\ Agreement'
  BY <1>1, <1>3, <1>5, <1>7 DEF AfterTypeIsSent, TypeMessage, Agreement, GoneTo
<1>9. IsAt(to, m)' /\ toServer' = <<TypeMessage'>>
  BY <1>1, <1>5, <1>7, <1>8
<1>10. SecurityType' /\ Was("type")' /\ client'.error = "none"
  BY <1>1, <1>2, <1>3, <1>5, <1>7, <1>8, <1>9 DEF SecurityType, Was, GoneTo
<1> QED
  BY <1>7, <1>10 DEF IInv, Place, Together, GoneTo

LEMMA CredentialKeeps ==
    ASSUME IInv, CredentialAnswered, client' = Goes(client, "sendResponse")
    PROVE  IInv'
<1>1. /\ client.at = "credential" /\ UNCHANGED <<backend, server, toServer, wire, arrived>>
  BY DEF CredentialAnswered
<1>2. client.error = "none" /\ Was("response") /\ Response
  BY <1>1, PlaceOfWrite
<1>3. PICK m : m = Challenging(client.type, 2)
  OBVIOUS
<1>4. client.at \notin ToSet(Challenge(client.type))
  <2>1. client.type \in {"vnc", "diffieHellman", "ultraVNCMSLogonII"}
    BY <1>2, ChallengesAre DEF Response
  <2> QED
    BY <1>1, <2>1, ChallengeFieldsAre
<1>5. Agreement /\ SameType /\ client.type # "none" /\ IsAt("credential", m) /\ toServer = <<>>
  BY <1>1, <1>2, <1>3, <1>4 DEF Response, ReadsChallenge, IsAt
<1>6. /\ Streams' /\ backend' \in Backends /\ server' \in Servers
      /\ GoneTo(client', client, "sendResponse")
      /\ \A place, message : IsAt(place, message) => IsAt("sendResponse", message)'
  BY <1>1, WriteMoves DEF Places, Writes
<1>7. IsAt("sendResponse", m)'
  BY <1>5, <1>6
<1>8. Response' /\ Was("response")' /\ client'.error = "none"
  BY <1>1, <1>2, <1>3, <1>5, <1>6, <1>7 DEF Response, Agreement, SameType, Was, GoneTo
<1> QED
  BY <1>6, <1>8 DEF IInv, Place, Together, GoneTo

LEMMA SendResponseKeeps ==
    ASSUME IInv, SendResponse
    PROVE  IInv'
<1>1. /\ client.at = "sendResponse" /\ client' = AfterAuthentication(client)
      /\ toServer' = Append(toServer, [kind |-> "response"])
      /\ UNCHANGED <<backend, server, wire, arrived>>
  BY DEF SendResponse, Writing
<1>2. client.error = "none" /\ Was("response") /\ Response
  BY <1>1, PlaceOfWrite DEF Writes
<1>3. PICK m : m = Challenging(client.type, 2)
  OBVIOUS
<1>4. client.at \notin ToSet(Challenge(client.type))
  <2>1. client.type \in {"vnc", "diffieHellman", "ultraVNCMSLogonII"}
    BY <1>2, ChallengesAre DEF Response
  <2> QED
    BY <1>1, <2>1, ChallengeFieldsAre
<1>5. Agreement /\ SameType /\ client.type # "none" /\ IsAt("sendResponse", m) /\ toServer = <<>>
  BY <1>1, <1>2, <1>3, <1>4 DEF Response, ReadsChallenge, IsAt
<1>6. client' = Goes(client, "result")
  BY <1>1, <1>5 DEF AfterAuthentication, ResultExpected
<1>7. /\ Streams' /\ backend' \in Backends /\ server' \in Servers
      /\ GoneTo(client', client, "result")
      /\ \A place, message : IsAt(place, message) => IsAt("result", message)'
  BY <1>1, <1>6, WriteMoves DEF Places, Fields
<1>8. IsAt("result", m)' /\ toServer' = <<[kind |-> "response"]>>
  BY <1>1, <1>5, <1>7
<1>9. Response' /\ Was("response")' /\ client'.error = "none"
  BY <1>1, <1>2, <1>3, <1>5, <1>7, <1>8 DEF Response, Agreement, SameType, Was, GoneTo
<1> QED
  BY <1>7, <1>9 DEF IInv, Place, Together, GoneTo

LEMMA SendInitKeeps ==
    ASSUME IInv, SendInit
    PROVE  IInv'
<1>1. /\ client.at = "sendInit" /\ client' = Goes(client, "size")
      /\ toServer' = Append(toServer, [kind |-> "init"])
      /\ UNCHANGED <<backend, server, wire, arrived>>
  BY DEF SendInit, Writing
<1>2. /\ client.error = "none"
      /\ (Was("type") /\ SecurityType) \/ (Was("init") /\ Initialisation)
  BY <1>1, PlaceOfWrite DEF Writes
<1>3. /\ Streams' /\ backend' \in Backends /\ server' \in Servers
      /\ GoneTo(client', client, "size")
      /\ \A place, message : IsAt(place, message) => IsAt("size", message)'
  BY <1>1, WriteMoves DEF Places, Fields
<1>4. CASE Was("type") /\ SecurityType
  <2>1. PICK m : m = Offering(server.offer)
    OBVIOUS
  <2>2. /\ Agreement /\ server.offer # {} /\ client.type = Decided(server.offer)
        /\ client.type # "invalid" /\ AfterTypeIsSent = "sendInit"
        /\ IsAt("sendInit", m) /\ toServer = <<TypeMessage>>
    BY <1>1, <1>4, <2>1 DEF SecurityType, IsReading, IsAt
  <2>3. IsAt("size", m)' /\ toServer' = <<TypeMessage, [kind |-> "init"]>>
    <3>1. PICK a, b : a = TypeMessage /\ b = [kind |-> "init"]
      OBVIOUS
    <3>2. toServer' = Append(<<a>>, b)
      BY <1>1, <2>2, <3>1
    <3>3. Append(<<a>>, b) = <<a, b>>
      BY AppendToOne
    <3>4. toServer' = <<a, b>>
      BY <3>2, <3>3
    <3> QED
      BY <1>3, <2>2, <3>1, <3>4
  <2>4. AfterTypeIsSent' = "sendInit" /\ TypeMessage' = TypeMessage /\ Agreement'
    BY <1>1, <1>3, <2>2 DEF AfterTypeIsSent, TypeMessage, Agreement, GoneTo
  <2>5. SecurityType' /\ Was("type")' /\ client'.error = "none"
    BY <1>1, <1>2, <1>3, <1>4, <2>1, <2>2, <2>3, <2>4 DEF SecurityType, Was, GoneTo
  <2> QED
    BY <1>3, <2>5 DEF IInv, Place, Together, GoneTo
<1>5. CASE Was("init") /\ Initialisation
  <2>1. PICK m :
          m = IF ResultExpected(client.type, client.version) THEN Units("result", TRUE, 2) ELSE <<>>
    OBVIOUS
  <2>2. Agreement /\ SameType /\ Accepted /\ IsAt("sendInit", m) /\ toServer = <<>>
    BY <1>1, <1>5, <2>1 DEF Initialisation, IsReading, IsAt
  <2>3. IsAt("size", m)' /\ toServer' = <<[kind |-> "init"]>>
    BY <1>1, <1>3, <2>2
  <2>4. Agreement' /\ SameType' /\ Accepted'
    BY <1>1, <1>3, <2>2 DEF Agreement, SameType, Accepted, GoneTo
  <2>5. m = IF ResultExpected(client'.type, client'.version) THEN Units("result", TRUE, 2) ELSE <<>>
    BY <1>3, <2>1 DEF GoneTo
  <2>6. Initialisation' /\ Was("init")' /\ client'.error = "none"
    BY <1>1, <1>2, <1>3, <1>5, <2>3, <2>4, <2>5 DEF Initialisation, Was, GoneTo
  <2> QED
    BY <1>3, <2>6 DEF IInv, Place, Together, GoneTo
<1> QED
  BY <1>2, <1>4, <1>5

LEMMA SessionGrows ==
    ASSUME SessionFollows, toServer' = Append(toServer, [kind |-> "session"])
    PROVE  SessionFollows'
<1>1. PICK S, s, elt : S = {[kind |-> "session"]} /\ s = toServer /\ elt = [kind |-> "session"]
  OBVIOUS
<1>2. Append(s, elt) \in Seq(S)
  BY <1>1, AppendProperties DEF SessionFollows
<1> QED
  BY <1>1, <1>2 DEF SessionFollows

LEMMA SessionShrinks ==
    ASSUME SessionFollows, toServer # <<>>
    PROVE  Tail(toServer) \in Seq({[kind |-> "session"]}) /\ Head(toServer).kind = "session"
<1>1. PICK S, s : S = {[kind |-> "session"]} /\ s = toServer
  OBVIOUS
<1>2. Tail(s) \in Seq(S) /\ Head(s) \in S
  BY <1>1, HeadTailProperties DEF SessionFollows
<1> QED
  BY <1>1, <1>2

(* Both messages are sent when the client takes the session for begun. *)
LEMMA SessionMessagesKeep ==
    ASSUME IInv, NEW to \in {"sendEncodings", "connected"},
           \/ Writing("sendFormat", [kind |-> "session"], Goes(client, to))
           \/ Writing("sendEncodings", [kind |-> "session"], Goes(client, to))
    PROVE  IInv'
<1>1. /\ client.at \in {"sendFormat", "sendEncodings"} /\ client' = Goes(client, to)
      /\ toServer' = Append(toServer, [kind |-> "session"])
      /\ UNCHANGED <<backend, server, wire, arrived>>
  BY DEF Writing
<1>2. client.error = "none" /\ Was("session") /\ \E length \in Lengths : Session(length)
  BY <1>1, PlaceOfWrite DEF Writes
<1>3. PICK length \in Lengths : Session(length)
  BY <1>2
<1>4. PICK m : m = ServerInit(length)
  OBVIOUS
<1>5. /\ Agreement /\ SameType /\ Accepted /\ IsAt(client.at, m)
      /\ toServer \in Seq({[kind |-> "session"]})
  BY <1>1, <1>3, <1>4 DEF Session, IsReading, IsAt
<1>6. /\ Streams' /\ backend' \in Backends /\ server' \in Servers
      /\ GoneTo(client', client, to)
      /\ \A place, message : IsAt(place, message) => IsAt(to, message)'
  BY <1>1, WriteMoves DEF Places, Writes
<1>7. IsAt(to, m)'
  BY <1>5, <1>6
<1>8. toServer' \in Seq({[kind |-> "session"]})
  BY <1>1, <1>5, SessionGrows DEF SessionFollows
<1>9. Session(length)' /\ Was("session")' /\ client'.error = "none"
  BY <1>1, <1>2, <1>4, <1>5, <1>6, <1>7, <1>8
     DEF Session, Agreement, SameType, Accepted, Was, GoneTo
<1> QED
  BY <1>6, <1>9 DEF IInv, Place, Together, GoneTo

(* No framebuffer: the handshake fails with both messages sent. *)
LEMMA NoFramebufferKeeps ==
    ASSUME IInv, Writing("sendEncodings", [kind |-> "session"], Fails(client, "setup"))
    PROVE  IInv'
<1>1. /\ client.at = "sendEncodings" /\ client' = Fails(client, "setup")
      /\ toServer' = Append(toServer, [kind |-> "session"])
      /\ UNCHANGED <<backend, server, wire, arrived>>
  BY DEF Writing
<1>2. client.error = "none"
  BY <1>1, PlaceOfWrite DEF Writes
<1>3. /\ server.agreed = client.version /\ server.type = client.type /\ SessionFollows
      /\ server.at # "closed" => server.at = "session"
  BY <1>1, SessionIsOn
<1>4. SessionFollows'
  BY <1>1, <1>3, SessionGrows
<1>5. Fails(client, "setup") \in Clients
  BY ZenonT(30) DEF Fails, Clients, Errors, IInv
<1>6. /\ client'.at = "failed" /\ client'.error = "setup"
      /\ client'.version = client.version /\ client'.type = client.type
  BY <1>1, <1>2 DEF Fails, Clients, IInv
<1>7. Failed'
  BY <1>1, <1>3, <1>4, <1>6, OwnFault
<1>8. Streams'
  BY <1>1 DEF IInv, Streams
<1> QED
  BY <1>1, <1>5, <1>7, <1>8 DEF IInv, Place

-----------------------------------------------------------------------------
(***************************************************************************)
(* The server hears and responds.                                          *)
(***************************************************************************)
LEMMA TailOfOne ==
    ASSUME NEW a
    PROVE  Tail(<<a>>) = <<>> /\ Head(<<a>>) = a /\ <<a>> # <<>>
OBVIOUS

LEMMA TailOfTwo ==
    ASSUME NEW a, NEW b
    PROVE  Tail(<<a, b>>) = <<b>> /\ Head(<<a, b>>) = a /\ <<a, b>> # <<>>
OBVIOUS

(* During the handshake the server hears nothing of a client that has failed. *)
LEMMA HearsTogether ==
    ASSUME IInv, NEW kind \in {"version", "type", "response", "init", "session"}, Hears(kind),
           kind = "session" => ~Failed
    PROVE  /\ client.error = "none" /\ ~server.gaveUp /\ server.at = kind /\ server.at # "closed"
           /\ kind = "version" => Version
           /\ kind = "type" => SecurityType
           /\ kind = "response" => Response
           /\ kind = "init" => Initialisation
           /\ kind = "session" => \E length \in Lengths : Session(length)
<1>1. server.at = kind /\ server.at # "closed" /\ toServer # <<>>
  BY DEF Hears
<1>2. ~Failed
  BY <1>1 DEF Failed
<1>3. client.error = "none" /\ Together
  BY <1>1, <1>2 DEF IInv, Place
<1>4. ~server.gaveUp
  BY <1>1, <1>3 DEF Together, Was
<1> QED
  BY <1>1, <1>3, <1>4 DEF Together, Was

(* The client finds all of the server's next message in the stream. *)
LEMMA WholeMessage ==
    ASSUME IInv, Len(Stream) = 0, NEW message \in Seq(Unit), NEW next \in Servers,
           Responds(next, message)
    PROVE  /\ Streams' /\ client' = client /\ server' = next
           /\ backend' \in Backends /\ client' \in Clients /\ server' \in Servers
           /\ HasRead(message, 0)'
<1>1. server' = next /\ wire' = wire \o message /\ UNCHANGED <<backend, client, arrived>>
  BY DEF Responds
<1>2. Streams' /\ Stream' = message
  BY <1>1, RespondsWrites DEF IInv
<1>3. HasRead(message, 0)'
  <2>1. Left(message, message, 0)
    BY LeftWhole
  <2>2. Len(message) = Len(message) - 0
    OBVIOUS
  <2> QED
    BY <1>2, <2>1, <2>2 DEF HasRead
<1> QED
  BY <1>1, <1>2, <1>3 DEF IInv

(* The client, which waits for this field, begins to read the message. *)
LEMMA BeginsToRead ==
    ASSUME NEW field, NEW message, client' = client, client.at = field, client.got = 0,
           Length(client) \in Nat \ {0}, HasRead(message, 0)'
    PROVE  IsReading(field, message, 0)'
<1>1. 0 + client'.got = 0 /\ client'.got < Length(client')
  OBVIOUS
<1> QED
  BY <1>1 DEF IsReading

LEMMA GreetKeeps ==
    ASSUME IInv, Greet
    PROVE  IInv'
<1>1. PICK m, next : m = Units("version", server.version, 2) /\ next = [server EXCEPT !.at = "version"]
  OBVIOUS
<1>2. server.at = "greets" /\ Responds(next, m) /\ UNCHANGED toServer
  BY <1>1 DEF Greet
<1>3. /\ m \in Seq(Unit) /\ next \in Servers /\ next.at = "version"
      /\ next.gaveUp = server.gaveUp /\ next.version = server.version /\ next.offer = server.offer
      /\ next.accepts = server.accepts /\ next.agreed = server.agreed /\ next.type = server.type
  BY <1>1, MessagesAre DEF IInv, Servers
<1>4. CASE client.error = "none" /\ Was("greets") /\ Greeting
  <2>1. /\ client.at = "version" /\ client.got = 0 /\ client.seen = {} /\ Len(Stream) = 0
        /\ toServer = <<>>
    BY <1>4, EmptySeq DEF Greeting
  <2>2. /\ Streams' /\ client' = client /\ server' = next
        /\ backend' \in Backends /\ client' \in Clients /\ server' \in Servers
        /\ HasRead(m, 0)'
    BY <1>2, <1>3, <2>1, WholeMessage
  <2>3. Length(client) = 2
    BY <2>1, LengthIs
  <2>4. IsReading("version", m, 0)'
    BY <2>1, <2>2, <2>3, BeginsToRead
  <2>5. Version' /\ Was("version")' /\ client'.error = "none"
    BY <1>1, <1>2, <1>3, <1>4, <2>1, <2>2, <2>4 DEF Version, Was
  <2> QED
    BY <2>2, <2>5 DEF IInv, Place, Together
<1>5. CASE Failed
  <2>1. server' = next /\ wire' = wire \o m /\ UNCHANGED <<backend, client, arrived, toServer>>
    BY <1>2 DEF Responds
  <2>2. Streams'
    <3>1. wire \o m \in Seq(Unit)
      BY <1>3, Joined DEF IInv, Streams, Joins
    <3> QED
      BY <2>1, <3>1 DEF IInv, Streams
  <2>3. Failed'
    BY <1>2, <1>3, <1>5, <2>1 DEF Failed, FailsForAReason
  <2> QED
    BY <1>3, <2>1, <2>2, <2>3 DEF IInv, Place
<1> QED
  BY <1>2, <1>4, <1>5 DEF IInv, Place, Together, Was

LEMMA HearVersionKeeps ==
    ASSUME IInv, TypesAreOffered, HearVersion
    PROVE  IInv'
<1>1. Hears("version")
  BY DEF HearVersion
<1>2. /\ client.error = "none" /\ ~server.gaveUp /\ server.at = "version" /\ Version
      /\ toServer # <<>> /\ toServer' = Tail(toServer)
  BY <1>1, HearsTogether DEF Hears
<1>3. PICK m : m = Units("version", server.version, 2)
  OBVIOUS
<1>4. /\ client.seen = {} /\ client.version = Agreed(server.version)
      /\ IsAt("count", m) /\ toServer = <<VersionMessage>>
  BY <1>2, <1>3 DEF Version
<1>5. client.at = "count" /\ client.got = 0 /\ Len(Stream) = 0 /\ Length(client) = 1
  BY <1>3, <1>4, NothingLeft, LengthIs, MessagesAre DEF IsAt, IInv
<1>6. toServer' = <<>> /\ Head(toServer).value = client.version
  <2>1. Head(<<VersionMessage>>) = VersionMessage /\ Tail(<<VersionMessage>>) = <<>>
    BY TailOfOne
  <2> QED
    BY <1>2, <1>4, <2>1 DEF VersionMessage
<1>7. client.version \in {V37, V38}
  BY <1>4 DEF TypesAreOffered, IInv, Servers
<1>8. PICK next : next = [server EXCEPT !.agreed = client.version]
  OBVIOUS
<1>9. next.agreed = client.version /\ ~(next.agreed.minor < 7)
  BY <1>7, <1>8 DEF IInv, Servers, V37, V38
<1>10. \E length \in Lengths :
         IF server.offer = {}
         THEN Responds([next EXCEPT !.at = "closed"], NothingOffered(length))
         ELSE Responds([next EXCEPT !.at = "type"], Offering(server.offer))
  BY <1>6, <1>8, <1>9, Zenon DEF HearVersion, NothingOffered
<1>11. PICK length \in Lengths :
         IF server.offer = {}
         THEN Responds([next EXCEPT !.at = "closed"], NothingOffered(length))
         ELSE Responds([next EXCEPT !.at = "type"], Offering(server.offer))
  BY <1>10
<1>12. ASSUME NEW to \in {"closed", "type"}, NEW last, last = [next EXCEPT !.at = to]
       PROVE  /\ last \in Servers /\ last.at = to /\ ~last.gaveUp /\ last.agreed = client.version
              /\ last.version = server.version /\ last.offer = server.offer
  <2>1. client.version \in [major : Nat, minor : Nat]
    BY <1>7 DEF V37, V38
  <2>2. /\ next \in Servers /\ ~next.gaveUp /\ next.agreed = client.version
        /\ next.version = server.version /\ next.offer = server.offer
    BY <1>2, <1>8, <2>1 DEF IInv, Servers
  <2> QED
    BY <1>12, <2>2 DEF Servers
<1>13. CASE server.offer = {}
  <2>1. PICK last, message :
          last = [next EXCEPT !.at = "closed"] /\ message = NothingOffered(length)
    OBVIOUS
  <2>2. message \in Seq(Unit) /\ Responds(last, message)
    BY <1>11, <1>13, <2>1, MessagesAre
  <2>3. last \in Servers /\ last.at = "closed" /\ ~last.gaveUp /\ last.offer = server.offer
    BY <1>12, <2>1
  <2>4. /\ Streams' /\ client' = client /\ server' = last
        /\ backend' \in Backends /\ client' \in Clients /\ server' \in Servers
        /\ HasRead(message, 0)'
    BY <1>5, <2>2, <2>3, WholeMessage
  <2>5. IsReading("count", message, 0)'
    BY <1>5, <2>4, BeginsToRead
  <2>6. NoTypes(length)'
    BY <1>2, <1>6, <1>13, <2>1, <2>3, <2>4, <2>5 DEF NoTypes
  <2> QED
    BY <2>3, <2>4, <2>6 DEF IInv, Place
<1>14. CASE server.offer # {}
  <2>1. PICK last, message :
          last = [next EXCEPT !.at = "type"] /\ message = Offering(server.offer)
    OBVIOUS
  <2>2. message \in Seq(Unit) /\ Responds(last, message)
    BY <1>11, <1>14, <2>1, MessagesAre
  <2>3. /\ last \in Servers /\ last.at = "type" /\ ~last.gaveUp /\ last.agreed = client.version
        /\ last.version = server.version /\ last.offer = server.offer
    BY <1>12, <2>1
  <2>4. /\ Streams' /\ client' = client /\ server' = last
        /\ backend' \in Backends /\ client' \in Clients /\ server' \in Servers
        /\ HasRead(message, 0)'
    BY <1>5, <2>2, <2>3, WholeMessage
  <2>5. IsReading("count", message, 0)'
    BY <1>5, <2>4, BeginsToRead
  <2>6. SecurityType' /\ Was("type")' /\ client'.error = "none"
    BY <1>2, <1>4, <1>6, <1>14, <2>1, <2>3, <2>4, <2>5 DEF SecurityType, Agreement, Was
  <2> QED
    BY <2>4, <2>6 DEF IInv, Place, Together
<1> QED
  BY <1>13, <1>14

(* The server sends its verdict, and goes on or closes the connection. *)
LEMMA VerdictKeeps ==
    ASSUME IInv, TypesAreOffered, client.error = "none",
           Agreement, client.type \in Types \ {"tight", "other"},
           ResultExpected(client.type, client.version),
           client.at = "result", client.got = 0, Len(Stream) = 0, toServer' = <<>>,
           NEW next \in Servers, ~next.gaveUp, next.agreed = client.version,
           next.version = server.version, next.type = client.type, next.accepts = server.accepts,
           NEW length \in Lengths,
           Responds([next EXCEPT !.at = Result(next, length).to], Result(next, length).units)
    PROVE  IInv'
<1>1. Length(client) = 2
  BY LengthIs
<1>2. ASSUME NEW to \in {"init", "closed"}, NEW last, last = [next EXCEPT !.at = to]
      PROVE  /\ last \in Servers /\ last.at = to /\ ~last.gaveUp /\ last.agreed = client.version
             /\ last.version = server.version /\ last.type = client.type
             /\ last.accepts = server.accepts
  BY <1>2 DEF Servers
<1>3. CASE next.accepts
  <2>1. PICK last, message : /\ last = [next EXCEPT !.at = "init"]
                             /\ message = Units("result", TRUE, 2)
    OBVIOUS
  <2>2. /\ Result(next, length).to = "init"
        /\ Result(next, length).units = Units("result", TRUE, 2)
    BY <1>3 DEF Result
  <2>3. message \in Seq(Unit) /\ Responds(last, message)
    BY <2>1, <2>2, MessagesAre
  <2>4. /\ last \in Servers /\ last.at = "init" /\ ~last.gaveUp /\ last.agreed = client.version
        /\ last.version = server.version /\ last.type = client.type /\ last.accepts
    BY <1>2, <1>3, <2>1
  <2>5. /\ Streams' /\ client' = client /\ server' = last
        /\ backend' \in Backends /\ client' \in Clients /\ server' \in Servers
        /\ HasRead(message, 0)'
    BY <2>3, <2>4, WholeMessage
  <2>6. IsReading("result", message, 0)'
    BY <1>1, <2>5, BeginsToRead
  <2>7. Agreement' /\ SameType' /\ Accepted'
    BY <2>4, <2>5 DEF Agreement, SameType, Accepted
  <2>8. message = IF ResultExpected(client'.type, client'.version)
                  THEN Units("result", TRUE, 2) ELSE <<>>
    BY <2>1, <2>5
  <2>9. Initialisation' /\ Was("init")' /\ client'.error = "none"
    BY <2>4, <2>5, <2>6, <2>7, <2>8 DEF Initialisation, Was
  <2> QED
    BY <2>5, <2>9 DEF IInv, Place, Together
<1>4. CASE ~next.accepts
  <2>1. PICK last, message : /\ last = [next EXCEPT !.at = "closed"]
                             /\ message = Refusal(client.version, length)
    OBVIOUS
  <2>2. /\ Result(next, length).to = "closed"
        /\ Result(next, length).units = message
    BY <1>4, <2>1, Zenon DEF Result, Refusal
  <2>3. client.version \in {V37, V38}
    BY DEF Agreement, TypesAreOffered, IInv, Servers
  <2>4. message \in Seq(Unit) /\ Responds(last, message)
    BY <2>1, <2>2, <2>3, MessagesAre
  <2>5. /\ last \in Servers /\ last.at = "closed" /\ ~last.gaveUp /\ last.agreed = client.version
        /\ last.version = server.version /\ ~last.accepts
    BY <1>2, <1>4, <2>1
  <2>6. /\ Streams' /\ client' = client /\ server' = last
        /\ backend' \in Backends /\ client' \in Clients /\ server' \in Servers
        /\ HasRead(message, 0)'
    BY <2>4, <2>5, WholeMessage
  <2>7. IsReading("result", message, 0)'
    BY <1>1, <2>6, BeginsToRead
  <2>8. Refused(length)'
    BY <2>1, <2>5, <2>6, <2>7 DEF Refused, Agreement
  <2> QED
    BY <2>5, <2>6, <2>8 DEF IInv, Place
<1> QED
  BY <1>3, <1>4

LEMMA HearTypeKeeps ==
    ASSUME IInv, TypesAreOffered, HearType
    PROVE  IInv'
<1>1. Hears("type")
  BY DEF HearType
<1>2. /\ client.error = "none" /\ ~server.gaveUp /\ server.at = "type" /\ SecurityType
      /\ toServer # <<>> /\ toServer' = Tail(toServer)
  BY <1>1, HearsTogether DEF Hears
<1>3. PICK m \in Seq(Unit) : m = Offering(server.offer)
  BY MessagesAre
<1>4. /\ Agreement /\ client.type = Decided(server.offer) /\ client.type # "invalid"
      /\ \/ IsAt(AfterTypeIsSent, m) /\ toServer = <<TypeMessage>>
         \/ /\ IsAt("size", m) /\ AfterTypeIsSent = "sendInit"
            /\ toServer = <<TypeMessage, [kind |-> "init"]>>
  BY <1>2, <1>3 DEF SecurityType
<1>5. /\ Head(toServer).value = client.type /\ Len(Stream) = 0 /\ client.got = 0
      /\ \/ client.at = AfterTypeIsSent /\ toServer' = <<>>
         \/ /\ client.at = "size" /\ AfterTypeIsSent = "sendInit"
            /\ toServer' = <<[kind |-> "init"]>>
  <2>1. PICK a, b : a = TypeMessage /\ b = [kind |-> "init"]
    OBVIOUS
  <2>2. /\ Head(<<a>>) = a /\ Tail(<<a>>) = <<>>
        /\ Head(<<a, b>>) = a /\ Tail(<<a, b>>) = <<b>>
    BY TailOfOne, TailOfTwo
  <2>3. CASE IsAt(AfterTypeIsSent, m) /\ toServer = <<TypeMessage>>
    <3>1. client.at = AfterTypeIsSent /\ Len(Stream) = 0 /\ client.got = 0
      BY <2>3, NothingLeft DEF IInv
    <3> QED
      BY <1>2, <2>1, <2>2, <2>3, <3>1 DEF TypeMessage
  <2>4. CASE /\ IsAt("size", m) /\ AfterTypeIsSent = "sendInit"
             /\ toServer = <<TypeMessage, [kind |-> "init"]>>
    <3>1. client.at = "size" /\ Len(Stream) = 0 /\ client.got = 0
      BY <2>4, NothingLeft DEF IInv
    <3> QED
      BY <1>2, <2>1, <2>2, <2>4, <3>1 DEF TypeMessage
  <2> QED
    BY <1>4, <2>3, <2>4
<1>6. client.type \in Types \ {"tight", "other"}
  BY <1>4, DecidedIs, ConstantsAre DEF IInv, Types
<1>7. client.version \in {V37, V38} /\ server.agreed = client.version
  BY <1>4 DEF Agreement, TypesAreOffered, IInv, Servers
<1>8. PICK next : next = [server EXCEPT !.type = client.type]
  OBVIOUS
<1>9. /\ next \in Servers /\ ~next.gaveUp /\ next.type = client.type
      /\ next.agreed = client.version /\ next.version = server.version
      /\ next.accepts = server.accepts
  BY <1>2, <1>6, <1>7, <1>8 DEF IInv, Servers
<1>10. ASSUME NEW to \in {"response", "init"}, NEW last, last = [next EXCEPT !.at = to]
       PROVE  /\ last \in Servers /\ last.at = to /\ ~last.gaveUp /\ last.agreed = client.version
              /\ last.version = server.version /\ last.type = client.type
              /\ last.accepts = server.accepts
  BY <1>9, <1>10 DEF Servers
<1>11. PICK length \in Lengths :
         CASE next.type # "none" ->
                  Responds([next EXCEPT !.at = "response"], Challenging(next.type, 2))
           [] next.type = "none" /\ next.agreed.minor >= 8 ->
                  Responds([next EXCEPT !.at = Result(next, length).to], Result(next, length).units)
           [] OTHER -> Responds([next EXCEPT !.at = "init"], <<>>)
  BY <1>5, <1>8, Zenon DEF HearType
<1>12. CASE client.type # "none"
  <2>1. PICK last, message : /\ last = [next EXCEPT !.at = "response"]
                             /\ message = Challenging(client.type, 2)
    OBVIOUS
  <2>2. Responds(last, message)
    BY <1>9, <1>11, <1>12, <2>1
  <2>3. /\ last \in Servers /\ last.at = "response" /\ ~last.gaveUp /\ last.agreed = client.version
        /\ last.version = server.version /\ last.type = client.type
    BY <1>10, <2>1
  <2>4. client.type \in {"vnc", "diffieHellman", "ultraVNCMSLogonII"}
    BY <1>6, <1>12 DEF Types
  <2>5. message \in Seq(Unit)
    BY <2>1, <2>4, ChallengeOfVNC, ChallengeOfARD, ChallengeOfUltraVNC DEF FieldsLieIn
  <2>6. /\ Streams' /\ client' = client /\ server' = last
        /\ backend' \in Backends /\ client' \in Clients /\ server' \in Servers
        /\ HasRead(message, 0)'
    BY <1>5, <2>2, <2>3, <2>5, WholeMessage
  <2>7. /\ AfterTypeIsSent \in {"challenge", "generator", "gen"}
        /\ AfterTypeIsSent \in ToSet(Challenge(client.type)) /\ Start(AfterTypeIsSent) = 0
    <3>1. /\ client.type = "vnc" => AfterTypeIsSent = "challenge"
          /\ client.type = "diffieHellman" => AfterTypeIsSent = "generator"
          /\ client.type = "ultraVNCMSLogonII" => AfterTypeIsSent = "gen"
      BY DEF AfterTypeIsSent, Challenge
    <3>2. Start("challenge") = 0 /\ Start("generator") = 0 /\ Start("gen") = 0
      BY DEF Start
    <3> QED
      BY <2>4, <3>1, <3>2, ChallengeFieldsAre
  <2>8. client.at = AfterTypeIsSent /\ toServer' = <<>> /\ Length(client) = 2
    BY <1>5, <2>7, LengthIs
  <2>9. PICK field, start : field = client.at /\ start = Start(client.at) /\ start = 0
    BY <2>7, <2>8
  <2>10. IsReading(field, message, start)'
    BY <1>5, <2>6, <2>8, <2>9, BeginsToRead
  <2>11. ReadsChallenge' /\ Agreement' /\ SameType'
    BY <1>4, <1>6, <2>3, <2>6, <2>7, <2>8 DEF ReadsChallenge, Agreement, SameType
  <2>12. Response' /\ Was("response")' /\ client'.error = "none"
    BY <1>2, <1>12, <2>1, <2>3, <2>6, <2>8, <2>9, <2>10, <2>11 DEF Response, Was
  <2> QED
    BY <2>6, <2>12 DEF IInv, Place, Together
<1>13. CASE client.type = "none" /\ client.version = V38
  <2>1. next.agreed.minor >= 8 /\ ResultExpected(client.type, client.version)
    BY <1>9, <1>13 DEF V38, ResultExpected, Is3Point8OrHigher
  <2>2. Responds([next EXCEPT !.at = Result(next, length).to], Result(next, length).units)
    BY <1>9, <1>11, <1>13, <2>1
  <2>3. AfterTypeIsSent = "result"
    BY <1>13, <2>1 DEF AfterTypeIsSent, Challenge
  <2>4. client.at = "result" /\ toServer' = <<>>
    BY <1>5, <2>3
  <2> QED
    BY <1>2, <1>4, <1>5, <1>6, <1>9, <2>1, <2>2, <2>4, VerdictKeeps
<1>14. CASE client.type = "none" /\ client.version = V37
  <2>1. ~(next.agreed.minor >= 8) /\ ~ResultExpected(client.type, client.version)
    BY <1>9, <1>14 DEF V37, ResultExpected, Is3Point8OrHigher
  <2>2. PICK last, message : last = [next EXCEPT !.at = "init"] /\ message = <<>>
    OBVIOUS
  <2>3. message \in Seq(Unit) /\ Responds(last, message)
    BY <1>9, <1>11, <1>14, <2>1, <2>2, EmptySeq
  <2>4. /\ last \in Servers /\ last.at = "init" /\ ~last.gaveUp /\ last.agreed = client.version
        /\ last.version = server.version /\ last.type = client.type
    BY <1>10, <2>2
  <2>5. /\ Streams' /\ client' = client /\ server' = last
        /\ backend' \in Backends /\ client' \in Clients /\ server' \in Servers
        /\ HasRead(message, 0)'
    BY <1>5, <2>3, <2>4, WholeMessage
  <2>6. AfterTypeIsSent = "sendInit" /\ Len(message) = 0
    BY <1>14, <2>1, <2>2, EmptySeq DEF AfterTypeIsSent, Challenge
  <2>7. IsAt(client.at, message)'
    BY <1>5, <2>5, <2>6 DEF IsAt
  <2>8. Agreement' /\ SameType' /\ Accepted'
    BY <1>4, <1>6, <2>1, <2>4, <2>5 DEF Agreement, SameType, Accepted
  <2>9. message = IF ResultExpected(client'.type, client'.version)
                  THEN Units("result", TRUE, 2) ELSE <<>>
    BY <2>1, <2>2, <2>5
  <2>10. \/ IsAt("sendInit", message)' /\ toServer' = <<>>
         \/ IsAt("size", message)' /\ toServer' = <<[kind |-> "init"]>>
    BY <1>5, <2>5, <2>6, <2>7
  <2>11. Initialisation' /\ Was("init")' /\ client'.error = "none"
    BY <1>2, <2>4, <2>5, <2>8, <2>9, <2>10 DEF Initialisation, Was
  <2> QED
    BY <2>5, <2>11 DEF IInv, Place, Together
<1> QED
  BY <1>7, <1>12, <1>13, <1>14

LEMMA HearResponseKeeps ==
    ASSUME IInv, TypesAreOffered, HearResponse
    PROVE  IInv'
<1>1. Hears("response")
  BY DEF HearResponse
<1>2. /\ client.error = "none" /\ ~server.gaveUp /\ server.at = "response" /\ Response
      /\ toServer # <<>> /\ toServer' = Tail(toServer)
  BY <1>1, HearsTogether DEF Hears
<1>3. PICK m : m = Challenging(client.type, 2)
  OBVIOUS
<1>4. /\ Agreement /\ SameType /\ client.type # "none"
      /\ IsAt("result", m) /\ toServer = <<[kind |-> "response"]>>
  BY <1>2, <1>3 DEF Response
<1>5. m \in Seq(Unit)
  BY <1>3, <1>4, ChallengesAre DEF FieldsLieIn
<1>6. client.at = "result" /\ client.got = 0 /\ Len(Stream) = 0
  BY <1>4, <1>5, NothingLeft DEF IInv
<1>7. toServer' = <<>>
  BY <1>2, <1>4, TailOfOne
<1>8. ResultExpected(client.type, client.version)
  BY <1>4 DEF ResultExpected
<1>9. PICK length \in Lengths :
        Responds([server EXCEPT !.at = Result(server, length).to], Result(server, length).units)
  BY Zenon DEF HearResponse
<1>10. /\ server \in Servers /\ server.agreed = client.version /\ server.type = client.type
       /\ client.type \in Types \ {"tight", "other"}
  BY <1>4 DEF IInv, Agreement, SameType
<1>11. PICK next : next = server
  OBVIOUS
<1> QED
  BY <1>2, <1>4, <1>6, <1>7, <1>8, <1>9, <1>10, <1>11, VerdictKeeps

LEMMA HearInitKeeps ==
    ASSUME IInv, HearInit
    PROVE  IInv'
<1>1. Hears("init")
  BY DEF HearInit
<1>2. /\ client.error = "none" /\ ~server.gaveUp /\ server.at = "init" /\ Initialisation
      /\ toServer # <<>> /\ toServer' = Tail(toServer)
  BY <1>1, HearsTogether DEF Hears
<1>3. PICK m \in Seq(Unit) :
        m = IF ResultExpected(client.type, client.version) THEN Units("result", TRUE, 2) ELSE <<>>
  BY MessagesAre
<1>4. /\ Agreement /\ SameType /\ Accepted
      /\ IsAt("size", m) /\ toServer = <<[kind |-> "init"]>>
  BY <1>2, <1>3 DEF Initialisation
<1>5. client.at = "size" /\ client.got = 0 /\ Len(Stream) = 0 /\ Length(client) = 2
  BY <1>4, NothingLeft, LengthIs DEF IInv
<1>6. toServer' = <<>>
  BY <1>2, <1>4, TailOfOne
<1>7. PICK length \in Lengths : Responds([server EXCEPT !.at = "session"], ServerInit(length))
  BY Zenon DEF HearInit, ServerInit
<1>8. PICK last, message : /\ last = [server EXCEPT !.at = "session"]
                           /\ message = ServerInit(length)
  OBVIOUS
<1>9. /\ last \in Servers /\ last.at = "session" /\ ~last.gaveUp /\ last.agreed = server.agreed
      /\ last.version = server.version /\ last.type = server.type /\ last.accepts = server.accepts
  BY <1>2, <1>8 DEF IInv, Servers
<1>10. message \in Seq(Unit) /\ Responds(last, message)
  BY <1>7, <1>8, MessagesAre
<1>11. /\ Streams' /\ client' = client /\ server' = last
       /\ backend' \in Backends /\ client' \in Clients /\ server' \in Servers
       /\ HasRead(message, 0)'
  BY <1>5, <1>9, <1>10, WholeMessage
<1>12. IsReading("size", message, 0)'
  BY <1>5, <1>11, BeginsToRead
<1>13. Agreement' /\ SameType' /\ Accepted'
  BY <1>4, <1>9, <1>11 DEF Agreement, SameType, Accepted
<1>14. Session(length)' /\ Was("session")' /\ client'.error = "none"
  BY <1>2, <1>6, <1>8, <1>9, <1>11, <1>12, <1>13 DEF Session, Was
<1> QED
  BY <1>11, <1>14 DEF IInv, Place, Together

(* The server may still hear what the client wrote before it failed. *)
LEMMA HeardInVain ==
    ASSUME IInv, HearSession, Failed
    PROVE  IInv'
<1>1. /\ server.at = "session" /\ toServer # <<>> /\ toServer' = Tail(toServer)
      /\ wire' = wire \o <<>> /\ UNCHANGED <<backend, client, server, arrived>>
  BY DEF HearSession, Hears, Responds
<1>2. wire' = wire
  <2>1. wire \o <<>> = wire
    BY ConcatEmptySeq DEF IInv, Streams
  <2> QED
    BY <1>1, <2>1
<1>3. SessionFollows
  BY <1>1 DEF Failed
<1>4. SessionFollows'
  BY <1>1, <1>3, SessionShrinks DEF SessionFollows
<1>5. Failed'
  BY <1>1, <1>4 DEF Failed, FailsForAReason
<1> QED
  BY <1>1, <1>2, <1>5 DEF IInv, Streams, Place

LEMMA HearSessionKeeps ==
    ASSUME IInv, HearSession, ~Failed
    PROVE  IInv'
<1>1. Hears("session") /\ Responds(server, <<>>)
  BY DEF HearSession
<1>2. /\ client.error = "none" /\ ~server.gaveUp /\ server.at = "session"
      /\ toServer # <<>> /\ toServer' = Tail(toServer)
      /\ \E length \in Lengths : Session(length)
  BY <1>1, HearsTogether DEF Hears
<1>3. PICK length \in Lengths : Session(length)
  BY <1>2
<1>4. PICK m : m = ServerInit(length)
  OBVIOUS
<1>5. /\ Agreement /\ SameType /\ Accepted
      /\ toServer \in Seq({[kind |-> "session"]})
      /\ \E place \in {"sendFormat", "sendEncodings", "connected"} : IsAt(place, m)
  BY <1>2, <1>3, <1>4 DEF Session
<1>6. wire' = wire \o <<>> /\ UNCHANGED <<backend, client, server, arrived>>
  BY <1>1 DEF Responds
<1>7. wire' = wire
  <2>1. wire \o <<>> = wire
    BY ConcatEmptySeq DEF IInv, Streams
  <2> QED
    BY <1>6, <2>1
<1>8. Streams' /\ Stream' = Stream
  BY <1>6, <1>7, StreamStays DEF IInv
<1>9. \A place : IsAt(place, m) => IsAt(place, m)'
  BY <1>6, <1>8 DEF IsAt, HasRead
<1>10. toServer' \in Seq({[kind |-> "session"]})
  <2>1. PICK S, s : S = {[kind |-> "session"]} /\ s = toServer
    OBVIOUS
  <2>2. Tail(s) \in Seq(S)
    BY <1>2, <1>5, <2>1, HeadTailProperties
  <2> QED
    BY <1>2, <2>1, <2>2
<1>11. Session(length)' /\ Was("session")' /\ client'.error = "none"
  BY <1>2, <1>4, <1>5, <1>6, <1>9, <1>10 DEF Session, Was, Agreement, SameType, Accepted
<1> QED
  BY <1>6, <1>8, <1>11 DEF IInv, Place, Together

-----------------------------------------------------------------------------
(***************************************************************************)
(* The invariant holds.                                                    *)
(***************************************************************************)
LEMMA InitHolds ==
    ASSUME Init
    PROVE  IInv
<1>1. client = [at |-> "version", got |-> 0, number |-> 0, seen |-> {},
                version |-> NoVersion, type |-> "invalid", error |-> "none"]
  BY DEF Init
<1>2. PICK version \in Versions, offer \in Offers, accepts \in BOOLEAN :
        server = [at |-> "greets", version |-> version, offer |-> offer, agreed |-> NoVersion,
                  type |-> "invalid", accepts |-> accepts, gaveUp |-> FALSE]
  BY DEF Init
<1>3. backend \in Backends /\ toServer = <<>> /\ wire = <<>> /\ arrived = <<>>
  BY DEF Init
<1>4. client \in Clients
  BY <1>1 DEF Clients, Fields, Errors
<1>5. server \in Servers /\ Was("greets")
  BY <1>2 DEF Servers, NoVersion, Was
<1>6. Streams /\ Stream = <<>>
  <2>1. PICK empty \in Seq(Unit) : empty = <<>>
    BY EmptySeq
  <2>2. empty \o empty = empty
    BY <2>1, ConcatEmptySeq
  <2> QED
    BY <1>3, <2>1, <2>2 DEF Streams, Stream
<1>7. client.error = "none" /\ Greeting
  BY <1>1, <1>3, <1>6 DEF Greeting
<1> QED
  BY <1>3, <1>4, <1>5, <1>6, <1>7 DEF IInv, Place, Together

LEMMA StutterKeeps ==
    ASSUME IInv, UNCHANGED vars
    PROVE  IInv'
<1>1. Streams' /\ Stream' = Stream /\ UNCHANGED <<backend, client, server, toServer>>
  BY StreamStays DEF vars, IInv
<1> QED
  BY <1>1, NothingMoves

LEMMA NextKeeps ==
    ASSUME IInv, TypesAreOffered, [Next]_vars
    PROVE  IInv'
<1>1. CASE Client
  <2>1. CASE CredentialAnswered
    BY <2>1, CredentialKeeps, FailingKeeps DEF CredentialAnswered
  <2>2. CASE SendSetPixelFormat
    BY <2>2, SessionMessagesKeep DEF SendSetPixelFormat
  <2>3. CASE SendSetEncodings
    BY <2>3, SessionMessagesKeep, NoFramebufferKeeps DEF SendSetEncodings
  <2> QED
    BY <1>1, <2>1, <2>2, <2>3, ReadKeeps, FailingKeeps, SendVersionKeeps, SendTypeKeeps,
       SendResponseKeeps, SendInitKeeps DEF Client
<1>2. CASE Server
  BY <1>2, GreetKeeps, HearVersionKeeps, HearTypeKeeps, HearResponseKeeps, HearInitKeeps,
     HearSessionKeeps, HeardInVain DEF Server
<1> QED
  BY <1>1, <1>2, GiveUpKeeps, DeliverKeeps, StutterKeeps DEF Next

(* The inductive invariant is one. *)
LEMMA Invariance == TypesAreOffered => (Spec => []IInv)
<1> SUFFICES ASSUME TypesAreOffered PROVE Spec => []IInv
  OBVIOUS
<1>1. Init => IInv
  BY InitHolds
<1>2. IInv /\ [Next]_vars => IInv'
  BY NextKeeps
<1> QED
  BY <1>1, <1>2, PTL DEF Spec

-----------------------------------------------------------------------------
(* Type correctness: the client and the server are where the program can be, and the
   stream consists of fields.                                                        *)
THEOREM TypeCorrect == TypesAreOffered => (Spec => []TypeOK)
<1> SUFFICES ASSUME TypesAreOffered PROVE Spec => []TypeOK
  OBVIOUS
<1>1. IInv => TypeOK
  <2> SUFFICES ASSUME IInv PROVE TypeOK
    OBVIOUS
  <2>1. \A s \in Seq(Unit) : \A i \in DOMAIN s : s[i].of \in Fields
    <3>1. \A unit \in Unit : unit.of \in Fields
      BY DEF Unit
    <3> HIDE DEF Unit
    <3> QED
      BY <3>1
  <2> QED
    BY <2>1 DEF IInv, TypeOK, Streams
<1> QED
  BY <1>1, Invariance, PTL

(* What the server hears next is what it waits for. *)
LEMMA HeardInStep ==
    ASSUME IInv, toServer # <<>>, server.at # "closed"
    PROVE  Head(toServer).kind = server.at
<1>1. CASE Failed
  BY <1>1, SessionShrinks DEF Failed
<1> SUFFICES ASSUME Together PROVE Head(toServer).kind = server.at
  BY <1>1 DEF IInv, Place
<1>2. \A a, b : Head(<<a>>) = a /\ Head(<<a, b>>) = a
  BY TailOfOne, TailOfTwo
<1>3. /\ Greeting => FALSE
      /\ Version => Head(toServer).kind = "version"
      /\ SecurityType => Head(toServer).kind = "type"
      /\ Response => Head(toServer).kind = "response"
      /\ Initialisation => Head(toServer).kind = "init"
  <2>1. PICK a, b, c, d : /\ a = VersionMessage /\ b = TypeMessage
                          /\ c = [kind |-> "response"] /\ d = [kind |-> "init"]
    OBVIOUS
  <2>2. Head(<<a>>) = a /\ Head(<<b>>) = b /\ Head(<<b, d>>) = b /\ Head(<<c>>) = c /\ Head(<<d>>) = d
    BY <1>2
  <2>3. a.kind = "version" /\ b.kind = "type" /\ c.kind = "response" /\ d.kind = "init"
    BY <2>1 DEF VersionMessage, TypeMessage
  <2> QED
    BY <2>1, <2>2, <2>3 DEF Greeting, Version, SecurityType, Response, Initialisation
<1>4. ASSUME NEW length \in Lengths, Session(length) PROVE Head(toServer).kind = "session"
  <2>1. toServer \in Seq({[kind |-> "session"]})
    BY <1>4 DEF Session
  <2>2. PICK S, s : S = {[kind |-> "session"]} /\ s = toServer
    OBVIOUS
  <2>3. Head(s) \in S
    BY <2>1, <2>2, HeadTailProperties
  <2> QED
    BY <2>2, <2>3
<1> QED
  BY <1>3, <1>4 DEF Together, Was

(* What the client reads next was written as the field it waits for. *)
LEMMA ReadInStep ==
    ASSUME IInv, TypesAreOffered, Reading, Stream # <<>>
    PROVE  Head(Stream).of = client.at
<1>1. Stream \in Seq(Unit) /\ Len(Stream) # 0 /\ Len(Stream) \in Nat
  BY StreamIs, EmptySeq DEF IInv
<1>2. client.at # "failed"
  BY DEF Reading, Fields, ChallengeFields
<1>3. PICK message, start : Reads(message, start)
  BY <1>1, <1>2, ReadsAField
<1>4. /\ start \in Nat /\ client.got \in Nat /\ client.got < Length(client) /\ Length(client) \in Nat
      /\ Left(Stream, message, start + client.got)
      /\ \A i \in start + 1..start + Length(client) : message[i].of = client.at
  BY <1>3 DEF Reads, IsReading, HasRead, IInv, Clients
<1>5. Stream[1] = message[start + client.got + 1]
  BY <1>1, <1>4 DEF Left
<1>6. start + client.got + 1 \in start + 1..start + Length(client)
  BY <1>4
<1>7. Head(Stream) = Stream[1]
  BY <1>1
<1> QED
  BY <1>4, <1>5, <1>6, <1>7

(* Where the version agreed on is 3.7 or 3.8 and Tight is not offered, neither side loses
   the thread, whatever else the server offers and in whatever pieces its messages arrive:
   handshake() reads every field as what it was written as.                               *)
THEOREM KeepsInStep == TypesAreOffered => (Spec => []InStep)
<1> SUFFICES ASSUME TypesAreOffered PROVE Spec => []InStep
  OBVIOUS
<1>1. IInv => InStep
  BY HeardInStep, ReadInStep DEF InStep, Stream
<1> QED
  BY <1>1, Invariance, PTL

(* The error the owner gets is the true one, for these versions and offers. *)
THEOREM FailsTruly == TypesAreOffered => (Spec => []FailsForAReason)
<1> SUFFICES ASSUME TypesAreOffered PROVE Spec => []FailsForAReason
  OBVIOUS
<1>1. IInv => FailsForAReason
  <2> SUFFICES ASSUME IInv, client.at = "failed" PROVE FailsForAReason
    BY DEF FailsForAReason
  <2>1. CASE Failed
    BY <2>1 DEF Failed
  <2>2. CASE client.error = "none" /\ Together
    <3>1. ASSUME Response PROVE FALSE
      <4>1. ~ReadsChallenge
        BY <3>1, ChallengesAre, ChallengeFieldsAre DEF Response, ReadsChallenge
      <4> QED
        BY <3>1, <4>1 DEF Response, IsAt
    <3>2. AfterTypeIsSent # "failed"
      BY DEF AfterTypeIsSent, Challenge
    <3> QED
      BY <2>2, <3>1, <3>2
         DEF Together, Greeting, Version, SecurityType, Initialisation, Session, IsReading, IsAt
  <2>3. ASSUME NEW length \in Lengths, NoTypes(length) \/ Refused(length) PROVE FALSE
    BY <2>3 DEF NoTypes, Refused, IsReading
  <2> QED
    BY <2>1, <2>2, <2>3 DEF IInv, Place
<1> QED
  BY <1>1, Invariance, PTL

(* A client that considers itself connected is so with a server that accepted it in the
   same version and with the same type, and the first byte of the session is read as such;
   again for versions agreed as 3.7 or 3.8, without Tight.                                *)
THEOREM ConnectsTogether == TypesAreOffered => (Spec => []ConnectedTogether)
<1> SUFFICES ASSUME TypesAreOffered PROVE Spec => []ConnectedTogether
  OBVIOUS
<1>1. IInv => ConnectedTogether
  <2> SUFFICES ASSUME IInv, client.at = "connected" PROVE ConnectedTogether
    BY DEF ConnectedTogether
  <2>1. Was("session") /\ \E length \in Lengths : Session(length)
    BY PlaceOfWrite
  <2>2. PICK length \in Lengths : Session(length)
    BY <2>1
  <2>3. PICK m \in Seq(Unit) : m = ServerInit(length)
    BY MessagesAre
  <2>4. Agreement /\ SameType /\ Accepted /\ \E place : IsAt(place, m)
    BY <2>2, <2>3 DEF Session, IsReading
  <2>5. Len(Stream) = 0
    BY <2>3, <2>4, NothingLeft DEF IInv
  <2>6. arrived = <<>> /\ wire = <<>>
    <3>1. Len(arrived) = 0 /\ Len(wire) = 0
      BY <2>5, StreamIs DEF Joins, IInv, Streams
    <3> QED
      BY <3>1, EmptySeq DEF IInv, Streams
  <2>7. server.at \in {"session", "closed"}
    BY <2>1 DEF Was
  <2> QED
    BY <2>4, <2>6, <2>7 DEF ConnectedTogether, Agreement, SameType, Accepted
<1> QED
  BY <1>1, Invariance, PTL
=============================================================================
