--------------------------- MODULE Sessions_proofs ---------------------------
(***************************************************************************)
(* The session kept across the tabs of a browser: a proof that Sessions is *)
(* type correct, and that where the browser has locks no honest tab is     *)
(* signed out by the rotation of the refresh tokens, for any number of     *)
(* tabs, requests, faults and hours.                                       *)
(*                                                                         *)
(* The types are proved first: of the server, then of each place where a   *)
(* token can be.  The second invariant, Honest, is about the time in which *)
(* nothing has happened that may end a session.                            *)
(***************************************************************************)
EXTENDS Sessions, FiniteSetTheorems, TLAPS

(***************************************************************************)
(* The server.                                                             *)
(***************************************************************************)

\* A row of the table of refresh tokens, and the server.
Row == [family : Nat, revoked : Nat, aged : BOOLEAN]
Servers == [tokens : Seq(Row), clock : Nat \ {0}, link : {"none", "mailed", "used"},
            expired : Nat, refused : SUBSET Keyed]

\* No revocation is in the future.
ServerType(s) == s \in Servers /\ \A n \in Tokens(s) : s.tokens[n].revoked <= s.clock

\* The families are numbered from 1 without a gap, so that the next number is new.
FamiliesOf(s) == {s.tokens[n].family : n \in Tokens(s)}
Numbered(s) ==
    IsFiniteSet(FamiliesOf(s)) /\ FamiliesOf(s) = 1..Cardinality(FamiliesOf(s))

\* What a rotation does to the rows: the row read is revoked, and a row of the same
\* family is issued.
Rotates(s, n, q) ==
    /\ Len(q.tokens) = Len(s.tokens) + 1
    /\ \A m \in Tokens(s) : q.tokens[m].family = s.tokens[m].family
    /\ \A m \in Tokens(s) \ {n} : q.tokens[m] = s.tokens[m]
    /\ ~Active(q, n)
    /\ q.tokens[Len(s.tokens) + 1].family = s.tokens[n].family
    /\ Active(q, Len(s.tokens) + 1)

\* What a new session does to the rows: one row is issued, of a family of its own.
Issues(s, q) ==
    /\ Len(q.tokens) = Len(s.tokens) + 1
    /\ \A m \in Tokens(s) : q.tokens[m] = s.tokens[m]
    /\ \A m \in Tokens(s) : s.tokens[m].family # q.tokens[Len(s.tokens) + 1].family
    /\ q.tokens[Len(s.tokens) + 1].family = NewFamily(s)
    /\ Active(q, Len(s.tokens) + 1)

\* Rows that keep their family and whether they are active.
KeepsRows(s, q) ==
    /\ Len(q.tokens) = Len(s.tokens)
    /\ \A m \in Tokens(s) : /\ q.tokens[m].family = s.tokens[m].family
                            /\ Active(q, m) <=> Active(s, m)

\* A rotation of services/auth.py keeps the types and does what Rotates says.
LEMMA RotationRotates ==
    ASSUME NEW s, ServerType(s), NEW n \in Tokens(s)
    PROVE  ServerType(Rotated(s, n)) /\ Rotates(s, n, Rotated(s, n))
<1> DEFINE row == RevokedNow(s, n)
           marked == [s EXCEPT !.tokens = [s.tokens EXCEPT ![n] = row]]
           new == [family |-> s.tokens[n].family, revoked |-> 0, aged |-> FALSE]
           after == Append([s.tokens EXCEPT ![n] = row], new)
<1>1. /\ s.tokens \in Seq(Row) /\ s.clock \in Nat \ {0} /\ n \in 1..Len(s.tokens)
      /\ s.tokens[n] \in Row
  BY DEF ServerType, Servers, Tokens
<1>2. row \in Row /\ row.revoked = s.clock /\ row.family = s.tokens[n].family
  BY <1>1 DEF RevokedNow, Row
<1>3. Rotated(s, n) = [s EXCEPT !.tokens = after, !.clock = @ + 1]
  BY <1>1 DEF Rotated, Issued, ServerType, Servers
<1>4. new \in Row
  BY <1>1 DEF Row
<1> HIDE DEF row
<1>5. [s.tokens EXCEPT ![n] = row] \in Seq(Row) /\ Len([s.tokens EXCEPT ![n] = row]) = Len(s.tokens)
  BY <1>1, <1>2
<1>6. /\ after \in Seq(Row) /\ Len(after) = Len(s.tokens) + 1
      /\ after[Len(s.tokens) + 1] = new /\ after[n] = row
      /\ \A m \in Tokens(s) \ {n} : after[m] = s.tokens[m]
  BY <1>1, <1>2, <1>4, <1>5 DEF Tokens
<1> HIDE DEF after
<1>7. /\ Rotated(s, n).tokens = after /\ Rotated(s, n).clock = s.clock + 1
      /\ Rotated(s, n) \in Servers
  <2>1. s.clock + 1 \in Nat \ {0}
    BY <1>1
  <2>2. s \in Servers
    BY DEF ServerType
  <2> QED BY <2>1, <2>2, <1>3, <1>6 DEF Servers
<1>8. \A m \in Tokens(Rotated(s, n)) : m \in Tokens(s) \/ m = Len(s.tokens) + 1
  BY <1>1, <1>6, <1>7 DEF Tokens
<1>9. ASSUME NEW m \in Tokens(Rotated(s, n)) PROVE after[m].revoked <= s.clock + 1
  <2>1. CASE m = n
    BY <2>1, <1>1, <1>2, <1>6
  <2>2. CASE m = Len(s.tokens) + 1
    BY <2>2, <1>1, <1>6
  <2>3. CASE m \in Tokens(s) \ {n}
    <3>1. s.tokens[m].revoked <= s.clock /\ s.tokens[m].revoked \in Nat
      <4>1. s.tokens[m] \in Row
        BY <2>3, <1>1 DEF Tokens
      <4> QED BY <4>1, <2>3 DEF ServerType, Row
    <3> QED BY <2>3, <3>1, <1>1, <1>6
  <2> QED BY <2>1, <2>2, <2>3, <1>8
<1>10. Rotates(s, n, Rotated(s, n))
  <2>1. \A m \in Tokens(s) : after[m].family = s.tokens[m].family
    BY <1>2, <1>6
  <2> QED BY <2>1, <1>1, <1>2, <1>6, <1>7 DEF Rotates, Active
<1> QED BY <1>7, <1>9, <1>10 DEF ServerType

\* Revoking a family keeps the types, the number of rows and their families.
LEMMA RevocationKeeps ==
    ASSUME NEW s, ServerType(s), NEW n \in Tokens(s)
    PROVE  /\ ServerType(FamilyRevoked(s, n))
           /\ Len(FamilyRevoked(s, n).tokens) = Len(s.tokens)
           /\ \A m \in Tokens(s) : FamilyRevoked(s, n).tokens[m].family = s.tokens[m].family
<1> DEFINE after == [m \in Tokens(s) |-> IF m \in FamilyOf(s, n) THEN RevokedNow(s, m)
                                         ELSE s.tokens[m]]
<1>1. s.tokens \in Seq(Row) /\ s.clock \in Nat \ {0} /\ Tokens(s) = 1..Len(s.tokens)
  BY DEF ServerType, Servers, Tokens
<1>2. ASSUME NEW m \in Tokens(s)
      PROVE  /\ after[m] \in Row /\ after[m].family = s.tokens[m].family
             /\ after[m].revoked <= s.clock
  <2>1. s.tokens[m] \in Row /\ s.tokens[m].revoked <= s.clock
    BY <1>1 DEF ServerType
  <2>2. /\ RevokedNow(s, m) \in Row /\ RevokedNow(s, m).family = s.tokens[m].family
        /\ RevokedNow(s, m).revoked = s.clock
    BY <2>1, <1>1 DEF RevokedNow, Row
  <2>3. s.clock <= s.clock
    BY <1>1
  <2> QED BY <2>1, <2>2, <2>3
<1>3. DOMAIN after = 1..Len(s.tokens)
  BY <1>1
<1> HIDE DEF after
<1>4. after \in [1..Len(s.tokens) -> Row]
  <2>1. after = [m \in Tokens(s) |-> after[m]]
    BY DEF after
  <2> QED BY <2>1, <1>1, <1>2
<1>5. after \in Seq(Row) /\ Len(after) = Len(s.tokens)
  BY <1>1, <1>3, <1>4
<1>6. FamilyRevoked(s, n) = [s EXCEPT !.tokens = after, !.clock = @ + 1]
  BY DEF FamilyRevoked, after
<1>7. /\ FamilyRevoked(s, n).tokens = after /\ FamilyRevoked(s, n).clock = s.clock + 1
      /\ FamilyRevoked(s, n) \in Servers
  <2>1. s.clock + 1 \in Nat \ {0}
    BY <1>1
  <2>2. s \in Servers
    BY DEF ServerType
  <2> QED BY <2>1, <2>2, <1>5, <1>6 DEF Servers
<1>8. ASSUME NEW m \in Tokens(s) PROVE after[m].revoked <= s.clock + 1
  <2>1. after[m].revoked \in Nat
    BY <1>2 DEF Row
  <2> QED BY <2>1, <1>1, <1>2
<1>9. Tokens(FamilyRevoked(s, n)) = Tokens(s)
  BY <1>5, <1>7 DEF Tokens
<1> QED BY <1>2, <1>5, <1>7, <1>8, <1>9 DEF ServerType

\* A new session keeps the types, and its family is new: services/auth.py draws a
\* random identifier, which NewFamily stands for.
LEMMA SessionIssues ==
    ASSUME NEW s, ServerType(s), Numbered(s)
    PROVE  ServerType(SessionCreated(s)) /\ Issues(s, SessionCreated(s))
<1> DEFINE new == [family |-> NewFamily(s), revoked |-> 0, aged |-> FALSE]
           after == Append(s.tokens, new)
<1>1. /\ s.tokens \in Seq(Row) /\ s.clock \in Nat \ {0} /\ Tokens(s) = 1..Len(s.tokens)
      /\ Len(s.tokens) \in Nat
  BY DEF ServerType, Servers, Tokens
<1>2. NewFamily(s) = 1 + Cardinality(FamiliesOf(s)) /\ Cardinality(FamiliesOf(s)) \in Nat
  BY FS_CardinalityType DEF NewFamily, FamiliesOf, Numbered
<1>3. ASSUME NEW m \in Tokens(s) PROVE s.tokens[m].family # NewFamily(s)
  <2>1. s.tokens[m].family \in 1..Cardinality(FamiliesOf(s))
    BY DEF FamiliesOf, Numbered
  <2> QED BY <2>1, <1>2
<1>4. new \in Row
  BY <1>2 DEF Row
<1>5. /\ after \in Seq(Row) /\ Len(after) = Len(s.tokens) + 1
      /\ after[Len(s.tokens) + 1] = new
      /\ \A m \in Tokens(s) : after[m] = s.tokens[m]
  BY <1>1, <1>4
<1>6. SessionCreated(s) = [s EXCEPT !.tokens = after, !.link = "used", !.clock = @ + 1]
  BY DEF SessionCreated, Issued
<1> HIDE DEF after
<1>7. /\ SessionCreated(s).tokens = after /\ SessionCreated(s).clock = s.clock + 1
      /\ SessionCreated(s) \in Servers
  <2>1. s.clock + 1 \in Nat \ {0}
    BY <1>1
  <2>2. s \in Servers
    BY DEF ServerType
  <2> QED BY <2>1, <2>2, <1>5, <1>6 DEF Servers
<1>8. ASSUME NEW m \in Tokens(SessionCreated(s)) PROVE after[m].revoked <= s.clock + 1
  <2>1. CASE m = Len(s.tokens) + 1
    BY <2>1, <1>1, <1>5
  <2>2. CASE m \in Tokens(s)
    <3>1. s.tokens[m].revoked <= s.clock /\ s.tokens[m].revoked \in Nat
      <4>1. s.tokens[m] \in Row
        BY <2>2, <1>1
      <4> QED BY <4>1, <2>2 DEF ServerType, Row
    <3> QED BY <2>2, <3>1, <1>1, <1>5
  <2> QED BY <2>1, <2>2, <1>1, <1>5, <1>7 DEF Tokens
<1>9. Issues(s, SessionCreated(s))
  BY <1>1, <1>3, <1>5, <1>7 DEF Issues, Active
<1> QED BY <1>7, <1>8, <1>9 DEF ServerType

\* The passing of the grace window ages the revoked rows, and changes nothing else of
\* them.
LEMMA AgeingKeeps ==
    ASSUME ServerType(server)
    PROVE  /\ AllAged \in Seq(Row) /\ Len(AllAged) = Len(server.tokens)
           /\ \A n \in Tokens(server) : /\ AllAged[n].family = server.tokens[n].family
                                        /\ AllAged[n].revoked = server.tokens[n].revoked
<1>1. server.tokens \in Seq(Row) /\ Tokens(server) = 1..Len(server.tokens)
  BY DEF ServerType, Servers, Tokens
<1>2. DOMAIN AllAged = 1..Len(server.tokens)
  BY <1>1 DEF AllAged
<1>3. ASSUME NEW n \in Tokens(server)
      PROVE  /\ AllAged[n] \in Row
             /\ AllAged[n].family = server.tokens[n].family
             /\ AllAged[n].revoked = server.tokens[n].revoked
  <2>1. server.tokens[n] \in Row
    BY <1>1
  <2>2. AllAged[n] = [server.tokens[n] EXCEPT !.aged = ~Active(server, n)]
    BY DEF AllAged
  <2>3. (~Active(server, n)) \in BOOLEAN
    BY DEF Active
  <2> QED BY <2>1, <2>2, <2>3 DEF Row
<1>4. AllAged \in [1..Len(server.tokens) -> Row]
  <2>1. AllAged = [n \in Tokens(server) |-> AllAged[n]]
    BY DEF AllAged
  <2> QED BY <2>1, <1>1, <1>3
<1> QED BY <1>1, <1>2, <1>3, <1>4

(***************************************************************************)
(* The places where a token can be.  n is the number of tokens issued.     *)
(***************************************************************************)

Phases == {"none", "queued", "sent", "decided", "answered"}
AnswersTo(n) == [ok : BOOLEAN, token : 0..n]
CallsTo(n) == [phase : Phases, cookie : 0..n, answer : AnswersTo(n),
               verdict : {"none", "rotate", "revoke", "issue", "refuse"}]

\* What the server may decide of a call of a kind.
MayDecide(kind) ==
    CASE kind = "refresh" -> {"rotate", "revoke", "refuse"}
      [] kind = "logout" -> {"revoke", "refuse"}
      [] kind = "exchange" -> {"issue", "refuse"}

\* A refusal brings no token, and only a cookie leads to a rotation or a revocation.
GoodAnswer(answer, n) == answer \in AnswersTo(n) /\ (~answer.ok => answer.token = 0)
GoodCall(kind, c, n) ==
    /\ c \in CallsTo(n) /\ GoodAnswer(c.answer, n)
    /\ c.phase = "decided" => /\ c.verdict \in MayDecide(kind)
                              /\ c.verdict \in {"rotate", "revoke"} => c.cookie # 0

CallsTyped(cs, n) ==
    /\ DOMAIN cs = Tabs
    /\ \A t \in Tabs : DOMAIN cs[t] = Kinds /\ \A k \in Kinds : GoodCall(k, cs[t][k], n)
OrphansTyped(os, n) == \A o \in os : o.kind \in Kinds /\ GoodCall(o.kind, o.call, n)

TabFields == {"page", "config", "probe", "session", "exchange", "form"}
TabsTyped(tabs, n) ==
    /\ DOMAIN tabs = Tabs
    /\ \A t \in Tabs : DOMAIN tabs[t] = TabFields /\ tabs[t].session \in 0..n

RequestsTo(n) == [phase : {"none", "sent", "refreshing", "retried", "done"}, token : 0..n,
                  answer : {"none", "ok", "expired"}]
ReqTyped(rs, n) ==
    /\ DOMAIN rs = Requests
    /\ \A r \in Requests : rs[r] \in RequestsTo(n) /\ (rs[r].phase # "none" => rs[r].token # 0)

TypeInv ==
    /\ ServerType(server) /\ Numbered(server)
    /\ cookie \in 0..Len(server.tokens) /\ locks \in BOOLEAN
    /\ TabsTyped(tab, Len(server.tokens))
    /\ CallsTyped(calls, Len(server.tokens))
    /\ OrphansTyped(orphans, Len(server.tokens))
    /\ ReqTyped(req, Len(server.tokens))

\* The number of tokens is a number.
LEMMA IssuedIsNat == ASSUME NEW s, ServerType(s) PROVE Len(s.tokens) \in Nat
BY DEF ServerType, Servers

\* A token stays known when more are issued.
LEMMA TypesGrow ==
    ASSUME NEW n \in Nat, NEW m \in Nat, n <= m
    PROVE  /\ \A x \in 0..n : x \in 0..m
           /\ \A x : GoodAnswer(x, n) => GoodAnswer(x, m)
           /\ \A k, c : GoodCall(k, c, n) => GoodCall(k, c, m)
           /\ \A cs : CallsTyped(cs, n) => CallsTyped(cs, m)
           /\ \A os : OrphansTyped(os, n) => OrphansTyped(os, m)
           /\ \A tabs : TabsTyped(tabs, n) => TabsTyped(tabs, m)
           /\ \A rs : ReqTyped(rs, n) => ReqTyped(rs, m)
<1>1. \A x \in 0..n : x \in 0..m
  OBVIOUS
<1>2. ASSUME NEW x, GoodAnswer(x, n) PROVE GoodAnswer(x, m)
  BY <1>1, <1>2 DEF GoodAnswer, AnswersTo
<1>3. ASSUME NEW k, NEW c, GoodCall(k, c, n) PROVE GoodCall(k, c, m)
  <2>1. GoodAnswer(c.answer, m) /\ c \in CallsTo(n)
    BY <1>2, <1>3 DEF GoodCall
  <2>2. c \in CallsTo(m)
    BY <2>1, <1>1 DEF CallsTo, GoodAnswer
  <2> QED BY <2>1, <2>2, <1>3 DEF GoodCall
<1>4. ASSUME NEW cs, CallsTyped(cs, n) PROVE CallsTyped(cs, m)
  BY <1>3, <1>4 DEF CallsTyped
<1>5. ASSUME NEW os, OrphansTyped(os, n) PROVE OrphansTyped(os, m)
  BY <1>3, <1>5 DEF OrphansTyped
<1>6. ASSUME NEW tabs, TabsTyped(tabs, n) PROVE TabsTyped(tabs, m)
  BY <1>1, <1>6 DEF TabsTyped
<1>7. ASSUME NEW rs, ReqTyped(rs, n) PROVE ReqTyped(rs, m)
  <2>1. \A x \in RequestsTo(n) : x \in RequestsTo(m)
    BY <1>1 DEF RequestsTo
  <2> QED BY <2>1, <1>7 DEF ReqTyped
<1> QED BY <1>1, <1>2, <1>3, <1>4, <1>5, <1>6, <1>7

\* The calls that a tab starts with, queues and sends.
LEMMA FreshCalls ==
    ASSUME NEW n \in Nat, NEW k \in Kinds
    PROVE  /\ GoodAnswer(NoAnswer, n)
           /\ GoodCall(k, NoCall, n)
           /\ GoodCall(k, [NoCall EXCEPT !.phase = "queued"], n)
           /\ \A x \in 0..n : GoodCall(k, Sent(x), n)
<1>1. GoodAnswer(NoAnswer, n)
  BY DEF GoodAnswer, NoAnswer, AnswersTo
<1>2. GoodCall(k, NoCall, n)
  BY <1>1 DEF GoodCall, NoCall, CallsTo, Phases, GoodAnswer
<1>3. GoodCall(k, [NoCall EXCEPT !.phase = "queued"], n)
  BY <1>1 DEF GoodCall, NoCall, CallsTo, Phases, GoodAnswer
<1>4. ASSUME NEW x \in 0..n PROVE GoodCall(k, Sent(x), n)
  BY <1>1 DEF GoodCall, Sent, NoCall, CallsTo, Phases, GoodAnswer
<1> QED BY <1>1, <1>2, <1>3, <1>4

\* Replacing one call of a tab by a good one.
LEMMA PutCall ==
    ASSUME NEW n \in Nat, NEW cs, CallsTyped(cs, n), NEW t \in Tabs, NEW k \in Kinds,
           NEW c, GoodCall(k, c, n)
    PROVE  CallsTyped([cs EXCEPT ![t][k] = c], n)
<1> DEFINE ds == [cs EXCEPT ![t][k] = c]
<1>1. DOMAIN ds = Tabs /\ \A u \in Tabs : DOMAIN ds[u] = Kinds
  BY DEF CallsTyped
<1>2. ASSUME NEW u \in Tabs, NEW j \in Kinds
      PROVE  ds[u][j] = IF u = t /\ j = k THEN c ELSE cs[u][j]
  BY DEF CallsTyped
<1> HIDE DEF ds
<1>3. ASSUME NEW u \in Tabs, NEW j \in Kinds PROVE GoodCall(j, ds[u][j], n)
  BY <1>2 DEF CallsTyped
<1>4. CallsTyped(ds, n)
  BY <1>1, <1>3 DEF CallsTyped
<1> QED BY <1>4 DEF ds

\* Joining or starting the refresh of a tab, and opening a page, keep the types.
LEMMA RefreshedTypes ==
    ASSUME NEW n \in Nat, NEW cs, CallsTyped(cs, n), NEW t \in Tabs, cookie \in 0..n
    PROVE  CallsTyped(Refreshed(cs, t), n)
<1>1. "refresh" \in Kinds
  BY DEF Kinds
<1>2. /\ GoodCall("refresh", [NoCall EXCEPT !.phase = "queued"], n)
      /\ GoodCall("refresh", Sent(cookie), n)
  BY <1>1, FreshCalls
<1>3. GoodCall("refresh", IF locks THEN [NoCall EXCEPT !.phase = "queued"] ELSE Sent(cookie), n)
  BY <1>2
<1> DEFINE c == IF locks THEN [NoCall EXCEPT !.phase = "queued"] ELSE Sent(cookie)
<1>4. Refreshed(cs, t) = IF cs[t]["refresh"].phase # "none" THEN cs
                         ELSE [cs EXCEPT ![t]["refresh"] = c]
  BY DEF Refreshed
<1> HIDE DEF c
<1>5. GoodCall("refresh", c, n)
  BY <1>3 DEF c
<1>6. CallsTyped([cs EXCEPT ![t]["refresh"] = c], n)
  BY <1>1, <1>5, PutCall
<1> QED BY <1>4, <1>6

\* A page that is opened has no call but its refresh.
LEMMA BootedTypes ==
    ASSUME NEW n \in Nat, CallsTyped(calls, n), NEW t \in Tabs, cookie \in 0..n
    PROVE  CallsTyped(Booted(t), n)
<1> DEFINE cs == [calls EXCEPT ![t] = NoCalls]
<1>1. DOMAIN cs = Tabs /\ \A u \in Tabs : cs[u] = IF u = t THEN NoCalls ELSE calls[u]
  BY DEF CallsTyped
<1>2. DOMAIN NoCalls = Kinds /\ \A k \in Kinds : NoCalls[k] = NoCall
  BY DEF NoCalls
<1>3. \A k \in Kinds : GoodCall(k, NoCall, n)
  BY FreshCalls
<1>4. Booted(t) = Refreshed(cs, t)
  BY DEF Booted
<1> HIDE DEF cs
<1>5. CallsTyped(cs, n)
  BY <1>1, <1>2, <1>3 DEF CallsTyped
<1> QED BY <1>4, <1>5, RefreshedTypes

\* What the server decides of a call that is on its way is good.
LEMMA DecidedTypes ==
    ASSUME NEW n \in Nat, NEW k \in Kinds, NEW c, GoodCall(k, c, n), c.phase = "sent",
           NEW v \in Verdicts(server, k, c.cookie)
    PROVE  GoodCall(k, Decided(c, v), n)
<1>1. c \in CallsTo(n)
  BY DEF GoodCall
<1>2. v \in MayDecide(k) /\ (v \in {"rotate", "revoke"} => c.cookie # 0)
  <2>1. CASE k = "refresh"
    <3>1. v \in RefreshVerdicts(server, c.cookie)
      BY <2>1 DEF Verdicts
    <3>2. v \in {"rotate", "revoke", "refuse"} /\ (c.cookie = 0 => v = "refuse")
      BY <3>1 DEF RefreshVerdicts
    <3> QED BY <2>1, <3>2 DEF MayDecide
  <2>2. CASE k = "logout"
    BY <2>2 DEF Verdicts, LogoutVerdicts, MayDecide
  <2>3. CASE k = "exchange"
    BY <2>3 DEF Verdicts, ExchangeVerdicts, MayDecide
  <2> QED BY <2>1, <2>2, <2>3 DEF Kinds
<1>3. v \in {"none", "rotate", "revoke", "issue", "refuse"}
  BY <1>2 DEF MayDecide, Kinds
<1>4. Decided(c, v) \in CallsTo(n)
  BY <1>1, <1>3 DEF Decided, CallsTo, Phases
<1>5. /\ Decided(c, v).verdict = v /\ Decided(c, v).cookie = c.cookie
      /\ Decided(c, v).answer = c.answer
  BY <1>1 DEF Decided, CallsTo
<1> QED BY <1>2, <1>4, <1>5 DEF GoodCall

\* The families stay numbered: a rotation adds to a family that is there, a new session
\* takes the next number.
LEMMA NumberedStays ==
    ASSUME NEW s, ServerType(s), Numbered(s), NEW q
    PROVE  /\ \A n \in Tokens(s) : Rotates(s, n, q) => Numbered(q)
           /\ Issues(s, q) => Numbered(q)
           /\ (/\ Len(q.tokens) = Len(s.tokens)
               /\ \A m \in Tokens(s) : q.tokens[m].family = s.tokens[m].family) => Numbered(q)
<1>1. Len(s.tokens) \in Nat
  BY IssuedIsNat
<1> DEFINE K == Cardinality(FamiliesOf(s))
<1>2. K \in Nat /\ FamiliesOf(s) = 1..K /\ NewFamily(s) = 1 + K
  BY FS_CardinalityType DEF Numbered, NewFamily, FamiliesOf
<1>3. ASSUME NEW n \in Tokens(s), Rotates(s, n, q) PROVE FamiliesOf(q) = FamiliesOf(s)
  <2>1. \A m \in Tokens(q) : m \in Tokens(s) \/ m = Len(s.tokens) + 1
    BY <1>1, <1>3 DEF Rotates, Tokens
  <2>2. \A m \in Tokens(s) : m \in Tokens(q) /\ q.tokens[m].family = s.tokens[m].family
    BY <1>1, <1>3 DEF Rotates, Tokens
  <2>3. q.tokens[Len(s.tokens) + 1].family = s.tokens[n].family
    BY <1>3 DEF Rotates
  <2> QED BY <2>1, <2>2, <2>3 DEF FamiliesOf
<1>4. ASSUME Issues(s, q) PROVE FamiliesOf(q) = FamiliesOf(s) \cup {NewFamily(s)}
  BY <1>1, <1>4 DEF Issues, FamiliesOf, Tokens
<1>5. ASSUME Len(q.tokens) = Len(s.tokens),
             \A m \in Tokens(s) : q.tokens[m].family = s.tokens[m].family
      PROVE  FamiliesOf(q) = FamiliesOf(s)
  BY <1>5 DEF FamiliesOf, Tokens
<1>6. FamiliesOf(q) = FamiliesOf(s) => Numbered(q)
  BY DEF Numbered
<1>7. FamiliesOf(q) = FamiliesOf(s) \cup {NewFamily(s)} => Numbered(q)
  <2> HAVE FamiliesOf(q) = FamiliesOf(s) \cup {NewFamily(s)}
  <2>1. FamiliesOf(q) = 1..(K + 1)
    BY <1>2
  <2>2. IsFiniteSet(1..(K + 1)) /\ Cardinality(1..(K + 1)) = K + 1
    BY <1>2, FS_Interval
  <2> QED BY <2>1, <2>2 DEF Numbered
<1> QED BY <1>3, <1>4, <1>5, <1>6, <1>7

\* The commit of a call: the types of the server, and of what it answers.
LEMMA CommittedTypes ==
    ASSUME ServerType(server), Numbered(server), NEW k \in Kinds, NEW c,
           GoodCall(k, c, Len(server.tokens)), c.phase = "decided"
    PROVE  LET q == Committed(server, c)
           IN  /\ ServerType(q) /\ Numbered(q)
               /\ Len(server.tokens) <= Len(q.tokens)
               /\ GoodAnswer(AnswerOf(server, k, c), Len(q.tokens))
               /\ GoodCall(k, Done(k, c), Len(q.tokens))
<1> DEFINE q == Committed(server, c)
           n == Len(server.tokens)
<1>1. n \in Nat
  BY IssuedIsNat
<1>2. /\ c \in CallsTo(n) /\ c.verdict \in {"rotate", "revoke", "issue", "refuse"}
      /\ c.verdict \in {"rotate", "revoke"} => c.cookie # 0
  BY DEF GoodCall, MayDecide, Kinds
<1>3. c.verdict \in {"rotate", "revoke"} => c.cookie \in Tokens(server)
  BY <1>1, <1>2 DEF CallsTo, Tokens
<1>4. /\ ServerType(q) /\ Numbered(q) /\ Len(q.tokens) \in Nat
      /\ Len(q.tokens) = IF c.verdict \in {"rotate", "issue"} THEN n + 1 ELSE n
  <2>1. CASE c.verdict = "rotate"
    <3>1. q = Rotated(server, c.cookie)
      BY <2>1 DEF Committed
    <3>2. ServerType(q) /\ Rotates(server, c.cookie, q)
      BY <2>1, <3>1, <1>3, RotationRotates
    <3>3. Numbered(q)
      BY <2>1, <3>2, <1>3, NumberedStays
    <3> QED BY <2>1, <3>2, <3>3, <1>1 DEF Rotates
  <2>2. CASE c.verdict = "revoke"
    <3>1. q = FamilyRevoked(server, c.cookie)
      BY <2>2 DEF Committed
    <3>2. /\ ServerType(q) /\ Len(q.tokens) = n
          /\ \A m \in Tokens(server) : q.tokens[m].family = server.tokens[m].family
      BY <2>2, <3>1, <1>3, RevocationKeeps
    <3>3. Numbered(q)
      BY <3>2, NumberedStays
    <3> QED BY <2>2, <3>2, <3>3, <1>1
  <2>3. CASE c.verdict = "issue"
    <3>1. q = SessionCreated(server)
      BY <2>3 DEF Committed
    <3>2. ServerType(q) /\ Issues(server, q)
      BY <3>1, SessionIssues
    <3>3. Numbered(q)
      BY <3>2, NumberedStays
    <3> QED BY <2>3, <3>2, <3>3, <1>1 DEF Issues
  <2>4. CASE c.verdict = "refuse"
    <3>1. q = server
      BY <2>4 DEF Committed
    <3> QED BY <2>4, <3>1, <1>1
  <2> QED BY <2>1, <2>2, <2>3, <2>4, <1>2
<1> DEFINE answer == AnswerOf(server, k, c)
<1>5. GoodAnswer(answer, Len(q.tokens))
  <2>1. CASE c.verdict \in {"rotate", "issue"}
    BY <2>1, <1>1, <1>4 DEF AnswerOf, GoodAnswer, AnswersTo
  <2>2. CASE c.verdict \notin {"rotate", "issue"}
    <3>1. CASE c.verdict = "revoke" /\ k = "logout"
      <4>1. answer = [ok |-> TRUE, token |-> 0]
        BY <2>2, <3>1 DEF AnswerOf
      <4> QED BY <4>1, <1>4 DEF GoodAnswer, AnswersTo
    <3>2. CASE ~(c.verdict = "revoke" /\ k = "logout")
      <4>1. answer = [ok |-> FALSE, token |-> 0]
        BY <2>2, <3>2 DEF AnswerOf
      <4> QED BY <4>1, <1>4 DEF GoodAnswer, AnswersTo
    <3> QED BY <3>1, <3>2
  <2> QED BY <2>1, <2>2
<1>6. n <= Len(q.tokens)
  BY <1>1, <1>4
<1>7. GoodCall(k, c, Len(q.tokens))
  BY <1>1, <1>4, <1>6, TypesGrow
<1>8. Done(k, c) = [c EXCEPT !.phase = "answered", !.answer = answer]
  BY DEF Done
<1> HIDE DEF q, n, answer
<1>9. GoodCall(k, Done(k, c), Len(q.tokens))
  <2>1. c \in CallsTo(Len(q.tokens)) /\ answer \in AnswersTo(Len(q.tokens))
    BY <1>5, <1>7 DEF GoodCall, GoodAnswer
  <2>2. /\ Done(k, c) \in CallsTo(Len(q.tokens)) /\ Done(k, c).answer = answer
        /\ Done(k, c).phase = "answered"
    BY <2>1, <1>8 DEF CallsTo, Phases
  <2> QED BY <2>2, <1>5 DEF GoodCall
<1> QED BY <1>4, <1>5, <1>6, <1>9 DEF q, n, answer

\* The end of a call in its tab: the session, and the requests that waited.
LEMMA SettledTypes ==
    ASSUME NEW n \in Nat, TabsTyped(tab, n), ReqTyped(req, n), NEW t \in Tabs,
           NEW k \in Kinds, NEW answer, GoodAnswer(answer, n), NEW network,
           Settled(t, k, answer, network)
    PROVE  TabsTyped(tab', n) /\ ReqTyped(req', n)
<1>1. answer.token \in 0..n
  BY DEF GoodAnswer, AnswersTo
<1>2. CASE k = "refresh"
  <2>1. /\ tab' = [tab EXCEPT ![t].session = answer.token, ![t].probe = "done"]
        /\ req' = Resumed(t, answer.token)
    BY <1>2 DEF Settled, RefreshSettled
  <2>2. TabsTyped(tab', n)
    BY <2>1, <1>1 DEF TabsTyped, TabFields
  <2>3. DOMAIN req' = Requests
    BY <2>1 DEF Resumed
  <2>4. ASSUME NEW r \in Requests
        PROVE  req'[r] \in RequestsTo(n) /\ (req'[r].phase # "none" => req'[r].token # 0)
    <3>1. \/ req'[r] = req[r]
          \/ answer.token # 0 /\ req'[r] = [req[r] EXCEPT !.phase = "retried", !.token = answer.token]
          \/ /\ req[r].phase = "refreshing"
             /\ req'[r] = [req[r] EXCEPT !.phase = "done", !.answer = "expired"]
      BY <2>1 DEF Resumed
    <3>2. req[r] \in RequestsTo(n) /\ (req[r].phase # "none" => req[r].token # 0)
      BY DEF ReqTyped
    <3> QED BY <3>1, <3>2, <1>1 DEF RequestsTo
  <2> QED BY <2>2, <2>3, <2>4 DEF ReqTyped
<1>3. CASE k = "logout"
  <2>1. tab' = [tab EXCEPT ![t].session = 0] /\ req' = req
    BY <1>3 DEF Settled, SignOutSettled
  <2> QED BY <2>1 DEF TabsTyped, TabFields
<1>4. CASE k = "exchange"
  <2>1. req' = req
    BY <1>4 DEF Settled, ExchangeSettled
  <2>2. CASE answer.ok
    <3>1. tab' = [tab EXCEPT ![t].session = answer.token, ![t].exchange = "done", ![t].page = "app"]
      BY <1>4, <2>2 DEF Settled, ExchangeSettled
    <3> QED BY <2>1, <3>1, <1>1 DEF TabsTyped, TabFields
  <2>3. CASE ~answer.ok
    <3>1. tab' = [tab EXCEPT ![t].exchange = IF network THEN "failed" ELSE "unusable"]
      BY <1>4, <2>3 DEF Settled, ExchangeSettled
    <3> QED BY <2>1, <3>1 DEF TabsTyped, TabFields
  <2> QED BY <2>2, <2>3
<1> QED BY <1>2, <1>3, <1>4 DEF Kinds

(***************************************************************************)
(* The types are an invariant.                                             *)
(***************************************************************************)

\* A step that leaves the sessions and the pages of the tabs.
SessionsKept ==
    /\ DOMAIN tab' = Tabs
    /\ \A t \in Tabs : /\ DOMAIN tab'[t] = TabFields
                       /\ tab'[t].session = tab[t].session /\ tab'[t].page = tab[t].page

\* A step that leaves which rows of the server are of which family and active.
RowsKept == ServerType(server') /\ Numbered(server') /\ KeepsRows(server, server')

\* A step that leaves the rows and the sessions leaves their types.
LEMMA KeptTypes ==
    ASSUME TypeInv
    PROVE  /\ SessionsKept => TabsTyped(tab', Len(server.tokens))
           /\ RowsKept => Len(server'.tokens) = Len(server.tokens)
BY DEF TypeInv, SessionsKept, RowsKept, KeepsRows, TabsTyped

\* The server is the same, or only its link and its answers are others.
LEMMA SameRows ==
    ASSUME TypeInv
    PROVE  /\ server' = server => RowsKept
           /\ \A link \in {"none", "mailed", "used"} :
                server' = [server EXCEPT !.link = link] => RowsKept
           /\ \A refused \in SUBSET Keyed :
                server' = [server EXCEPT !.refused = refused] => RowsKept
<1>1. ServerType(server) /\ Numbered(server) /\ server \in Servers
  BY DEF TypeInv, ServerType
<1>2. ASSUME server'.tokens = server.tokens, server'.clock = server.clock, server' \in Servers
      PROVE  RowsKept
  <2>1. ServerType(server')
    BY <1>1, <1>2 DEF ServerType, Tokens
  <2>2. KeepsRows(server, server')
    BY <1>2 DEF KeepsRows, Active
  <2>3. FamiliesOf(server') = FamiliesOf(server)
    BY <1>2 DEF FamiliesOf, Tokens
  <2>4. Numbered(server')
    BY <1>1, <2>3 DEF Numbered
  <2> QED BY <2>1, <2>2, <2>4 DEF RowsKept
<1>3. ASSUME server' = server PROVE RowsKept
  BY <1>1, <1>2, <1>3
<1>4. ASSUME NEW link \in {"none", "mailed", "used"}, server' = [server EXCEPT !.link = link]
      PROVE  RowsKept
  <2>1. /\ server' \in Servers /\ server'.tokens = server.tokens
        /\ server'.clock = server.clock
    BY <1>1, <1>4 DEF Servers
  <2> QED BY <2>1, <1>2
<1>5. ASSUME NEW refused \in SUBSET Keyed, server' = [server EXCEPT !.refused = refused]
      PROVE  RowsKept
  <2>1. /\ server' \in Servers /\ server'.tokens = server.tokens
        /\ server'.clock = server.clock
    BY <1>1, <1>5 DEF Servers
  <2> QED BY <2>1, <1>2
<1> QED BY <1>3, <1>4, <1>5

\* Everything is well typed at the start, with a session or without.
LEMMA TypeInit == Init => TypeInv
<1> SUFFICES ASSUME Init PROVE TypeInv
  OBVIOUS
<1> DEFINE first == [family |-> 1, revoked |-> 0, aged |-> FALSE]
           rows == IF "mail" \in scene THEN <<>> ELSE <<first>>
           n == Len(rows)
<1>1. server = [tokens |-> rows, clock |-> 1, link |-> "none", expired |-> 0, refused |-> {}]
  BY DEF Init
<1>2. first \in Row
  BY DEF Row
<1>3. \/ /\ "mail" \in scene /\ rows = <<>> /\ n = 0
      \/ "mail" \notin scene /\ rows = <<first>> /\ n = 1
  OBVIOUS
<1>4. rows \in Seq(Row)
  BY <1>2, <1>3
<1>5. /\ server.tokens = rows /\ Len(server.tokens) = n /\ Tokens(server) = 1..n
      /\ n \in Nat
  BY <1>1, <1>3 DEF Tokens
<1>6. ServerType(server)
  <2>1. server \in Servers
    BY <1>1, <1>4 DEF Servers
  <2>2. server.clock = 1 /\ \A m \in Tokens(server) : server.tokens[m].revoked = 0
    BY <1>1, <1>3, <1>5
  <2> QED BY <2>1, <2>2 DEF ServerType
<1>7. Numbered(server)
  <2>1. FamiliesOf(server) = 1..n
    <3>1. CASE n = 0
      BY <3>1, <1>5 DEF FamiliesOf
    <3>2. CASE n = 1
      <4>1. Tokens(server) = {1} /\ server.tokens[1].family = 1
        BY <3>2, <1>3, <1>5
      <4>2. 1..n = {1}
        BY <3>2
      <4> QED BY <4>1, <4>2 DEF FamiliesOf
    <3> QED BY <3>1, <3>2, <1>3
  <2>2. IsFiniteSet(1..n) /\ Cardinality(1..n) = n
    <3>1. n \in Int /\ (1 <= n \/ n = 0)
      BY <1>3
    <3> HIDE DEF n
    <3> QED BY <3>1, FS_Interval
  <2> QED BY <2>1, <2>2 DEF Numbered
<1> HIDE DEF n, rows
<1>8. cookie \in 0..n /\ locks \in BOOLEAN
  BY <1>5 DEF Init
<1>9. TabsTyped(tab, n)
  <2>1. /\ \A x : DOMAIN OpenTab(x) = TabFields /\ OpenTab(x).session = x
        /\ DOMAIN ClosedTab = TabFields /\ ClosedTab.session = 0
    BY DEF OpenTab, ClosedTab, TabFields
  <2>2. CASE "mail" \in scene
    <3>1. PICK t \in Tabs : tab = [u \in Tabs |-> IF u = t THEN OpenTab(0) ELSE ClosedTab]
      BY <2>2 DEF Init
    <3> QED BY <3>1, <2>1, <1>5 DEF TabsTyped
  <2>3. CASE "mail" \notin scene
    <3>1. tab = [t \in Tabs |-> OpenTab(1)]
      BY <2>3 DEF Init
    <3>2. 1 \in 0..n
      BY <2>3, <1>3 DEF n, rows
    <3> QED BY <3>1, <3>2, <2>1 DEF TabsTyped
  <2> QED BY <2>2, <2>3
<1>10. CallsTyped(calls, n)
  <2>1. calls = [t \in Tabs |-> NoCalls]
    BY DEF Init
  <2>2. \A k \in Kinds : GoodCall(k, NoCall, n)
    BY <1>5, FreshCalls
  <2> QED BY <2>1, <2>2 DEF CallsTyped, NoCalls
<1>11. OrphansTyped(orphans, n)
  BY DEF Init, OrphansTyped
<1>12. ReqTyped(req, n)
  <2>1. req = [r \in Requests |-> [phase |-> "none", token |-> 0, answer |-> "none"]]
    BY DEF Init
  <2>2. [phase |-> "none", token |-> 0, answer |-> "none"] \in RequestsTo(n)
    BY <1>5 DEF RequestsTo
  <2> QED BY <2>1, <2>2 DEF ReqTyped
<1> QED BY <1>5, <1>6, <1>7, <1>8, <1>9, <1>10, <1>11, <1>12 DEF TypeInv

\* Steps that put one call: the lock is granted, the server decides, the user signs out,
\* a link is spent.
LEMMA SendTypes ==
    ASSUME TypeInv, NEW t \in Tabs, NEW k \in Kinds, NEW c,
           GoodCall(k, c, Len(server.tokens)), calls' = [calls EXCEPT ![t][k] = c],
           SessionsKept, UNCHANGED <<server, cookie, locks, orphans, req>>
    PROVE  TypeInv'
<1>1. Len(server.tokens) \in Nat
  BY IssuedIsNat DEF TypeInv
<1>2. CallsTyped(calls', Len(server.tokens))
  BY <1>1, PutCall DEF TypeInv
<1>3. TabsTyped(tab', Len(server.tokens))
  BY KeptTypes
<1> QED BY <1>2, <1>3 DEF TypeInv

\* Steps of a page that neither call nor sign in: reads of /config and the form.
LEMMA PageTypes ==
    ASSUME TypeInv, SessionsKept, RowsKept, UNCHANGED <<cookie, locks, calls, orphans, req>>
    PROVE  TypeInv'
BY KeptTypes DEF TypeInv, RowsKept

\* The passing of time.
LEMMA TimeTypes ==
    ASSUME TypeInv, HalfMinutePasses \/ QuarterHourPasses
    PROVE  RowsKept /\ TypeInv'
<1>1. ServerType(server) /\ server \in Servers /\ Numbered(server)
  BY DEF TypeInv, ServerType
<1>2. /\ AllAged \in Seq(Row) /\ Len(AllAged) = Len(server.tokens)
      /\ \A n \in Tokens(server) : /\ AllAged[n].family = server.tokens[n].family
                                   /\ AllAged[n].revoked = server.tokens[n].revoked
  BY <1>1, AgeingKeeps
<1>3. /\ server' \in Servers /\ server'.tokens = AllAged /\ server'.clock = server.clock
  <2>1. Len(server.tokens) \in Nat
    BY <1>1, IssuedIsNat
  <2>2. CASE HalfMinutePasses
    BY <2>2, <1>1, <1>2 DEF HalfMinutePasses, Servers
  <2>3. CASE QuarterHourPasses
    BY <2>1, <2>3, <1>1, <1>2 DEF QuarterHourPasses, Servers
  <2> QED BY <2>2, <2>3
<1>4. Tokens(server') = Tokens(server) /\ Len(server'.tokens) = Len(server.tokens)
  BY <1>2, <1>3 DEF Tokens
<1>5. ServerType(server')
  BY <1>1, <1>2, <1>3, <1>4 DEF ServerType
<1>6. KeepsRows(server, server')
  BY <1>2, <1>3, <1>4 DEF KeepsRows, Active
<1>7. Numbered(server')
  <2>1. FamiliesOf(server') = FamiliesOf(server)
    BY <1>2, <1>3, <1>4 DEF FamiliesOf
  <2> QED BY <2>1, <1>1 DEF Numbered
<1>8. UNCHANGED <<cookie, locks, tab, calls, orphans, req>>
  BY DEF HalfMinutePasses, QuarterHourPasses
<1> QED BY <1>4, <1>5, <1>6, <1>7, <1>8 DEF TypeInv, RowsKept

\* The commit of a call of /auth, which may issue a token.
LEMMA CommitTypes ==
    ASSUME TypeInv, NEW t \in Tabs, NEW k \in Kinds, Commit(t, k)
    PROVE  TypeInv'
<1> DEFINE n == Len(server.tokens)
           m == Len(server'.tokens)
           c == calls[t][k]
<1>1. /\ server' = Committed(server, c) /\ c.phase = "decided"
      /\ calls' = [calls EXCEPT ![t][k] = Done(k, c)]
      /\ UNCHANGED <<cookie, locks, tab, orphans, req>>
  BY DEF Commit
<1>2. ServerType(server) /\ Numbered(server) /\ GoodCall(k, c, n) /\ n \in Nat
  BY IssuedIsNat DEF TypeInv, CallsTyped
<1>3. /\ ServerType(server') /\ Numbered(server') /\ n <= m /\ GoodCall(k, Done(k, c), m)
  BY <1>1, <1>2, CommittedTypes
<1>4. m \in Nat
  BY <1>3, IssuedIsNat
<1> HIDE DEF n, m
<1>5. /\ cookie \in 0..m /\ TabsTyped(tab, m) /\ CallsTyped(calls, m)
      /\ OrphansTyped(orphans, m) /\ ReqTyped(req, m)
  BY <1>2, <1>3, <1>4, TypesGrow DEF TypeInv, n
<1>6. CallsTyped(calls', m)
  BY <1>1, <1>3, <1>4, <1>5, PutCall
<1> QED BY <1>1, <1>3, <1>5, <1>6 DEF TypeInv, m

\* The end of a call: its answer, or the failure of the network.
LEMMA EndTypes ==
    ASSUME TypeInv, NEW t \in Tabs, NEW k \in Kinds, Receive(t, k) \/ LoseCall(t, k)
    PROVE  TypeInv'
<1> DEFINE n == Len(server.tokens)
<1>1. n \in Nat /\ GoodCall(k, calls[t][k], n)
  BY IssuedIsNat DEF TypeInv, CallsTyped
<1>2. GoodAnswer(calls[t][k].answer, n) /\ GoodAnswer(NoAnswer, n) /\ GoodCall(k, NoCall, n)
  BY <1>1, FreshCalls DEF GoodCall
<1>3. calls' = [calls EXCEPT ![t][k] = NoCall] /\ UNCHANGED <<server, locks>>
  BY DEF Receive, LoseCall
<1>4. CallsTyped(calls', n)
  BY <1>1, <1>2, <1>3, PutCall DEF TypeInv
<1>5. TabsTyped(tab', n) /\ ReqTyped(req', n)
  <2>1. PICK answer, network : GoodAnswer(answer, n) /\ Settled(t, k, answer, network)
    BY <1>2 DEF Receive, LoseCall
  <2> HIDE DEF n
  <2> QED BY <2>1, <1>1, SettledTypes DEF TypeInv, n
<1>6. cookie' \in 0..n
  BY <1>2 DEF TypeInv, Receive, LoseCall, CookieAfter, GoodAnswer, AnswersTo
<1>7. OrphansTyped(orphans', n)
  <2>1. \A o \in orphans' : o \in orphans \/ o = Orphan(k, calls[t][k])
    BY DEF Receive, LoseCall
  <2> QED BY <2>1, <1>1 DEF TypeInv, OrphansTyped, Orphan
<1> QED BY <1>3, <1>4, <1>5, <1>6, <1>7 DEF TypeInv

\* The server finishes a call whose page is gone.
LEMMA OrphanTypes ==
    ASSUME TypeInv, NEW o \in orphans, FinishOrphan(o)
    PROVE  TypeInv'
<1> DEFINE n == Len(server.tokens)
           m == Len(server'.tokens)
<1>1. n \in Nat /\ o.kind \in Kinds /\ GoodCall(o.kind, o.call, n)
  BY IssuedIsNat DEF TypeInv, OrphansTyped
<1>2. UNCHANGED <<locks, tab, calls, req>>
  BY DEF FinishOrphan
<1>3. CASE o.call.phase = "sent"
  <2>1. PICK v \in Verdicts(server, o.kind, o.call.cookie) :
          orphans' = (orphans \ {o}) \cup {Orphan(o.kind, Decided(o.call, v))}
    BY <1>3 DEF FinishOrphan
  <2>2. GoodCall(o.kind, Decided(o.call, v), n)
    BY <1>1, <1>3, DecidedTypes
  <2>3. OrphansTyped(orphans', n)
    <3> DEFINE p == Orphan(o.kind, Decided(o.call, v))
    <3>1. p.kind = o.kind /\ p.call = Decided(o.call, v)
      BY DEF Orphan
    <3>2. \A x \in orphans' : x \in orphans \/ x = p
      BY <2>1
    <3> HIDE DEF p
    <3> QED BY <3>1, <3>2, <1>1, <2>2 DEF TypeInv, OrphansTyped
  <2>4. UNCHANGED <<server, cookie>>
    BY <1>3 DEF FinishOrphan
  <2> QED BY <1>2, <2>3, <2>4 DEF TypeInv
<1>4. CASE o.call.phase = "decided"
  <2>1. /\ server' = Committed(server, o.call) /\ orphans' = orphans \ {o}
        /\ cookie' \in {cookie, CookieAfter(AnswerOf(server, o.kind, o.call))}
    BY <1>4 DEF FinishOrphan
  <2>2. /\ ServerType(server') /\ Numbered(server') /\ n <= m
        /\ GoodAnswer(AnswerOf(server, o.kind, o.call), m)
    BY <1>1, <1>4, <2>1, CommittedTypes DEF TypeInv
  <2>3. m \in Nat
    BY <2>2, IssuedIsNat
  <2> HIDE DEF n, m
  <2>4. /\ cookie \in 0..m /\ TabsTyped(tab, m) /\ CallsTyped(calls, m)
        /\ OrphansTyped(orphans, m) /\ ReqTyped(req, m)
    BY <1>1, <2>2, <2>3, TypesGrow DEF TypeInv, n
  <2>5. OrphansTyped(orphans', m)
    BY <2>1, <2>4 DEF OrphansTyped
  <2>6. cookie' \in 0..m
    BY <2>1, <2>2, <2>4 DEF CookieAfter, GoodAnswer, AnswersTo
  <2> QED BY <1>2, <2>2, <2>4, <2>5, <2>6 DEF TypeInv, m
<1> QED BY <1>3, <1>4 DEF FinishOrphan

\* The requests of a tab: each goes on with a token that was issued.
LEMMA RequestTypes ==
    ASSUME TypeInv, NEW r \in Requests, SendRequest(r) \/ FirstAnswer(r) \/ SecondAnswer(r)
    PROVE  RowsKept /\ TypeInv'
<1> DEFINE n == Len(server.tokens)
<1>1. /\ n \in Nat /\ req[r] \in RequestsTo(n) /\ DOMAIN req = Requests
      /\ TabOf[r] \in Tabs
  BY IssuedIsNat, SessionAssumption DEF TypeInv, ReqTyped
<1>2. UNCHANGED <<cookie, locks, tab, orphans>>
  BY DEF SendRequest, FirstAnswer, SecondAnswer
<1>3. RowsKept
  <2>1. server.refused \in SUBSET Keyed
    BY DEF TypeInv, ServerType, Servers
  <2>2. CASE server' = server
    BY <2>2, SameRows
  <2>3. CASE server' = Stored(r)
    <3> DEFINE refused == IF Refuses(r) /\ r \in Keyed THEN server.refused \cup {r}
                          ELSE server.refused
    <3>1. server' = [server EXCEPT !.refused = refused]
      BY <2>3 DEF Stored
    <3>2. refused \in SUBSET Keyed
      BY <2>1
    <3> HIDE DEF refused
    <3> QED BY <3>1, <3>2, SameRows
  <2> QED BY <2>2, <2>3 DEF SendRequest, FirstAnswer, SecondAnswer
<1>4. ReqTyped(req', n)
  <2>1. CASE SendRequest(r)
    <3>1. /\ tab[TabOf[r]].session \in 0..n /\ tab[TabOf[r]].session # 0
          /\ req' = [req EXCEPT ![r].phase = "sent", ![r].token = tab[TabOf[r]].session]
      BY <2>1, <1>1 DEF SendRequest, TypeInv, TabsTyped
    <3>2. req' = [req EXCEPT ![r] = [req[r] EXCEPT !.phase = "sent",
                                                   !.token = tab[TabOf[r]].session]]
      BY <3>1
    <3>3. /\ req'[r] \in RequestsTo(n) /\ req'[r].token # 0
          /\ DOMAIN req' = Requests /\ \A q \in Requests : q # r => req'[q] = req[q]
      BY <1>1, <3>1, <3>2 DEF RequestsTo
    <3> QED BY <3>3 DEF TypeInv, ReqTyped
  <2>2. CASE FirstAnswer(r) \/ SecondAnswer(r)
    <3>1. req[r].token # 0
      BY <2>2, <1>1 DEF FirstAnswer, SecondAnswer, TypeInv, ReqTyped
    <3>2. \/ req' = [req EXCEPT ![r].phase = "refreshing"]
          \/ \E answer \in {"ok", "expired"} :
               req' = [req EXCEPT ![r].phase = "done", ![r].answer = answer]
      BY <2>2 DEF FirstAnswer, SecondAnswer
    <3>3. /\ req'[r] \in RequestsTo(n) /\ req'[r].token # 0
          /\ DOMAIN req' = Requests /\ \A q \in Requests : q # r => req'[q] = req[q]
      BY <1>1, <3>1, <3>2 DEF RequestsTo
    <3> QED BY <3>3 DEF TypeInv, ReqTyped
  <2> QED BY <2>1, <2>2
<1>5. CallsTyped(calls', n)
  <2>1. calls' = calls \/ calls' = Refreshed(calls, TabOf[r])
    BY DEF SendRequest, FirstAnswer, SecondAnswer
  <2> QED BY <2>1, <1>1, RefreshedTypes DEF TypeInv
<1> QED BY <1>2, <1>3, <1>4, <1>5, KeptTypes DEF TypeInv, RowsKept

\* A page that is opened or reloaded holds no session, and the calls it leaves behind
\* are as good as they were.
LEMMA OpenTypes ==
    ASSUME TypeInv, NEW t \in Tabs, Reload(t) \/ OpenCallback(t)
    PROVE  RowsKept /\ TypeInv'
<1> DEFINE n == Len(server.tokens)
<1>1. n \in Nat /\ \A k \in Kinds : GoodCall(k, calls[t][k], n)
  BY IssuedIsNat DEF TypeInv, CallsTyped
<1>2. UNCHANGED locks
  BY DEF Reload, OpenCallback
<1>3. RowsKept
  <2>1. \/ server' = server
        \/ \E link \in {"none", "mailed", "used"} : server' = [server EXCEPT !.link = link]
    BY DEF Reload, OpenCallback
  <2> QED BY <2>1, SameRows
<1>4. CallsTyped(calls', n)
  <2>1. calls' = Booted(t)
    BY DEF Reload, OpenCallback
  <2> QED BY <2>1, <1>1, BootedTypes DEF TypeInv
<1>5. TabsTyped(tab', n)
  <2>1. PICK page : tab' = [tab EXCEPT ![t] = BootingTab(page)]
    BY DEF Reload, OpenCallback
  <2>2. DOMAIN BootingTab(page) = TabFields /\ BootingTab(page).session = 0
    BY DEF BootingTab, OpenTab, TabFields
  <2>3. 0 \in 0..n
    BY <1>1
  <2> QED BY <2>1, <2>2, <2>3 DEF TypeInv, TabsTyped
<1>6. cookie' \in 0..n
  <2>1. \A k \in Kinds : CookieAfter(calls[t][k].answer) \in 0..n
    BY <1>1 DEF CookieAfter, TypeInv, GoodCall, GoodAnswer, AnswersTo
  <2>2. cookie' = cookie \/ \E k \in Kinds : cookie' = CookieAfter(calls[t][k].answer)
    BY DEF Reload, OpenCallback
  <2> QED BY <2>1, <2>2 DEF TypeInv
<1>7. OrphansTyped(orphans', n)
  <2>1. \A o \in Left(t) : o.kind \in Kinds /\ GoodCall(o.kind, o.call, n)
    BY <1>1 DEF Left, Orphan
  <2>2. orphans' = orphans \cup Left(t) \/ orphans' = orphans
    BY DEF Reload, OpenCallback
  <2> QED BY <2>1, <2>2 DEF TypeInv, OrphansTyped
<1>8. ReqTyped(req', n)
  <2>1. CASE Reload(t)
    <3>1. DOMAIN req' = Requests
      BY <2>1 DEF Reload
    <3>2. \A r \in Requests :
            req'[r] = IF TabOf[r] = t /\ req[r].phase # "none"
                      THEN [req[r] EXCEPT !.phase = "done"] ELSE req[r]
      BY <2>1 DEF Reload
    <3>3. ASSUME NEW r \in Requests
          PROVE  req'[r] \in RequestsTo(n) /\ (req'[r].phase # "none" => req'[r].token # 0)
      <4>1. req[r] \in RequestsTo(n) /\ (req[r].phase # "none" => req[r].token # 0)
        BY DEF TypeInv, ReqTyped
      <4> QED BY <4>1, <3>2 DEF RequestsTo
    <3> QED BY <3>1, <3>3 DEF ReqTyped
  <2>2. CASE OpenCallback(t)
    BY <2>2 DEF OpenCallback, TypeInv
  <2> QED BY <2>1, <2>2
<1> QED BY <1>2, <1>3, <1>4, <1>5, <1>6, <1>7, <1>8, KeptTypes DEF TypeInv, RowsKept

\* The steps of a page that keep its session: the reads of /config, the form of
\* /sign-in, and the spending of a link.
PageStep(t) ==
    \/ ConfigRead(t) \/ ConfigTimer(t) \/ ConfigRetry(t)
    \/ SubmitAddress(t) \/ EditAddress(t) \/ UseDifferentAddress(t) \/ AddressAnswered(t)
SpendStep(t) == Exchange(t) \/ RetryExchange(t)

\* They change other fields of the tab.
LEMMA PageKeeps ==
    ASSUME TypeInv, NEW t \in Tabs, PageStep(t) \/ SpendStep(t)
    PROVE  SessionsKept
<1>1. DOMAIN tab = Tabs /\ \A u \in Tabs : DOMAIN tab[u] = TabFields
  BY DEF TypeInv, TabsTyped
<1>2. CASE ConfigRead(t)
  BY <1>1, <1>2 DEF ConfigRead, SessionsKept, TabFields
<1>3. CASE ConfigTimer(t)
  BY <1>1, <1>3 DEF ConfigTimer, SessionsKept, TabFields
<1>4. CASE ConfigRetry(t)
  BY <1>1, <1>4 DEF ConfigRetry, SessionsKept, TabFields
<1>5. CASE SubmitAddress(t)
  BY <1>1, <1>5 DEF SubmitAddress, SessionsKept, TabFields
<1>6. CASE EditAddress(t)
  BY <1>1, <1>6 DEF EditAddress, SessionsKept, TabFields
<1>7. CASE UseDifferentAddress(t)
  BY <1>1, <1>7 DEF UseDifferentAddress, SessionsKept, TabFields
<1>8. CASE AddressAnswered(t)
  BY <1>1, <1>8 DEF AddressAnswered, SessionsKept, TabFields
<1>9. CASE SpendStep(t)
  BY <1>1, <1>9 DEF SpendStep, Exchange, RetryExchange, Spend, SessionsKept, TabFields
<1> QED BY <1>2, <1>3, <1>4, <1>5, <1>6, <1>7, <1>8, <1>9 DEF PageStep

\* They leave the rows of the server: a mailed link is no token.
LEMMA PageRows ==
    ASSUME TypeInv, NEW t \in Tabs, PageStep(t)
    PROVE  RowsKept /\ UNCHANGED <<cookie, locks, calls, orphans, req, history>>
<1>1. server' = server \/ server' = [server EXCEPT !.link = "mailed"]
  BY DEF PageStep, ConfigRead, ConfigTimer, ConfigRetry, SubmitAddress, EditAddress,
         UseDifferentAddress, AddressAnswered
<1>2. UNCHANGED <<cookie, locks, calls, orphans, req, history>>
  BY DEF PageStep, ConfigRead, ConfigTimer, ConfigRetry, SubmitAddress, EditAddress,
         UseDifferentAddress, AddressAnswered
<1> QED BY <1>1, <1>2, SameRows

\* The steps of Next by what they do to the tokens.
LEMMA StepKinds ==
    ASSUME Next
    PROVE  \/ \E t \in Tabs : Grant(t) \/ SignOut(t) \/ PageStep(t) \/ SpendStep(t)
           \/ \E t \in Tabs : Reload(t) \/ OpenCallback(t)
           \/ \E t \in Tabs, k \in Kinds :
                Decide(t, k) \/ Commit(t, k) \/ Receive(t, k) \/ LoseCall(t, k)
           \/ \E o \in orphans : FinishOrphan(o)
           \/ \E r \in Requests : SendRequest(r) \/ FirstAnswer(r) \/ SecondAnswer(r)
           \/ HalfMinutePasses \/ QuarterHourPasses
<1>1. ASSUME NEW t \in Tabs, CallStep(t)
      PROVE  Grant(t) \/ \E k \in Kinds : Decide(t, k) \/ Commit(t, k) \/ Receive(t, k)
  BY <1>1 DEF CallStep
<1>2. ASSUME NEW t \in Tabs, BootStep(t) \/ UserStep(t) \/ AddressAnswered(t)
      PROVE  \/ SignOut(t) \/ PageStep(t) \/ SpendStep(t) \/ Reload(t) \/ OpenCallback(t)
  BY <1>2 DEF BootStep, UserStep, PageStep, SpendStep
<1>3. ASSUME NEW r \in Requests, SendRequest(r) \/ RequestStep(r)
      PROVE  SendRequest(r) \/ FirstAnswer(r) \/ SecondAnswer(r)
  BY <1>3 DEF RequestStep
<1>4. CASE \E t \in Tabs : CallStep(t) \/ BootStep(t) \/ UserStep(t) \/ AddressAnswered(t)
  BY <1>1, <1>2, <1>4
<1>5. CASE \E t \in Tabs, k \in Kinds : LoseCall(t, k)
  BY <1>5
<1>6. CASE \E r \in Requests : SendRequest(r) \/ RequestStep(r)
  BY <1>3, <1>6
<1>7. CASE \E o \in orphans : FinishOrphan(o)
  BY <1>7
<1>8. CASE HalfMinutePasses \/ QuarterHourPasses
  BY <1>8
<1> QED BY <1>4, <1>5, <1>6, <1>7, <1>8 DEF Next

\* Every step keeps the types.
LEMMA TypeStep == TypeInv /\ [Next]_vars => TypeInv'
<1> SUFFICES ASSUME TypeInv, [Next]_vars PROVE TypeInv'
  OBVIOUS
<1> DEFINE n == Len(server.tokens)
<1>1. n \in Nat /\ cookie \in 0..n /\ DOMAIN tab = Tabs
  BY IssuedIsNat DEF TypeInv, TabsTyped
<1>2. tab' = tab => SessionsKept
  BY DEF TypeInv, TabsTyped, SessionsKept
<1>3. \A k \in Kinds : GoodCall(k, Sent(cookie), n)
  BY <1>1, FreshCalls
<1>4. "refresh" \in Kinds /\ "logout" \in Kinds /\ "exchange" \in Kinds
  BY DEF Kinds
<1>5. ASSUME NEW t \in Tabs, Grant(t) PROVE TypeInv'
  <2>1. /\ calls' = [calls EXCEPT ![t]["refresh"] = Sent(cookie)]
        /\ UNCHANGED <<server, cookie, locks, tab, orphans, req>>
    BY <1>5 DEF Grant
  <2> QED BY <2>1, <1>2, <1>3, <1>4, SendTypes
<1>6. ASSUME NEW t \in Tabs, SignOut(t) PROVE TypeInv'
  <2>1. /\ calls' = [calls EXCEPT ![t]["logout"] = Sent(cookie)]
        /\ UNCHANGED <<server, cookie, locks, tab, orphans, req>>
    BY <1>6 DEF SignOut
  <2> QED BY <2>1, <1>2, <1>3, <1>4, SendTypes
<1>7. ASSUME NEW t \in Tabs, SpendStep(t) PROVE TypeInv'
  <2>1. /\ calls' = [calls EXCEPT ![t]["exchange"] = Sent(cookie)]
        /\ UNCHANGED <<server, cookie, locks, orphans, req>>
    BY <1>7 DEF SpendStep, Exchange, RetryExchange, Spend
  <2>2. SessionsKept
    BY <1>7, PageKeeps
  <2> QED BY <2>1, <2>2, <1>3, <1>4, SendTypes
<1>8. ASSUME NEW t \in Tabs, PageStep(t) PROVE TypeInv'
  <2>1. SessionsKept
    BY <1>8, PageKeeps
  <2>2. RowsKept /\ UNCHANGED <<cookie, locks, calls, orphans, req>>
    BY <1>8, PageRows
  <2> QED BY <2>1, <2>2, PageTypes
<1>9. ASSUME NEW t \in Tabs, NEW k \in Kinds, Decide(t, k) PROVE TypeInv'
  <2>1. PICK v \in Verdicts(server, k, calls[t][k].cookie) :
          calls' = [calls EXCEPT ![t][k] = Decided(@, v)]
    BY <1>9 DEF Decide
  <2>2. calls' = [calls EXCEPT ![t][k] = Decided(calls[t][k], v)]
    BY <2>1
  <2>3. GoodCall(k, calls[t][k], n) /\ calls[t][k].phase = "sent"
    BY <1>9 DEF Decide, TypeInv, CallsTyped
  <2>4. GoodCall(k, Decided(calls[t][k], v), n)
    BY <1>1, <2>3, DecidedTypes
  <2>5. UNCHANGED <<server, cookie, locks, tab, orphans, req>>
    BY <1>9 DEF Decide
  <2> QED BY <2>2, <2>4, <2>5, <1>2, SendTypes
<1>10. CASE UNCHANGED vars
  BY <1>10 DEF vars, TypeInv
<1>11. CASE Next
  BY <1>11, <1>5, <1>6, <1>7, <1>8, <1>9, StepKinds, OpenTypes, CommitTypes, EndTypes,
     OrphanTypes, RequestTypes, TimeTypes
<1> QED BY <1>10, <1>11

\* The type invariant of the runs follows.
LEMMA TypeInvImplies == TypeInv => TypeOK
<1> SUFFICES ASSUME TypeInv PROVE TypeOK
  OBVIOUS
<1>1. Len(server.tokens) \in Nat /\ TokenOrNone = 0..Len(server.tokens)
  BY IssuedIsNat DEF TypeInv, TokenOrNone
<1>2. /\ server \in Servers
      /\ \A n \in Tokens(server) : server.tokens[n].revoked <= server.clock
  BY DEF TypeInv, ServerType
<1>3. ASSUME NEW n \in Tokens(server) PROVE server.tokens[n].revoked \in 0..server.clock
  <2>1. server.tokens[n] \in Row /\ server.clock \in Nat
    BY <1>2 DEF Servers, Tokens
  <2>2. server.tokens[n].revoked \in Nat
    BY <2>1 DEF Row
  <2> QED BY <2>1, <2>2, <1>2
<1>4. server.link \in {"none", "mailed", "used"} /\ server.refused \subseteq Keyed
  BY <1>2 DEF Servers
<1>5. \A t \in Tabs, k \in Kinds : /\ calls[t][k].cookie \in TokenOrNone
                                   /\ calls[t][k].answer.token \in TokenOrNone
  BY <1>1 DEF TypeInv, CallsTyped, GoodCall, CallsTo, AnswersTo
<1>6. ASSUME NEW r \in Requests, req[r].phase # "none"
      PROVE  req[r].token \in 1..Len(server.tokens)
  <2>1. req[r] \in RequestsTo(Len(server.tokens)) /\ req[r].token # 0
    BY <1>6 DEF TypeInv, ReqTyped
  <2> QED BY <2>1, <1>1 DEF RequestsTo
<1> QED BY <1>1, <1>3, <1>4, <1>5, <1>6 DEF TypeOK, TypeInv, TabsTyped

\* Every cookie, access token and answer is of a token that was issued, and a request
\* goes on only with a token: session.ts, client.ts and services/auth.py.
THEOREM TypeCorrect == Spec => []TypeOK
<1>1. Spec => []TypeInv
  BY TypeInit, TypeStep, PTL DEF Spec
<1> QED BY <1>1, TypeInvImplies, PTL

(***************************************************************************)
(* A page that is closed waits for nothing.                                *)
(***************************************************************************)

Closed(t) == tab[t].page = "closed"
PagesInv ==
    /\ \A t \in Tabs : Closed(t) => \A k \in Kinds : calls[t][k].phase = "none"
    /\ \A r \in Requests : req[r].phase # "none" => ~Closed(TabOf[r])

\* What one step may do to it: no page closes, and only an open page calls.
PagesStep ==
    /\ \A t \in Tabs : tab'[t].page = "closed" => Closed(t)
    /\ \A t \in Tabs, k \in Kinds :
         Closed(t) => calls'[t][k] = calls[t][k] \/ tab'[t].page # "closed"
    /\ \A r \in Requests :
         req'[r].phase # "none" => \/ req[r].phase # "none" \/ ~Closed(TabOf[r])

\* Putting one call of a tab changes that call only.
LEMMA CallPut ==
    ASSUME TypeInv, NEW t \in Tabs, NEW k \in Kinds, NEW c,
           calls' = [calls EXCEPT ![t][k] = c]
    PROVE  \A u \in Tabs, j \in Kinds :
             calls'[u][j] = IF u = t /\ j = k THEN c ELSE calls[u][j]
BY DEF TypeInv, CallsTyped

\* The calls of the page of a tab that is opened: its refresh, and those of other tabs.
LEMMA CallsOfBooted ==
    ASSUME TypeInv, NEW t \in Tabs
    PROVE  /\ \A u \in Tabs \ {t}, k \in Kinds : Booted(t)[u][k] = calls[u][k]
           /\ \A k \in Kinds \ {"refresh"} : Booted(t)[t][k] = NoCall
           /\ locks => Booted(t)[t]["refresh"] = [NoCall EXCEPT !.phase = "queued"]
<1> DEFINE cs == [calls EXCEPT ![t] = NoCalls]
           c == IF locks THEN [NoCall EXCEPT !.phase = "queued"] ELSE Sent(cookie)
<1>1. DOMAIN cs = Tabs /\ \A u \in Tabs : cs[u] = IF u = t THEN NoCalls ELSE calls[u]
  BY DEF TypeInv, CallsTyped
<1>2. /\ DOMAIN NoCalls = Kinds /\ \A k \in Kinds : NoCalls[k] = NoCall
      /\ "refresh" \in Kinds /\ NoCall.phase = "none"
  BY DEF NoCalls, Kinds, NoCall
<1>3. Booted(t) = IF cs[t]["refresh"].phase # "none" THEN cs
                  ELSE [cs EXCEPT ![t]["refresh"] = c]
  BY DEF Booted, Refreshed
<1> HIDE DEF cs, c
<1>4. Booted(t) = [cs EXCEPT ![t]["refresh"] = c]
  BY <1>1, <1>2, <1>3
<1>5. \A u \in Tabs, k \in Kinds :
        Booted(t)[u][k] = IF u = t /\ k = "refresh" THEN c ELSE cs[u][k]
  BY <1>1, <1>2, <1>4 DEF TypeInv, CallsTyped
<1> QED BY <1>1, <1>2, <1>5 DEF c

\* The end of a call leaves the page as it was, or shows the application, and starts no
\* request.
LEMMA SettledPages ==
    ASSUME TypeInv, NEW t \in Tabs, NEW k \in Kinds, NEW answer, NEW network,
           Settled(t, k, answer, network)
    PROVE  /\ \A u \in Tabs : tab'[u].page = "closed" => Closed(u)
           /\ \A r \in Requests : req'[r].phase # "none" => req[r].phase # "none"
<1>1. DOMAIN tab = Tabs /\ \A u \in Tabs : DOMAIN tab[u] = TabFields
  BY DEF TypeInv, TabsTyped
<1>2. CASE k = "refresh"
  <2>1. /\ tab' = [tab EXCEPT ![t].session = answer.token, ![t].probe = "done"]
        /\ req' = Resumed(t, answer.token)
    BY <1>2 DEF Settled, RefreshSettled
  <2>2. \A u \in Tabs : tab'[u].page = tab[u].page
    BY <2>1, <1>1 DEF TabFields
  <2>3. ASSUME NEW r \in Requests, req[r].phase = "none" PROVE req'[r] = req[r]
    BY <2>1, <2>3 DEF Resumed
  <2> QED BY <2>2, <2>3 DEF Closed
<1>3. CASE k = "logout"
  <2>1. tab' = [tab EXCEPT ![t].session = 0] /\ req' = req
    BY <1>3 DEF Settled, SignOutSettled
  <2>2. \A u \in Tabs : tab'[u].page = tab[u].page
    BY <2>1, <1>1 DEF TabFields
  <2> QED BY <2>1, <2>2 DEF Closed
<1>4. CASE k = "exchange"
  <2>1. req' = req
    BY <1>4 DEF Settled, ExchangeSettled
  <2>2. \A u \in Tabs : tab'[u].page = tab[u].page \/ tab'[u].page = "app"
    <3>1. CASE answer.ok
      <4>1. tab' = [tab EXCEPT ![t].session = answer.token, ![t].exchange = "done",
                               ![t].page = "app"]
        BY <1>4, <3>1 DEF Settled, ExchangeSettled
      <4> QED BY <4>1, <1>1 DEF TabFields
    <3>2. CASE ~answer.ok
      <4>1. tab' = [tab EXCEPT ![t].exchange = IF network THEN "failed" ELSE "unusable"]
        BY <1>4, <3>2 DEF Settled, ExchangeSettled
      <4> QED BY <4>1, <1>1 DEF TabFields
    <3> QED BY <3>1, <3>2
  <2> QED BY <2>1, <2>2 DEF Closed
<1> QED BY <1>2, <1>3, <1>4 DEF Kinds

\* At the start nobody waits.
LEMMA PagesInit == Init => PagesInv
<1> SUFFICES ASSUME Init PROVE PagesInv
  OBVIOUS
<1>1. \A t \in Tabs, k \in Kinds : calls[t][k].phase = "none"
  BY DEF Init, NoCalls, NoCall
<1>2. \A r \in Requests : req[r].phase = "none"
  BY DEF Init
<1> QED BY <1>1, <1>2 DEF PagesInv

\* A step as PagesStep says keeps the invariant.
LEMMA PagesKept == ASSUME PagesInv, PagesStep PROVE PagesInv'
<1>1. ASSUME NEW t \in Tabs, tab'[t].page = "closed", NEW k \in Kinds
      PROVE  calls'[t][k].phase = "none"
  BY <1>1 DEF PagesInv, PagesStep
<1>2. ASSUME NEW r \in Requests, req'[r].phase # "none" PROVE tab'[TabOf[r]].page # "closed"
  BY <1>2, SessionAssumption DEF PagesInv, PagesStep
<1> QED BY <1>1, <1>2 DEF PagesInv, Closed

\* Every step is as PagesStep says.
LEMMA PagesNext == ASSUME TypeInv, PagesInv, [Next]_vars PROVE PagesStep
<1>1. ASSUME \A u \in Tabs : tab'[u].page = tab[u].page, req' = req,
             NEW t \in Tabs, ~Closed(t), NEW k \in Kinds, NEW c,
             calls' = [calls EXCEPT ![t][k] = c]
      PROVE  PagesStep
  BY <1>1, CallPut DEF PagesStep, Closed
<1>2. ASSUME NEW t \in Tabs, Grant(t) PROVE PagesStep
  <2>1. "refresh" \in Kinds /\ calls[t]["refresh"].phase = "queued"
    BY <1>2 DEF Kinds, Grant
  <2>2. ~Closed(t)
    BY <2>1 DEF PagesInv
  <2>3. calls' = [calls EXCEPT ![t]["refresh"] = Sent(cookie)] /\ UNCHANGED <<tab, req>>
    BY <1>2 DEF Grant
  <2> QED BY <2>1, <2>2, <2>3, <1>1
<1>3. ASSUME NEW t \in Tabs, SignOut(t) PROVE PagesStep
  <2>1. /\ calls' = [calls EXCEPT ![t]["logout"] = Sent(cookie)] /\ UNCHANGED <<tab, req>>
        /\ ~Closed(t) /\ "logout" \in Kinds
    BY <1>3 DEF SignOut, Up, Closed, Kinds
  <2> QED BY <2>1, <1>1
<1>4. ASSUME NEW t \in Tabs, SpendStep(t) PROVE PagesStep
  <2>1. SessionsKept /\ ~Closed(t) /\ "exchange" \in Kinds
    BY <1>4, PageKeeps DEF SpendStep, Exchange, RetryExchange, Up, Closed, Kinds
  <2>2. calls' = [calls EXCEPT ![t]["exchange"] = Sent(cookie)] /\ req' = req
    BY <1>4 DEF SpendStep, Exchange, RetryExchange, Spend
  <2>3. \A u \in Tabs : tab'[u].page = tab[u].page
    BY <2>1 DEF SessionsKept
  <2> QED BY <2>1, <2>2, <2>3, <1>1
<1>5. ASSUME NEW t \in Tabs, PageStep(t) PROVE PagesStep
  <2>1. SessionsKept /\ UNCHANGED <<calls, req>>
    BY <1>5, PageKeeps, PageRows
  <2> QED BY <2>1 DEF PagesStep, SessionsKept, Closed
<1>6. ASSUME NEW t \in Tabs, NEW k \in Kinds, Decide(t, k) \/ Commit(t, k) PROVE PagesStep
  <2>1. calls[t][k].phase # "none" /\ UNCHANGED <<tab, req>>
    BY <1>6 DEF Decide, Commit
  <2>2. ~Closed(t)
    BY <2>1 DEF PagesInv
  <2>3. \E c : calls' = [calls EXCEPT ![t][k] = c]
    BY <1>6 DEF Decide, Commit
  <2> QED BY <2>1, <2>2, <2>3, <1>1
<1>7. ASSUME NEW t \in Tabs, NEW k \in Kinds, Receive(t, k) \/ LoseCall(t, k) PROVE PagesStep
  <2>1. calls[t][k].phase # "none"
    BY <1>7 DEF Receive, LoseCall
  <2>2. ~Closed(t)
    BY <2>1 DEF PagesInv
  <2>3. calls' = [calls EXCEPT ![t][k] = NoCall]
    BY <1>7 DEF Receive, LoseCall
  <2>4. PICK answer, network : Settled(t, k, answer, network)
    BY <1>7 DEF Receive, LoseCall
  <2> QED BY <2>2, <2>3, <2>4, CallPut, SettledPages DEF PagesStep
<1>8. ASSUME NEW t \in Tabs, Reload(t) \/ OpenCallback(t) PROVE PagesStep
  <2>1. calls' = Booted(t)
    BY <1>8 DEF Reload, OpenCallback
  <2>2. PICK page : tab' = [tab EXCEPT ![t] = BootingTab(page)] /\ page # "closed"
    BY <1>8 DEF Reload, OpenCallback
  <2>3. BootingTab(page).page = page
    BY DEF BootingTab, OpenTab
  <2>4. tab'[t].page # "closed" /\ \A u \in Tabs \ {t} : tab'[u] = tab[u]
    BY <2>2, <2>3 DEF TypeInv, TabsTyped
  <2>5. \A u \in Tabs \ {t}, k \in Kinds : calls'[u][k] = calls[u][k]
    BY <2>1, CallsOfBooted
  <2>6. ASSUME NEW r \in Requests, req[r].phase = "none" PROVE req'[r] = req[r]
    BY <1>8, <2>6 DEF Reload, OpenCallback
  <2> QED BY <2>4, <2>5, <2>6 DEF PagesStep, Closed
<1>9. ASSUME NEW r \in Requests, SendRequest(r) \/ FirstAnswer(r) \/ SecondAnswer(r)
      PROVE  PagesStep
  <2>1. TabOf[r] \in Tabs /\ DOMAIN req = Requests /\ UNCHANGED tab
    BY <1>9, SessionAssumption DEF TypeInv, ReqTyped, SendRequest, FirstAnswer, SecondAnswer
  <2>2. ~Closed(TabOf[r])
    BY <1>9 DEF SendRequest, FirstAnswer, SecondAnswer, Up, Closed, PagesInv
  <2>3. \A q \in Requests \ {r} : req'[q] = req[q]
    BY <1>9, <2>1 DEF SendRequest, FirstAnswer, SecondAnswer
  <2>4. \A u \in Tabs \ {TabOf[r]}, k \in Kinds : calls'[u][k] = calls[u][k]
    BY <1>9 DEF SendRequest, FirstAnswer, SecondAnswer, Refreshed, TypeInv, CallsTyped
  <2> QED BY <2>1, <2>2, <2>3, <2>4 DEF PagesStep, Closed
<1>10. ASSUME NEW o \in orphans, FinishOrphan(o) PROVE PagesStep
  BY <1>10 DEF FinishOrphan, PagesStep, Closed
<1>11. CASE HalfMinutePasses \/ QuarterHourPasses
  BY <1>11 DEF HalfMinutePasses, QuarterHourPasses, PagesStep, Closed
<1>12. CASE UNCHANGED vars
  BY <1>12 DEF vars, PagesStep, Closed
<1>13. CASE Next
  BY <1>13, <1>2, <1>3, <1>4, <1>5, <1>6, <1>7, <1>8, <1>9, <1>10, <1>11, StepKinds
<1> QED BY <1>12, <1>13

(***************************************************************************)
(* The time in which nothing has happened that may end a session.          *)
(***************************************************************************)

Calm == locks /\ history = {}

\* A tab holds the lock, presents a cookie to the server, or brings a token.
Holds(t) == calls[t]["refresh"].phase \notin {"none", "queued"}
Presents(t) ==
    calls[t]["refresh"].phase \in {"sent", "decided"} /\ calls[t]["refresh"].cookie # 0
Brings(t, k) == calls[t][k].phase = "answered" /\ calls[t][k].answer.token # 0
Brought(t, k) == calls[t][k].answer.token

\* The server finishes no call that nobody waits for, and nobody signs out.
NothingLost == orphans = {} /\ \A t \in Tabs : calls[t]["logout"].phase = "none"

\* The lock is exclusive.
OneHolder == \A t, u \in Tabs : Holds(t) /\ Holds(u) => t = u

\* A cookie that is presented is active until it is rotated, and the server rotates it.
PresentedServed ==
    \A t \in Tabs : Presents(t) =>
        /\ Active(server, calls[t]["refresh"].cookie)
        /\ calls[t]["refresh"].phase = "decided" => calls[t]["refresh"].verdict = "rotate"

\* A token on its way to a tab is active, and nobody else has it.
BroughtFresh ==
    \A t \in Tabs, k \in Kinds : Brings(t, k) =>
        /\ Active(server, Brought(t, k)) /\ Brought(t, k) # cookie
        /\ \A u \in Tabs : Presents(u) => calls[u]["refresh"].cookie # Brought(t, k)
        /\ \A u \in Tabs, j \in Kinds :
             Brings(u, j) /\ (u # t \/ j # k) => Brought(u, j) # Brought(t, k)

\* The cookie is active, but for a rotation whose answer is on its way.
CookieServed ==
    cookie = 0 \/ Active(server, cookie) \/ \E t \in Tabs : Brings(t, "refresh")

\* Each family has one active token.
OneActive(s) ==
    \A n \in Tokens(s) : \E m \in FamilyOf(s, n) : \A l \in FamilyOf(s, n) :
        Active(s, l) <=> l = m

Honest ==
    /\ NothingLost /\ OneHolder /\ PresentedServed /\ BroughtFresh /\ CookieServed
    /\ OneActive(server)

\* The tokens that the invariant speaks of are rows of the server.
LEMMA TheirRows ==
    ASSUME TypeInv
    PROVE  /\ \A t \in Tabs : Presents(t) => calls[t]["refresh"].cookie \in Tokens(server)
           /\ \A t \in Tabs, k \in Kinds : Brings(t, k) => Brought(t, k) \in Tokens(server)
           /\ cookie # 0 => cookie \in Tokens(server)
           /\ Len(server.tokens) \in Nat
<1>1. Len(server.tokens) \in Nat /\ Tokens(server) = 1..Len(server.tokens)
  BY IssuedIsNat DEF TypeInv, Tokens
<1>2. ASSUME NEW t \in Tabs, NEW k \in Kinds
      PROVE  /\ calls[t][k].cookie \in 0..Len(server.tokens)
             /\ Brought(t, k) \in 0..Len(server.tokens)
  BY DEF TypeInv, CallsTyped, GoodCall, CallsTo, AnswersTo, Brought
<1>3. "refresh" \in Kinds
  BY DEF Kinds
<1>4. \A x \in 0..Len(server.tokens) : x # 0 => x \in Tokens(server)
  BY <1>1
<1>5. ASSUME NEW t \in Tabs, Presents(t) PROVE calls[t]["refresh"].cookie \in Tokens(server)
  <2>1. calls[t]["refresh"].cookie \in 0..Len(server.tokens)
    BY <1>2, <1>3
  <2> QED BY <2>1, <1>4, <1>5 DEF Presents
<1>6. ASSUME NEW t \in Tabs, NEW k \in Kinds, Brings(t, k) PROVE Brought(t, k) \in Tokens(server)
  BY <1>2, <1>4, <1>6 DEF Brings, Brought
<1> QED BY <1>1, <1>4, <1>5, <1>6 DEF TypeInv

\* A rotation moves the one active token of its family; a new session has one; and
\* rows that are kept keep theirs.
LEMMA OneActiveStays ==
    ASSUME NEW s, ServerType(s), OneActive(s), NEW q
    PROVE  /\ \A n \in Tokens(s) : Active(s, n) /\ Rotates(s, n, q) => OneActive(q)
           /\ Issues(s, q) => OneActive(q)
           /\ KeepsRows(s, q) => OneActive(q)
<1> DEFINE L == Len(s.tokens) + 1
<1>1. Len(s.tokens) \in Nat /\ L \notin Tokens(s)
  BY IssuedIsNat DEF Tokens
<1>2. ASSUME NEW n \in Tokens(s), Active(s, n), Rotates(s, n, q) PROVE OneActive(q)
  <2>1. /\ Tokens(q) = Tokens(s) \cup {L}
        /\ \A m \in Tokens(s) : q.tokens[m].family = s.tokens[m].family
        /\ \A m \in Tokens(s) \ {n} : Active(q, m) <=> Active(s, m)
        /\ ~Active(q, n) /\ Active(q, L) /\ q.tokens[L].family = s.tokens[n].family
    BY <1>1, <1>2 DEF Rotates, Tokens, Active
  <2> HIDE DEF L
  <2>2. SUFFICES ASSUME NEW x \in Tokens(q)
                 PROVE  \E m \in FamilyOf(q, x) : \A l \in FamilyOf(q, x) : Active(q, l) <=> l = m
    BY DEF OneActive
  <2>3. CASE q.tokens[x].family = s.tokens[n].family
    <3>1. \A l \in FamilyOf(q, x) : l = L \/ l \in FamilyOf(s, n)
      BY <2>1, <2>3 DEF FamilyOf
    <3>2. PICK m \in FamilyOf(s, n) : \A l \in FamilyOf(s, n) : Active(s, l) <=> l = m
      BY DEF OneActive
    <3>3. n \in FamilyOf(s, n)
      BY DEF FamilyOf
    <3>4. m = n
      BY <1>2, <3>2, <3>3
    <3>5. \A l \in FamilyOf(q, x) : Active(q, l) <=> l = L
      BY <1>1, <2>1, <3>1, <3>2, <3>4 DEF FamilyOf, L
    <3>6. L \in FamilyOf(q, x)
      BY <2>1, <2>3 DEF FamilyOf
    <3> QED BY <3>5, <3>6
  <2>4. CASE q.tokens[x].family # s.tokens[n].family
    <3>1. x \in Tokens(s) /\ FamilyOf(q, x) = FamilyOf(s, x) /\ n \notin FamilyOf(s, x)
      BY <2>1, <2>4 DEF FamilyOf
    <3>2. PICK m \in FamilyOf(s, x) : \A l \in FamilyOf(s, x) : Active(s, l) <=> l = m
      BY <3>1 DEF OneActive
    <3>3. \A l \in FamilyOf(s, x) : Active(q, l) <=> Active(s, l)
      BY <2>1, <3>1 DEF FamilyOf
    <3> QED BY <3>1, <3>2, <3>3
  <2> QED BY <2>3, <2>4
<1>3. ASSUME Issues(s, q) PROVE OneActive(q)
  <2>1. /\ Tokens(q) = Tokens(s) \cup {L}
        /\ \A m \in Tokens(s) : /\ q.tokens[m].family = s.tokens[m].family
                                /\ Active(q, m) <=> Active(s, m)
                                /\ s.tokens[m].family # q.tokens[L].family
        /\ Active(q, L)
    BY <1>1, <1>3 DEF Issues, Tokens, Active
  <2> HIDE DEF L
  <2>2. SUFFICES ASSUME NEW x \in Tokens(q)
                 PROVE  \E m \in FamilyOf(q, x) : \A l \in FamilyOf(q, x) : Active(q, l) <=> l = m
    BY DEF OneActive
  <2>3. CASE x = L
    <3>1. FamilyOf(q, x) = {L}
      BY <2>1, <2>3 DEF FamilyOf
    <3> QED BY <2>1, <3>1
  <2>4. CASE x \in Tokens(s)
    <3>1. FamilyOf(q, x) = FamilyOf(s, x)
      BY <2>1, <2>4 DEF FamilyOf
    <3>2. PICK m \in FamilyOf(s, x) : \A l \in FamilyOf(s, x) : Active(s, l) <=> l = m
      BY <2>4 DEF OneActive
    <3>3. \A l \in FamilyOf(s, x) : Active(q, l) <=> Active(s, l)
      BY <2>1 DEF FamilyOf
    <3> QED BY <3>1, <3>2, <3>3
  <2> QED BY <2>1, <2>3, <2>4
<1>4. ASSUME KeepsRows(s, q) PROVE OneActive(q)
  <2>1. Tokens(q) = Tokens(s)
    BY <1>4 DEF KeepsRows, Tokens
  <2>2. \A x \in Tokens(s) : FamilyOf(q, x) = FamilyOf(s, x)
    BY <1>4, <2>1 DEF KeepsRows, FamilyOf
  <2>3. \A x \in Tokens(s) : \A l \in FamilyOf(s, x) : Active(q, l) <=> Active(s, l)
    BY <1>4 DEF KeepsRows, FamilyOf
  <2> QED BY <2>1, <2>2, <2>3 DEF OneActive
<1> QED BY <1>2, <1>3, <1>4

\* It holds at the start.
LEMMA HonestInit == Init => Honest
<1> SUFFICES ASSUME Init PROVE Honest
  OBVIOUS
<1>1. TypeInv
  BY TypeInit
<1>2. \A t \in Tabs, k \in Kinds : calls[t][k].phase = "none"
  BY DEF Init, NoCalls, NoCall
<1>3. "refresh" \in Kinds /\ "logout" \in Kinds
  BY DEF Kinds
<1>4. /\ \A t \in Tabs : ~Holds(t) /\ ~Presents(t) /\ calls[t]["logout"].phase = "none"
      /\ \A t \in Tabs, k \in Kinds : ~Brings(t, k)
  BY <1>2, <1>3 DEF Holds, Presents, Brings
<1>5. orphans = {}
  BY DEF Init
<1>6. \/ Len(server.tokens) = 0
      \/ Len(server.tokens) = 1 /\ Active(server, 1)
  BY DEF Init, Active
<1>7. CookieServed
  BY <1>6 DEF Init, CookieServed
<1>8. OneActive(server)
  <2>1. CASE Len(server.tokens) = 0
    BY <2>1 DEF OneActive, Tokens
  <2>2. CASE Len(server.tokens) = 1 /\ Active(server, 1)
    <3>1. Tokens(server) = {1}
      BY <2>2 DEF Tokens
    <3>2. FamilyOf(server, 1) = {1}
      BY <3>1 DEF FamilyOf
    <3> QED BY <2>2, <3>1, <3>2 DEF OneActive
  <2> QED BY <1>6, <2>1, <2>2
<1> QED BY <1>4, <1>5, <1>7, <1>8 DEF Honest, NothingLost, OneHolder, PresentedServed,
        BroughtFresh

\* A step in which no cookie is presented, rotated or brought: a call is the same, or
\* one that has not been sent is dropped or queued, or a link is spent.
QuietStep ==
    /\ RowsKept /\ UNCHANGED <<cookie, orphans>>
    /\ \A t \in Tabs, k \in Kinds :
         \/ calls'[t][k] = calls[t][k]
         \/ calls[t][k].phase \in {"none", "queued"} /\ calls'[t][k].phase = "none"
         \/ /\ k = "refresh"
            /\ calls[t][k].phase \in {"none", "queued"} /\ calls'[t][k].phase = "queued"
         \/ k = "exchange" /\ calls'[t][k].phase = "sent"

\* The rows that are active stay so when rows are kept.
LEMMA ActiveKept ==
    ASSUME TypeInv, RowsKept
    PROVE  \A n \in Tokens(server) : Active(server', n) <=> Active(server, n)
BY DEF RowsKept, KeepsRows

\* A quiet step keeps the invariant.
LEMMA QuietHonest == ASSUME TypeInv, Honest, QuietStep PROVE Honest'
<1>1. "refresh" \in Kinds /\ "logout" \in Kinds /\ "exchange" # "refresh"
      /\ "logout" # "refresh" /\ "logout" # "exchange"
  BY DEF Kinds
<1>2. ASSUME NEW t \in Tabs
      PROVE  /\ Holds(t)' <=> Holds(t)
             /\ Presents(t)' => Presents(t) /\ calls'[t]["refresh"] = calls[t]["refresh"]
             /\ Brings(t, "refresh") => Brings(t, "refresh")'
             /\ calls'[t]["logout"].phase = "none"
  <2>1. calls[t]["logout"].phase = "none"
    BY DEF Honest, NothingLost
  <2>2. \/ calls'[t]["refresh"] = calls[t]["refresh"]
        \/ /\ calls[t]["refresh"].phase \in {"none", "queued"}
           /\ calls'[t]["refresh"].phase \in {"none", "queued"}
    BY <1>1 DEF QuietStep
  <2>3. calls'[t]["logout"].phase = "none"
    BY <1>1, <2>1 DEF QuietStep
  <2> QED BY <2>2, <2>3 DEF Holds, Presents, Brings
<1>3. ASSUME NEW t \in Tabs, NEW k \in Kinds, Brings(t, k)'
      PROVE  Brings(t, k) /\ Brought(t, k)' = Brought(t, k)
  BY <1>3 DEF QuietStep, Brings, Brought
<1>4. cookie' = cookie /\ orphans' = orphans /\ RowsKept
  BY DEF QuietStep
<1>5. NothingLost'
  BY <1>2, <1>4 DEF Honest, NothingLost
<1>6. OneHolder'
  BY <1>2 DEF Honest, OneHolder
<1>7. PresentedServed'
  <2>1. ASSUME NEW t \in Tabs, Presents(t)'
        PROVE  /\ Active(server', calls'[t]["refresh"].cookie)
               /\ calls'[t]["refresh"].phase = "decided" => calls'[t]["refresh"].verdict = "rotate"
    <3>1. Presents(t) /\ calls'[t]["refresh"] = calls[t]["refresh"]
      BY <1>2, <2>1
    <3>2. /\ Active(server, calls[t]["refresh"].cookie)
          /\ calls[t]["refresh"].phase = "decided" => calls[t]["refresh"].verdict = "rotate"
          /\ calls[t]["refresh"].cookie \in Tokens(server)
      BY <3>1, TheirRows DEF Honest, PresentedServed
    <3> QED BY <3>1, <3>2, <1>4, ActiveKept
  <2> QED BY <2>1 DEF PresentedServed
<1>8. BroughtFresh'
  <2>1. ASSUME NEW t \in Tabs, NEW k \in Kinds, Brings(t, k)'
        PROVE  /\ Active(server', Brought(t, k)') /\ Brought(t, k)' # cookie'
               /\ \A u \in Tabs : Presents(u)' => calls'[u]["refresh"].cookie # Brought(t, k)'
               /\ \A u \in Tabs, j \in Kinds :
                    Brings(u, j)' /\ (u # t \/ j # k) => Brought(u, j)' # Brought(t, k)'
    <3>1. Brings(t, k) /\ Brought(t, k)' = Brought(t, k)
      BY <1>3, <2>1
    <3>2. /\ Active(server, Brought(t, k)) /\ Brought(t, k) # cookie
          /\ \A u \in Tabs : Presents(u) => calls[u]["refresh"].cookie # Brought(t, k)
          /\ \A u \in Tabs, j \in Kinds :
               Brings(u, j) /\ (u # t \/ j # k) => Brought(u, j) # Brought(t, k)
      BY <3>1 DEF Honest, BroughtFresh
    <3>3. Active(server', Brought(t, k))
      BY <3>1, <3>2, <1>4, ActiveKept, TheirRows
    <3> QED BY <3>1, <3>2, <3>3, <1>2, <1>3, <1>4
  <2> QED BY <2>1 DEF BroughtFresh
<1>9. CookieServed'
  <2>1. cookie # 0 => (Active(server', cookie) <=> Active(server, cookie))
    BY <1>4, ActiveKept, TheirRows
  <2> QED BY <2>1, <1>2, <1>4 DEF Honest, CookieServed
<1>10. OneActive(server')
  BY <1>4, OneActiveStays DEF Honest, TypeInv, RowsKept
<1> QED BY <1>5, <1>6, <1>7, <1>8, <1>9, <1>10 DEF Honest

\* While the time is calm, most steps are quiet: pages, requests, links and time.
LEMMA QuietSteps ==
    ASSUME TypeInv, PagesInv, Honest, Calm, Calm'
    PROVE  /\ \A t \in Tabs : PageStep(t) \/ SpendStep(t) => QuietStep
           /\ \A t \in Tabs : Reload(t) \/ OpenCallback(t) => QuietStep
           /\ \A r \in Requests : SendRequest(r) \/ FirstAnswer(r) \/ SecondAnswer(r) => QuietStep
           /\ HalfMinutePasses \/ QuarterHourPasses => QuietStep
           /\ UNCHANGED vars => QuietStep
<1>1. "refresh" \in Kinds
  BY DEF Kinds
<1>8. ASSUME NEW t \in Tabs, NEW k \in Kinds, NEW c, calls' = [calls EXCEPT ![t][k] = c],
             RowsKept, UNCHANGED <<cookie, orphans>>,
             \/ k = "exchange" /\ c.phase = "sent"
             \/ /\ k = "refresh" /\ c.phase = "queued"
                /\ calls[t][k].phase \in {"none", "queued"}
      PROVE  QuietStep
  <2>1. \A u \in Tabs, j \in Kinds :
          calls'[u][j] = IF u = t /\ j = k THEN c ELSE calls[u][j]
    <3>1. calls' = [calls EXCEPT ![t][k] = c]
      BY <1>8
    <3> QED BY <3>1 DEF TypeInv, CallsTyped
  <2> QED BY <1>8, <2>1 DEF QuietStep
<1>2. ASSUME NEW t \in Tabs, PageStep(t) PROVE QuietStep
  BY <1>2, PageRows DEF QuietStep
<1>3. ASSUME NEW t \in Tabs, SpendStep(t) PROVE QuietStep
  <2>1. /\ UNCHANGED <<server, cookie, orphans>>
        /\ calls' = [calls EXCEPT ![t]["exchange"] = Sent(cookie)]
    BY <1>3 DEF SpendStep, Exchange, RetryExchange, Spend
  <2>2. RowsKept
    BY <2>1, SameRows
  <2>3. Sent(cookie).phase = "sent"
    BY DEF Sent, NoCall
  <2>4. "exchange" \in Kinds
    BY DEF Kinds
  <2> QED BY <2>1, <2>2, <2>3, <2>4, <1>8
<1>4. ASSUME NEW t \in Tabs, Reload(t) \/ OpenCallback(t) PROVE QuietStep
  <2>1. RowsKept /\ calls' = Booted(t)
    BY <1>4, OpenTypes DEF Reload, OpenCallback
  <2>2. \A k \in Kinds : calls[t][k].phase \in {"none", "queued"}
    <3>1. CASE Reload(t)
      <4>1. history' = {}
        BY DEF Calm
      <4>2. CASE \E k \in Kinds : calls[t][k].phase \notin {"none", "queued"}
        <5>1. history' = history \cup {"lost"}
          BY <3>1, <4>2 DEF Reload
        <5> QED BY <4>1, <5>1
      <4> QED BY <4>2
    <3>2. CASE OpenCallback(t)
      BY <3>2 DEF OpenCallback, PagesInv, Closed
    <3> QED BY <1>4, <3>1, <3>2
  <2>3. cookie' = cookie /\ orphans' = orphans
    <3>1. CASE Reload(t)
      <4>1. Left(t) = {}
        BY <2>2 DEF Left, Reaching
      <4>2. {k \in Kinds : calls[t][k].phase = "answered"} = {}
        BY <2>2
      <4>3. orphans' = orphans \cup Left(t)
        BY <3>1 DEF Reload
      <4>4. cookie' \in {cookie} \cup {CookieAfter(calls[t][k].answer) :
                                         k \in {k \in Kinds : calls[t][k].phase = "answered"}}
        BY <3>1 DEF Reload
      <4> QED BY <4>1, <4>2, <4>3, <4>4
    <3>2. CASE OpenCallback(t)
      BY <3>2 DEF OpenCallback
    <3> QED BY <1>4, <3>1, <3>2
  <2>4. \A u \in Tabs, k \in Kinds :
          \/ calls'[u][k] = calls[u][k]
          \/ calls[u][k].phase \in {"none", "queued"} /\ calls'[u][k].phase = "none"
          \/ /\ k = "refresh" /\ calls[u][k].phase \in {"none", "queued"}
             /\ calls'[u][k].phase = "queued"
    <3>1. locks
      BY DEF Calm
    <3>2. NoCall.phase = "none" /\ [NoCall EXCEPT !.phase = "queued"].phase = "queued"
      BY DEF NoCall
    <3>3. ASSUME NEW u \in Tabs \ {t}, NEW k \in Kinds PROVE calls'[u][k] = calls[u][k]
      BY <2>1, CallsOfBooted
    <3>4. ASSUME NEW k \in Kinds \ {"refresh"} PROVE calls'[t][k].phase = "none"
      BY <2>1, <3>2, CallsOfBooted
    <3>5. calls'[t]["refresh"].phase = "queued"
      BY <2>1, <3>1, <3>2, CallsOfBooted
    <3> QED BY <2>2, <3>3, <3>4, <3>5
  <2> QED BY <2>1, <2>3, <2>4 DEF QuietStep
<1>5. ASSUME NEW r \in Requests, SendRequest(r) \/ FirstAnswer(r) \/ SecondAnswer(r)
      PROVE  QuietStep
  <2>1. RowsKept /\ UNCHANGED <<cookie, orphans>>
    BY <1>5, RequestTypes DEF SendRequest, FirstAnswer, SecondAnswer
  <2>2. CASE calls' = calls
    BY <2>1, <2>2 DEF QuietStep
  <2>3. CASE calls' = Refreshed(calls, TabOf[r])
    <3> DEFINE t == TabOf[r]
               c == [NoCall EXCEPT !.phase = "queued"]
    <3>1. t \in Tabs /\ c.phase = "queued"
      BY SessionAssumption DEF NoCall
    <3>2. CASE calls[t]["refresh"].phase # "none"
      BY <2>1, <2>3, <3>2 DEF Refreshed, QuietStep
    <3>3. CASE calls[t]["refresh"].phase = "none"
      <4>1. calls' = [calls EXCEPT ![t]["refresh"] = c]
        BY <2>3, <3>3 DEF Refreshed, Calm
      <4> QED BY <2>1, <3>1, <3>3, <4>1, <1>1, <1>8
    <3> QED BY <3>2, <3>3
  <2> QED BY <1>5, <2>2, <2>3 DEF SendRequest, FirstAnswer, SecondAnswer
<1>6. ASSUME HalfMinutePasses \/ QuarterHourPasses PROVE QuietStep
  <2>1. RowsKept /\ UNCHANGED <<cookie, orphans, calls>>
    BY <1>6, TimeTypes DEF HalfMinutePasses, QuarterHourPasses
  <2> QED BY <2>1 DEF QuietStep
<1>7. ASSUME UNCHANGED vars PROVE QuietStep
  BY <1>7, SameRows DEF vars, QuietStep
<1> QED BY <1>2, <1>3, <1>4, <1>5, <1>6, <1>7

\* Nobody waits for a sign-out while the time is calm.
LEMMA NoLogout ==
    ASSUME TypeInv, Honest, NEW t \in Tabs, NEW k \in Kinds, calls[t][k].phase # "none"
    PROVE  k \in {"refresh", "exchange"}
BY DEF Honest, NothingLost, Kinds

\* The lock is granted: no token is on its way, so that the cookie sent is active.
LEMMA GrantHonest ==
    ASSUME TypeInv, Honest, NEW t \in Tabs, Grant(t)
    PROVE  Honest'
<1>1. "refresh" \in Kinds /\ "logout" \in Kinds
  BY DEF Kinds
<1>2. /\ calls[t]["refresh"].phase = "queued"
      /\ \A u \in Tabs : ~Holds(u) /\ ~Presents(u) /\ ~Brings(u, "refresh")
      /\ UNCHANGED <<server, cookie, orphans>>
  BY DEF Grant, Holds, Presents, Brings
<1>3. calls' = [calls EXCEPT ![t]["refresh"] = Sent(cookie)]
  BY DEF Grant
<1>4. /\ calls'[t]["refresh"] = Sent(cookie)
      /\ \A u \in Tabs, k \in Kinds : u # t \/ k # "refresh" => calls'[u][k] = calls[u][k]
  BY <1>1, <1>3 DEF TypeInv, CallsTyped
<1>5. Sent(cookie).phase = "sent" /\ Sent(cookie).cookie = cookie
  BY DEF Sent, NoCall
<1>6. \A u \in Tabs : u # t => ~Holds(u)' /\ ~Presents(u)'
  BY <1>1, <1>2, <1>4 DEF Holds, Presents
<1>7. ASSUME NEW u \in Tabs, NEW k \in Kinds, Brings(u, k)'
      PROVE  Brings(u, k) /\ Brought(u, k)' = Brought(u, k)
  <2>1. u # t \/ k # "refresh"
    BY <1>4, <1>5, <1>7 DEF Brings
  <2> QED BY <2>1, <1>4, <1>7 DEF Brings, Brought
<1>8. cookie = 0 \/ Active(server, cookie)
  BY <1>2 DEF Honest, CookieServed
<1>9. NothingLost'
  BY <1>1, <1>2, <1>4 DEF Honest, NothingLost
<1>10. OneHolder'
  BY <1>6 DEF OneHolder
<1>11. PresentedServed'
  <2>1. Presents(t)' => Active(server', calls'[t]["refresh"].cookie)
    BY <1>2, <1>4, <1>5, <1>8 DEF Presents
  <2>2. calls'[t]["refresh"].phase # "decided"
    BY <1>4, <1>5
  <2> QED BY <2>1, <2>2, <1>6 DEF PresentedServed
<1>12. BroughtFresh'
  <2>1. ASSUME NEW u \in Tabs, NEW k \in Kinds, Brings(u, k)'
        PROVE  /\ Active(server', Brought(u, k)') /\ Brought(u, k)' # cookie'
               /\ \A v \in Tabs : Presents(v)' => calls'[v]["refresh"].cookie # Brought(u, k)'
               /\ \A v \in Tabs, j \in Kinds :
                    Brings(v, j)' /\ (v # u \/ j # k) => Brought(v, j)' # Brought(u, k)'
    <3>1. Brings(u, k) /\ Brought(u, k)' = Brought(u, k)
      BY <1>7, <2>1
    <3>2. /\ Active(server, Brought(u, k)) /\ Brought(u, k) # cookie
          /\ \A v \in Tabs, j \in Kinds :
               Brings(v, j) /\ (v # u \/ j # k) => Brought(v, j) # Brought(u, k)
      BY <3>1 DEF Honest, BroughtFresh
    <3>3. \A v \in Tabs : Presents(v)' => calls'[v]["refresh"].cookie = cookie
      BY <1>4, <1>5, <1>6
    <3> QED BY <3>1, <3>2, <3>3, <1>2, <1>7
  <2> QED BY <2>1 DEF BroughtFresh
<1>13. CookieServed' /\ OneActive(server')
  BY <1>2, <1>8 DEF Honest, CookieServed
<1> QED BY <1>9, <1>10, <1>11, <1>12, <1>13 DEF Honest

\* The server reads the row: a cookie that is presented is active, and is rotated.
LEMMA DecideHonest ==
    ASSUME TypeInv, Honest, NEW t \in Tabs, NEW k \in Kinds, Decide(t, k)
    PROVE  Honest'
<1> DEFINE c == calls[t][k]
<1>1. PICK v \in Verdicts(server, k, c.cookie) : calls' = [calls EXCEPT ![t][k] = Decided(@, v)]
  BY DEF Decide
<1>2. c.phase = "sent" /\ k \in {"refresh", "exchange"} /\ UNCHANGED <<server, cookie, orphans>>
  BY NoLogout DEF Decide
<1>3. /\ calls'[t][k] = Decided(c, v)
      /\ \A u \in Tabs, j \in Kinds : u # t \/ j # k => calls'[u][j] = calls[u][j]
  BY <1>1 DEF TypeInv, CallsTyped
<1>4. /\ Decided(c, v).phase = "decided" /\ Decided(c, v).cookie = c.cookie
      /\ Decided(c, v).verdict = v
  BY DEF Decided, TypeInv, CallsTyped, GoodCall, CallsTo
<1>5. "refresh" \in Kinds /\ "logout" \in Kinds
  BY DEF Kinds
<1>6. ASSUME NEW u \in Tabs
      PROVE  /\ Holds(u)' <=> Holds(u)
             /\ Presents(u)' <=> Presents(u)
             /\ calls'[u]["refresh"].cookie = calls[u]["refresh"].cookie
             /\ Brings(u, "refresh")' <=> Brings(u, "refresh")
  <2>1. \/ calls'[u]["refresh"] = calls[u]["refresh"]
        \/ /\ calls[u]["refresh"].phase = "sent" /\ calls'[u]["refresh"].phase = "decided"
           /\ calls'[u]["refresh"].cookie = calls[u]["refresh"].cookie
    BY <1>2, <1>3, <1>4, <1>5
  <2> QED BY <2>1 DEF Holds, Presents, Brings
<1>7. ASSUME NEW u \in Tabs, NEW j \in Kinds, Brings(u, j)'
      PROVE  Brings(u, j) /\ Brought(u, j)' = Brought(u, j)
  <2>1. u # t \/ j # k
    BY <1>3, <1>4, <1>7 DEF Brings
  <2> QED BY <2>1, <1>3, <1>7 DEF Brings, Brought
<1> HIDE DEF c
<1>8. NothingLost'
  BY <1>2, <1>3, <1>5 DEF Honest, NothingLost
<1>9. OneHolder'
  BY <1>6 DEF Honest, OneHolder
<1>10. PresentedServed'
  <2>1. ASSUME NEW u \in Tabs, Presents(u)'
        PROVE  /\ Active(server', calls'[u]["refresh"].cookie)
               /\ calls'[u]["refresh"].phase = "decided" => calls'[u]["refresh"].verdict = "rotate"
    <3>1. Presents(u) /\ Active(server, calls[u]["refresh"].cookie)
      BY <2>1, <1>6 DEF Honest, PresentedServed
    <3>2. CASE u = t /\ k = "refresh"
      <4>1. v \in RefreshVerdicts(server, c.cookie) /\ c.cookie # 0 /\ Active(server, c.cookie)
        BY <1>1, <3>1, <3>2 DEF Verdicts, Presents, c
      <4>2. v = "rotate"
        BY <4>1 DEF RefreshVerdicts
      <4> QED BY <3>1, <3>2, <4>2, <1>2, <1>3, <1>4, <1>6
    <3>3. CASE u # t \/ k # "refresh"
      <4>1. calls'[u]["refresh"] = calls[u]["refresh"]
        BY <3>3, <1>3, <1>5
      <4> QED BY <3>1, <4>1, <1>2 DEF Honest, PresentedServed
    <3> QED BY <3>2, <3>3
  <2> QED BY <2>1 DEF PresentedServed
<1>11. BroughtFresh'
  <2>1. ASSUME NEW u \in Tabs, NEW j \in Kinds, Brings(u, j)'
        PROVE  /\ Active(server', Brought(u, j)') /\ Brought(u, j)' # cookie'
               /\ \A w \in Tabs : Presents(w)' => calls'[w]["refresh"].cookie # Brought(u, j)'
               /\ \A w \in Tabs, i \in Kinds :
                    Brings(w, i)' /\ (w # u \/ i # j) => Brought(w, i)' # Brought(u, j)'
    <3>1. Brings(u, j) /\ Brought(u, j)' = Brought(u, j)
      BY <1>7, <2>1
    <3>2. /\ Active(server, Brought(u, j)) /\ Brought(u, j) # cookie
          /\ \A w \in Tabs : Presents(w) => calls[w]["refresh"].cookie # Brought(u, j)
          /\ \A w \in Tabs, i \in Kinds :
               Brings(w, i) /\ (w # u \/ i # j) => Brought(w, i) # Brought(u, j)
      BY <3>1 DEF Honest, BroughtFresh
    <3> QED BY <3>1, <3>2, <1>2, <1>6, <1>7
  <2> QED BY <2>1 DEF BroughtFresh
<1>12. CookieServed' /\ OneActive(server')
  BY <1>2, <1>6 DEF Honest, CookieServed
<1> QED BY <1>8, <1>9, <1>10, <1>11, <1>12 DEF Honest

\* The answer arrives: the browser keeps the cookie that came with it, which is active.
LEMMA ReceiveHonest ==
    ASSUME TypeInv, Honest, NEW t \in Tabs, NEW k \in Kinds, Receive(t, k)
    PROVE  Honest'
<1> DEFINE answer == calls[t][k].answer
<1>1. /\ calls[t][k].phase = "answered" /\ k \in {"refresh", "exchange"}
      /\ UNCHANGED <<server, orphans>> /\ cookie' = CookieAfter(answer)
  BY NoLogout DEF Receive
<1>2. /\ calls'[t][k] = NoCall
      /\ \A u \in Tabs, j \in Kinds : u # t \/ j # k => calls'[u][j] = calls[u][j]
  BY DEF Receive, TypeInv, CallsTyped
<1>3. NoCall.phase = "none" /\ "refresh" \in Kinds /\ "logout" \in Kinds
  BY DEF NoCall, Kinds
<1>4. \/ answer.ok /\ cookie' = answer.token
      \/ cookie' = cookie /\ answer.token = 0
  BY <1>1 DEF CookieAfter, TypeInv, CallsTyped, GoodCall, GoodAnswer
<1>5. Brings(t, k) <=> answer.token # 0
  BY <1>1 DEF Brings
<1>6. ASSUME NEW u \in Tabs
      PROVE  /\ Holds(u)' => Holds(u)
             /\ Presents(u)' => Presents(u) /\ calls'[u]["refresh"] = calls[u]["refresh"]
  <2>1. calls'[u]["refresh"] = calls[u]["refresh"] \/ calls'[u]["refresh"].phase = "none"
    BY <1>2, <1>3
  <2> QED BY <2>1 DEF Holds, Presents
<1>7. ASSUME NEW u \in Tabs, NEW j \in Kinds, Brings(u, j)'
      PROVE  (u # t \/ j # k) /\ Brings(u, j) /\ Brought(u, j)' = Brought(u, j)
  <2>1. u # t \/ j # k
    BY <1>2, <1>3, <1>7 DEF Brings
  <2> QED BY <2>1, <1>2, <1>7 DEF Brings, Brought
<1> HIDE DEF answer
<1>8. NothingLost'
  BY <1>1, <1>2, <1>3 DEF Honest, NothingLost
<1>9. OneHolder'
  BY <1>6 DEF Honest, OneHolder
<1>10. PresentedServed'
  BY <1>1, <1>6 DEF Honest, PresentedServed
<1>11. BroughtFresh'
  <2>1. ASSUME NEW u \in Tabs, NEW j \in Kinds, Brings(u, j)'
        PROVE  /\ Active(server', Brought(u, j)') /\ Brought(u, j)' # cookie'
               /\ \A w \in Tabs : Presents(w)' => calls'[w]["refresh"].cookie # Brought(u, j)'
               /\ \A w \in Tabs, i \in Kinds :
                    Brings(w, i)' /\ (w # u \/ i # j) => Brought(w, i)' # Brought(u, j)'
    <3>1. Brings(u, j) /\ Brought(u, j)' = Brought(u, j) /\ (u # t \/ j # k)
      BY <1>7, <2>1
    <3>2. /\ Active(server, Brought(u, j)) /\ Brought(u, j) # cookie
          /\ \A w \in Tabs : Presents(w) => calls[w]["refresh"].cookie # Brought(u, j)
          /\ \A w \in Tabs, i \in Kinds :
               Brings(w, i) /\ (w # u \/ i # j) => Brought(w, i) # Brought(u, j)
      BY <3>1 DEF Honest, BroughtFresh
    <3>3. Brought(u, j) # cookie'
      <4>1. CASE Brings(t, k)
        <5>1. cookie' = Brought(t, k)
          BY <4>1, <1>4, <1>5 DEF Brought, answer
        <5> QED BY <5>1, <4>1, <3>1, <3>2
      <4>2. CASE ~Brings(t, k)
        <5>1. cookie' = 0 \/ cookie' = cookie
          BY <4>2, <1>4, <1>5
        <5>2. Brought(u, j) # 0
          BY <3>1 DEF Brings, Brought
        <5> QED BY <5>1, <5>2, <3>2
      <4> QED BY <4>1, <4>2
    <3> QED BY <3>1, <3>2, <3>3, <1>1, <1>6, <1>7
  <2> QED BY <2>1 DEF BroughtFresh
<1>12. CookieServed'
  <2>1. CASE Brings(t, k)
    <3>1. cookie' = Brought(t, k)
      BY <2>1, <1>4, <1>5 DEF Brought, answer
    <3> QED BY <3>1, <2>1, <1>1 DEF Honest, BroughtFresh, CookieServed
  <2>2. CASE ~Brings(t, k)
    <3>1. cookie' = 0 \/ cookie' = cookie
      BY <2>2, <1>4, <1>5
    <3>2. ASSUME NEW u \in Tabs, Brings(u, "refresh") PROVE Brings(u, "refresh")'
      <4>1. u # t \/ "refresh" # k
        BY <2>2, <3>2
      <4> QED BY <4>1, <3>2, <1>2, <1>3 DEF Brings
    <3> QED BY <3>1, <3>2, <1>1 DEF Honest, CookieServed
  <2> QED BY <2>1, <2>2
<1>13. OneActive(server')
  BY <1>1 DEF Honest
<1> QED BY <1>8, <1>9, <1>10, <1>11, <1>12, <1>13 DEF Honest

\* The commit rotates the cookie that was presented, or starts a session, or refuses.
LEMMA CommitHonest ==
    ASSUME TypeInv, Honest, NEW t \in Tabs, NEW k \in Kinds, Commit(t, k)
    PROVE  Honest'
<1> DEFINE c == calls[t][k]
           n == Len(server.tokens)
<1>1. /\ c.phase = "decided" /\ k \in {"refresh", "exchange"} /\ UNCHANGED <<cookie, orphans>>
      /\ server' = Committed(server, c)
  BY NoLogout DEF Commit
<1>2. /\ calls'[t][k] = Done(k, c)
      /\ \A u \in Tabs, j \in Kinds : u # t \/ j # k => calls'[u][j] = calls[u][j]
  BY DEF Commit, TypeInv, CallsTyped
<1>3. Done(k, c).phase = "answered" /\ Done(k, c).answer = AnswerOf(server, k, c)
  BY DEF Done, TypeInv, CallsTyped, GoodCall, CallsTo
<1>4. /\ "refresh" \in Kinds /\ "logout" \in Kinds /\ n \in Nat
      /\ ServerType(server) /\ Numbered(server) /\ Tokens(server) = 1..n
  BY IssuedIsNat DEF Kinds, TypeInv, Tokens
<1>5. /\ c.verdict \in MayDecide(k) /\ (c.verdict \in {"rotate", "revoke"} => c.cookie # 0)
      /\ c.cookie \in 0..n
  BY <1>1 DEF TypeInv, CallsTyped, GoodCall, CallsTo
<1>6. k = "refresh" /\ c.cookie # 0 => Presents(t) /\ c.verdict = "rotate"
  BY <1>1 DEF Presents, Honest, PresentedServed
<1>7. ASSUME NEW u \in Tabs
      PROVE  /\ Holds(u)' <=> Holds(u)
             /\ Presents(u)' => Presents(u) /\ calls'[u]["refresh"] = calls[u]["refresh"]
             /\ Brings(u, "refresh") => Brings(u, "refresh")'
  <2>1. \/ calls'[u]["refresh"] = calls[u]["refresh"]
        \/ calls[u]["refresh"].phase = "decided" /\ calls'[u]["refresh"].phase = "answered"
    BY <1>1, <1>2, <1>3, <1>4
  <2> QED BY <2>1 DEF Holds, Presents, Brings
<1>8. ASSUME NEW u \in Tabs, NEW j \in Kinds, u # t \/ j # k, Brings(u, j)'
      PROVE  Brings(u, j) /\ Brought(u, j)' = Brought(u, j)
  BY <1>2, <1>8 DEF Brings, Brought
<1>9. Brought(t, k)' = AnswerOf(server, k, c).token
  BY <1>2, <1>3 DEF Brought
<1>10. NothingLost'
  BY <1>1, <1>2, <1>4 DEF Honest, NothingLost
<1>11. OneHolder'
  BY <1>7 DEF Honest, OneHolder
<1> HIDE DEF c, n
\* A token is issued, and what was active and is not the cookie presented stays so.
<1>12. ASSUME AnswerOf(server, k, c).token = n + 1,
              Active(server', n + 1), OneActive(server'),
              \A m \in Tokens(server) :
                Active(server, m) => Active(server', m) \/ (Presents(t) /\ k = "refresh" /\ m = c.cookie)
       PROVE  Honest'
  <2>1. ASSUME NEW u \in Tabs, Presents(u)'
        PROVE  /\ Presents(u) /\ calls'[u]["refresh"] = calls[u]["refresh"]
               /\ Active(server', calls[u]["refresh"].cookie)
               /\ calls[u]["refresh"].cookie \in Tokens(server)
    <3>1. Presents(u) /\ calls'[u]["refresh"] = calls[u]["refresh"]
      BY <1>7, <2>1
    <3>2. /\ Active(server, calls[u]["refresh"].cookie)
          /\ calls[u]["refresh"].cookie \in Tokens(server)
      BY <3>1, TheirRows DEF Honest, PresentedServed
    <3>3. CASE k = "refresh"
      <4>1. u # t
        BY <2>1, <3>3, <1>2, <1>3 DEF Presents
      <4>2. Holds(u) /\ Holds(t)
        BY <3>1, <3>3, <1>1 DEF Presents, Holds, c
      <4> QED BY <4>1, <4>2 DEF Honest, OneHolder
    <3>4. CASE k # "refresh"
      BY <3>1, <3>2, <3>4, <1>12
    <3> QED BY <3>3, <3>4
  <2>2. PresentedServed'
    BY <2>1 DEF Honest, PresentedServed
  <2>3. ASSUME NEW u \in Tabs, NEW j \in Kinds, u # t \/ j # k, Brings(u, j)'
        PROVE  /\ Brings(u, j) /\ Brought(u, j)' = Brought(u, j)
               /\ Brought(u, j) \in Tokens(server) /\ Active(server', Brought(u, j))
    <3>1. Brings(u, j) /\ Brought(u, j)' = Brought(u, j) /\ Brought(u, j) \in Tokens(server)
      BY <1>8, <2>3, TheirRows
    <3>2. /\ Active(server, Brought(u, j))
          /\ Presents(t) => calls[t]["refresh"].cookie # Brought(u, j)
      BY <3>1 DEF Honest, BroughtFresh
    <3>3. k = "refresh" /\ Presents(t) => c.cookie # Brought(u, j)
      BY <3>2 DEF c
    <3> QED BY <3>1, <3>2, <3>3, <1>12
  <2>4. Brought(t, k)' = n + 1 /\ n + 1 # cookie /\ n + 1 \notin Tokens(server)
    BY <1>4, <1>9, <1>12 DEF TypeInv, n
  <2>5. BroughtFresh'
    <3>1. ASSUME NEW u \in Tabs, NEW j \in Kinds, Brings(u, j)'
          PROVE  /\ Active(server', Brought(u, j)') /\ Brought(u, j)' # cookie'
                 /\ \A w \in Tabs : Presents(w)' => calls'[w]["refresh"].cookie # Brought(u, j)'
                 /\ \A w \in Tabs, i \in Kinds :
                      Brings(w, i)' /\ (w # u \/ i # j) => Brought(w, i)' # Brought(u, j)'
      <4>1. CASE u = t /\ j = k
        <5>1. Active(server', Brought(u, j)') /\ Brought(u, j)' # cookie'
          BY <4>1, <2>4, <1>1, <1>12
        <5>2. ASSUME NEW w \in Tabs, Presents(w)'
              PROVE  calls'[w]["refresh"].cookie # Brought(u, j)'
          BY <5>2, <4>1, <2>1, <2>4
        <5>3. ASSUME NEW w \in Tabs, NEW i \in Kinds, Brings(w, i)', w # u \/ i # j
              PROVE  Brought(w, i)' # Brought(u, j)'
          BY <5>3, <4>1, <2>3, <2>4
        <5> QED BY <5>1, <5>2, <5>3
      <4>2. CASE u # t \/ j # k
        <5>1. /\ Brings(u, j) /\ Brought(u, j)' = Brought(u, j)
              /\ Brought(u, j) \in Tokens(server) /\ Active(server', Brought(u, j))
          BY <2>3, <3>1, <4>2
        <5>2. /\ Brought(u, j) # cookie
              /\ \A w \in Tabs : Presents(w) => calls[w]["refresh"].cookie # Brought(u, j)
              /\ \A w \in Tabs, i \in Kinds :
                   Brings(w, i) /\ (w # u \/ i # j) => Brought(w, i) # Brought(u, j)
          BY <5>1 DEF Honest, BroughtFresh
        <5>3. ASSUME NEW w \in Tabs, NEW i \in Kinds, Brings(w, i)', w # u \/ i # j
              PROVE  Brought(w, i)' # Brought(u, j)'
          <6>1. CASE w = t /\ i = k
            BY <6>1, <5>1, <2>4
          <6>2. CASE w # t \/ i # k
            BY <6>2, <5>1, <5>2, <5>3, <2>3
          <6> QED BY <6>1, <6>2
        <5>4. ASSUME NEW w \in Tabs, Presents(w)'
              PROVE  calls'[w]["refresh"].cookie # Brought(u, j)'
          BY <5>1, <5>2, <5>4, <2>1
        <5> QED BY <5>1, <5>2, <5>3, <5>4, <1>1
      <4> QED BY <4>1, <4>2
    <3> QED BY <3>1 DEF BroughtFresh
  <2>6. CookieServed'
    <3>1. CASE cookie = 0 \/ Active(server', cookie)
      BY <3>1, <1>1 DEF CookieServed
    <3>2. CASE \E u \in Tabs : Brings(u, "refresh")
      BY <3>2, <1>7 DEF CookieServed
    <3>3. CASE k = "refresh"
      <4>1. Brings(t, k)'
        BY <1>2, <1>3, <1>4, <1>12 DEF Brings
      <4> QED BY <4>1, <3>3 DEF CookieServed
    <3>4. CASE cookie # 0 /\ Active(server, cookie) /\ k # "refresh"
      BY <3>4, <1>1, <1>12, TheirRows DEF CookieServed
    <3> QED BY <3>1, <3>2, <3>3, <3>4 DEF Honest, CookieServed
  <2> QED BY <2>2, <2>5, <2>6, <1>10, <1>11, <1>12 DEF Honest
<1>13. CASE c.verdict = "rotate"
  <2>1. k = "refresh" /\ c.cookie # 0 /\ c.cookie \in Tokens(server)
    BY <1>4, <1>5, <1>13 DEF MayDecide, Kinds
  <2>2. Presents(t) /\ Active(server, c.cookie)
    BY <2>1, <1>6 DEF Honest, PresentedServed, c
  <2>3. server' = Rotated(server, c.cookie)
    BY <1>1, <1>13 DEF Committed
  <2>4. Rotates(server, c.cookie, server')
    BY <2>1, <2>3, <1>4, RotationRotates
  <2>5. OneActive(server')
    BY <2>1, <2>2, <2>4, <1>4, OneActiveStays DEF Honest
  <2>6. Active(server', n + 1) /\ \A m \in Tokens(server) \ {c.cookie} :
                                     Active(server, m) => Active(server', m)
    BY <2>4 DEF Rotates, Active, n
  <2>7. AnswerOf(server, k, c).token = n + 1
    BY <1>13 DEF AnswerOf, n
  <2> QED BY <2>1, <2>2, <2>5, <2>6, <2>7, <1>12
<1>14. CASE c.verdict = "issue"
  <2>1. server' = SessionCreated(server)
    BY <1>1, <1>14 DEF Committed
  <2>2. Issues(server, server')
    BY <2>1, <1>4, SessionIssues
  <2>3. OneActive(server')
    BY <2>2, <1>4, OneActiveStays DEF Honest
  <2>4. Active(server', n + 1) /\ \A m \in Tokens(server) : Active(server, m) => Active(server', m)
    BY <2>2 DEF Issues, Active, n
  <2>5. AnswerOf(server, k, c).token = n + 1
    BY <1>14 DEF AnswerOf, n
  <2> QED BY <2>3, <2>4, <2>5, <1>12
<1>15. CASE c.verdict = "refuse"
  <2>1. server' = server
    BY <1>1, <1>15 DEF Committed
  <2>2. AnswerOf(server, k, c).token = 0
    BY <1>15 DEF AnswerOf
  <2>3. ASSUME NEW u \in Tabs, NEW j \in Kinds, Brings(u, j)'
        PROVE  Brings(u, j) /\ Brought(u, j)' = Brought(u, j)
    <3>1. u # t \/ j # k
      BY <2>2, <2>3, <1>9 DEF Brings, Brought
    <3> QED BY <3>1, <2>3, <1>8
  <2>4. PresentedServed'
    BY <2>1, <1>7 DEF Honest, PresentedServed
  <2>5. BroughtFresh'
    <3>1. ASSUME NEW u \in Tabs, NEW j \in Kinds, Brings(u, j)'
          PROVE  /\ Active(server', Brought(u, j)') /\ Brought(u, j)' # cookie'
                 /\ \A w \in Tabs : Presents(w)' => calls'[w]["refresh"].cookie # Brought(u, j)'
                 /\ \A w \in Tabs, i \in Kinds :
                      Brings(w, i)' /\ (w # u \/ i # j) => Brought(w, i)' # Brought(u, j)'
      <4>1. Brings(u, j) /\ Brought(u, j)' = Brought(u, j)
        BY <2>3, <3>1
      <4>2. /\ Active(server, Brought(u, j)) /\ Brought(u, j) # cookie
            /\ \A w \in Tabs : Presents(w) => calls[w]["refresh"].cookie # Brought(u, j)
            /\ \A w \in Tabs, i \in Kinds :
                 Brings(w, i) /\ (w # u \/ i # j) => Brought(w, i) # Brought(u, j)
        BY <4>1 DEF Honest, BroughtFresh
      <4> QED BY <4>1, <4>2, <2>1, <2>3, <1>1, <1>7
    <3> QED BY <3>1 DEF BroughtFresh
  <2>6. CookieServed' /\ OneActive(server')
    BY <2>1, <1>1, <1>7 DEF Honest, CookieServed
  <2> QED BY <2>4, <2>5, <2>6, <1>10, <1>11 DEF Honest
<1>16. c.verdict \in {"rotate", "issue", "refuse"}
  BY <1>1, <1>5, <1>6 DEF MayDecide
<1> QED BY <1>13, <1>14, <1>15, <1>16

\* Calm at the end of a step was calm at its start: the history only grows.
LEMMA CalmBefore == ASSUME TypeInv, [Next]_vars, Calm' PROVE Calm
<1>1. locks' = locks /\ history \subseteq history'
  <2>1. CASE UNCHANGED vars
    BY <2>1 DEF vars
  <2>2. ASSUME NEW t \in Tabs, Grant(t) \/ SignOut(t) \/ SpendStep(t)
        PROVE  locks' = locks /\ history \subseteq history'
    BY <2>2 DEF Grant, SignOut, SpendStep, Exchange, RetryExchange, Spend
  <2>3. ASSUME NEW t \in Tabs, PageStep(t) PROVE locks' = locks /\ history \subseteq history'
    BY <2>3, PageRows
  <2>4. ASSUME NEW t \in Tabs, Reload(t) \/ OpenCallback(t)
        PROVE  locks' = locks /\ history \subseteq history'
    BY <2>4 DEF Reload, OpenCallback
  <2>5. ASSUME NEW t \in Tabs, NEW k \in Kinds,
               Decide(t, k) \/ Commit(t, k) \/ Receive(t, k) \/ LoseCall(t, k)
        PROVE  locks' = locks /\ history \subseteq history'
    BY <2>5 DEF Decide, Commit, Receive, LoseCall
  <2>6. ASSUME NEW o \in orphans, FinishOrphan(o)
        PROVE  locks' = locks /\ history \subseteq history'
    BY <2>6 DEF FinishOrphan
  <2>7. ASSUME NEW r \in Requests, SendRequest(r) \/ FirstAnswer(r) \/ SecondAnswer(r)
        PROVE  locks' = locks /\ history \subseteq history'
    BY <2>7 DEF SendRequest, FirstAnswer, SecondAnswer
  <2>8. CASE HalfMinutePasses \/ QuarterHourPasses
    BY <2>8 DEF HalfMinutePasses, QuarterHourPasses
  <2>9. CASE Next
    BY <2>9, <2>2, <2>3, <2>4, <2>5, <2>6, <2>7, <2>8, StepKinds
  <2> QED BY <2>1, <2>9
<1> QED BY <1>1 DEF Calm

\* The invariant of the calm time.
CalmInv == TypeInv /\ PagesInv /\ (Calm => Honest)

\* Every step keeps it.
LEMMA CalmStep == CalmInv /\ [Next]_vars => CalmInv'
<1> SUFFICES ASSUME CalmInv, [Next]_vars PROVE CalmInv'
  OBVIOUS
<1>1. TypeInv /\ PagesInv /\ TypeInv' /\ PagesInv'
  BY TypeStep, PagesNext, PagesKept DEF CalmInv
<1>2. ASSUME Calm' PROVE Honest'
  <2>1. Calm /\ Honest
    BY <1>1, <1>2, CalmBefore DEF CalmInv
  <2>2. ASSUME QuietStep PROVE Honest'
    BY <1>1, <2>1, <2>2, QuietHonest
  <2>3. CASE UNCHANGED vars
    BY <1>1, <1>2, <2>1, <2>2, <2>3, QuietSteps
  <2>4. ASSUME NEW t \in Tabs, SignOut(t) PROVE FALSE
    BY <1>2, <2>4 DEF SignOut, Calm
  <2>5. ASSUME NEW t \in Tabs, NEW k \in Kinds, LoseCall(t, k) PROVE FALSE
    BY <1>2, <2>5 DEF LoseCall, Calm
  <2>6. orphans = {}
    BY <2>1 DEF Honest, NothingLost
  <2>7. ASSUME NEW t \in Tabs, Grant(t) PROVE Honest'
    BY <1>1, <2>1, <2>7, GrantHonest
  <2>8. ASSUME NEW t \in Tabs, NEW k \in Kinds, Decide(t, k) \/ Commit(t, k) \/ Receive(t, k)
        PROVE  Honest'
    BY <1>1, <2>1, <2>8, DecideHonest, CommitHonest, ReceiveHonest
  <2>9. ASSUME NEW t \in Tabs,
               PageStep(t) \/ SpendStep(t) \/ Reload(t) \/ OpenCallback(t)
        PROVE  QuietStep
    BY <1>1, <1>2, <2>1, <2>9, QuietSteps
  <2>10. ASSUME NEW r \in Requests, SendRequest(r) \/ FirstAnswer(r) \/ SecondAnswer(r)
         PROVE  QuietStep
    BY <1>1, <1>2, <2>1, <2>10, QuietSteps
  <2>11. CASE HalfMinutePasses \/ QuarterHourPasses
    BY <1>1, <1>2, <2>1, <2>2, <2>11, QuietSteps
  <2>12. CASE Next
    BY <2>2, <2>4, <2>5, <2>6, <2>7, <2>8, <2>9, <2>10, <2>11, <2>12, StepKinds
  <2> QED BY <2>3, <2>12
<1> QED BY <1>1, <1>2 DEF CalmInv

\* What the run checks follows: the invariant says more.
LEMMA CalmImplies == CalmInv => HonestTabsStaySignedIn
<1> SUFFICES ASSUME CalmInv, locks, history = {}
             PROVE  HonestTabsStaySignedIn
  BY DEF HonestTabsStaySignedIn
<1>1. Honest /\ TypeInv
  BY DEF CalmInv, Calm
<1>2. ASSUME NEW t \in Tabs, calls[t]["refresh"].phase = "decided",
             calls[t]["refresh"].cookie # 0
      PROVE  calls[t]["refresh"].verdict = "rotate"
  BY <1>1, <1>2 DEF Honest, PresentedServed, Presents
<1>3. ASSUME NEW n \in Tokens(server)
      PROVE  Cardinality({m \in FamilyOf(server, n) : Active(server, m)}) = 1
  <2>1. PICK m \in FamilyOf(server, n) : \A l \in FamilyOf(server, n) : Active(server, l) <=> l = m
    BY <1>1 DEF Honest, OneActive
  <2>2. {l \in FamilyOf(server, n) : Active(server, l)} = {m}
    BY <2>1
  <2> QED BY <2>2, FS_Singleton
<1>4. ASSUME cookie # 0, ~Active(server, cookie)
      PROVE  \E t \in Tabs : calls[t]["refresh"].phase = "answered"
  BY <1>1, <1>4 DEF Honest, CookieServed, Brings
<1> QED BY <1>2, <1>3, <1>4 DEF HonestTabsStaySignedIn

\* Where the browser has locks, nobody has signed out and no answer was lost, no tab is
\* signed out by the rotation: every refresh that presents a cookie is served, each
\* family has one active token, and the cookie is active but while a call changes it.
\* It relates session.ts, the lock that the tabs share, and the rotation of
\* services/auth.py.
THEOREM HonestTabsStaySignedInHolds == Spec => []HonestTabsStaySignedIn
<1>1. Init => CalmInv
  BY TypeInit, PagesInit, HonestInit DEF CalmInv
<1>2. Spec => []CalmInv
  BY <1>1, CalmStep, PTL DEF Spec
<1> QED BY <1>2, CalmImplies, PTL

=============================================================================
