--------------------------- MODULE UseCases_proofs ---------------------------
(***************************************************************************)
(* Proofs about UseCases for any requests, currencies, imports and         *)
(* operations.                                                             *)
(***************************************************************************)
EXTENDS UseCases, SequenceTheorems, FiniteSetTheorems, TLAPS

\* The collection of accounts is a list of documents.
Shape ==
  /\ accounts \in Seq({accounts[i] : i \in A!Ids})
  /\ \A i \in A!Ids : DOMAIN accounts[i] = A!Keys \cup {"deleted"} /\ accounts[i].mark \in Nat

\* What any step may do to it: add documents, and mark some as deleted.
Grows ==
  /\ Len(accounts) \in Nat /\ Len(accounts') \in Nat /\ Len(accounts) <= Len(accounts')
  /\ A!Ids = 1..Len(accounts) /\ A!Ids' = 1..Len(accounts')
  /\ \A i \in A!Ids :
       /\ \A k \in A!Keys : accounts'[i][k] = accounts[i][k]
       /\ accounts[i].deleted => accounts'[i].deleted

LEMMA ShapeIds == Shape => Len(accounts) \in Nat /\ A!Ids = 1..Len(accounts)
BY LenProperties DEF Shape, A!Ids

LEMMA SeqOfItsElements == ASSUME NEW S, NEW s \in Seq(S) PROVE s \in Seq({s[i] : i \in DOMAIN s})
<1>1. Len(s) \in Nat /\ DOMAIN s = 1..Len(s) /\ s \in [1..Len(s) -> S]
  BY LenProperties
<1> DEFINE T == {s[i] : i \in DOMAIN s}
<1>2. s \in [1..Len(s) -> T]
  BY <1>1
<1> HIDE DEF T
<1>3. s \in Seq(T)
  BY <1>1, <1>2
<1>4. QED
  BY <1>3 DEF T

LEMMA AccountsSame ==
  ASSUME Shape, UNCHANGED accounts
  PROVE  Shape' /\ Grows /\ (A!DuplicatesOverlap => A!DuplicatesOverlap')
<1>1. Shape'
  BY DEF Shape, A!Ids
<1>2. Grows
  BY ShapeIds DEF Grows, A!Ids
<1>3. A!DuplicatesOverlap => A!DuplicatesOverlap'
  BY DEF A!DuplicatesOverlap, A!Ids
<1>4. QED
  BY <1>1, <1>2, <1>3

\* An import creates the account it has looked for.
LEMMA AccountCreated ==
  ASSUME Shape, A!DuplicatesOverlap, NEW r \in Requests, NEW addr, NEW cur,
         A!Is(r, "import"), A!ImportInv(r), call[r].at \in {"create", "insert"},
         addr = A!Wanted(call[r]).addr, cur = A!Wanted(call[r]).cur,
         A!Create(r, addr, cur)
  PROVE  /\ Shape' /\ Grows /\ A!DuplicatesOverlap'
         /\ \A i \in A!Ids' \ A!Ids : accounts'[i].by = r
<1> DEFINE d == [addr |-> addr, cur |-> cur, deleted |-> FALSE, by |-> r, mark |-> call[r].mark]
           n == Len(accounts) + 1
           S == {accounts[i] : i \in A!Ids} \cup {d}
<1>1. accounts' = Append(accounts, d)
  BY DEF A!Create, A!NewAccount
<1>2. accounts \in Seq(S) /\ d \in S
  BY SeqMonotonic DEF Shape
<1>3. Len(accounts) \in Nat /\ A!Ids = 1..Len(accounts)
  BY ShapeIds
<1>4. /\ accounts' \in Seq(S) /\ Len(accounts') = n
      /\ accounts'[n] = d /\ \A i \in A!Ids : accounts'[i] = accounts[i]
  BY <1>1, <1>2, <1>3, AppendProperties
<1>5. A!Ids' = 1..n
  BY <1>4, LenProperties DEF A!Ids
<1>6. DOMAIN d = A!Keys \cup {"deleted"} /\ d.mark = call[r].mark /\ d.by = r /\ ~d.deleted
      /\ d.addr = addr /\ d.cur = cur
  BY DEF A!Keys
<1>7. call[r].mark \in 0..Len(accounts)
  BY DEF A!ImportInv
<1> HIDE DEF d, S
<1>8. accounts' \in Seq({accounts'[i] : i \in DOMAIN accounts'})
  BY <1>4, SeqOfItsElements
<1>9. Shape'
  <2>1. \A i \in A!Ids' : DOMAIN accounts'[i] = A!Keys \cup {"deleted"} /\ accounts'[i].mark \in Nat
    <3> SUFFICES ASSUME NEW i \in 1..n
                 PROVE  DOMAIN accounts'[i] = A!Keys \cup {"deleted"} /\ accounts'[i].mark \in Nat
      BY <1>5
    <3>1. CASE i = n
      BY <1>4, <1>6, <1>7, <3>1
    <3>2. CASE i # n
      <4>1. i \in A!Ids
        BY <1>3, <3>2
      <4>2. accounts'[i] = accounts[i]
        BY <1>4, <4>1
      <4>3. QED
        BY <4>1, <4>2 DEF Shape
    <3>3. QED
      BY <3>1, <3>2
  <2>2. QED
    BY <1>8, <2>1 DEF Shape, A!Ids
<1>10. Grows
  BY <1>3, <1>4, <1>5 DEF Grows
<1>11. A!DuplicatesOverlap'
  <2> SUFFICES ASSUME NEW i \in 1..n, NEW j \in 1..n, i < j,
                      ~accounts'[i].deleted, ~accounts'[j].deleted,
                      accounts'[i].addr = accounts'[j].addr, accounts'[i].cur = accounts'[j].cur,
                      accounts'[i].cur # None
               PROVE  accounts'[j].mark < i /\ accounts'[i].by # accounts'[j].by
    BY <1>5 DEF A!DuplicatesOverlap
  <2>1. i \in A!Ids /\ accounts'[i] = accounts[i]
    BY <1>3, <1>4
  <2>2. CASE j = n
    <3>1. ~(i <= call[r].mark)
      BY <1>4, <1>6, <2>1, <2>2 DEF A!ImportInv
    <3>2. accounts[i].by # r
      BY <2>1, <3>1 DEF A!ImportInv
    <3>3. accounts'[j] = d /\ accounts'[i] = accounts[i]
      BY <1>4, <2>1, <2>2
    <3>4. call[r].mark < i
      BY <1>7, <3>1
    <3>5. QED
      BY <1>6, <3>2, <3>3, <3>4
  <2>3. CASE j # n
    <3>1. j \in A!Ids /\ accounts'[j] = accounts[j]
      BY <1>3, <1>4, <2>3
    <3>2. accounts[j].mark < i /\ accounts[i].by # accounts[j].by
      BY <2>1, <3>1 DEF A!DuplicatesOverlap
    <3>3. QED
      BY <2>1, <3>1, <3>2
  <2>4. QED
    BY <2>2, <2>3
<1>12. \A i \in A!Ids' \ A!Ids : accounts'[i].by = r
  BY <1>3, <1>4, <1>5, <1>6
<1>13. QED
  BY <1>9, <1>10, <1>11, <1>12

\* A request that writes an account back leaves its keys, and does not revive it.
LEMMA AccountWritten ==
  ASSUME Shape, A!DuplicatesOverlap, NEW r \in Requests, A!WriteInv(r), A!WriteAccount(r)
  PROVE  Shape' /\ Grows /\ A!DuplicatesOverlap' /\ A!Ids' = A!Ids
<1> DEFINE id == call[r].id
           d == A!SetAccount(accounts[id], A!Changed(call[r].base, call[r].op))
           S == {accounts[i] : i \in A!Ids} \cup {d}
<1>1. accounts' = accounts \/ accounts' = [accounts EXCEPT ![id] = d]
  BY DEF A!WriteAccount
<1>2. id \in A!Ids /\ DOMAIN call[r].base = A!Keys \cup {"deleted"}
      /\ \A k \in A!Keys : call[r].base[k] = accounts[id][k]
  BY DEF A!WriteAccount, A!WriteInv, A!Is
<1>3. DOMAIN d = A!Keys \cup {"deleted"} /\ (accounts[id].deleted => d.deleted)
      /\ \A k \in A!Keys : d[k] = accounts[id][k]
  BY <1>2 DEF A!SetAccount, A!Changed, A!Keys
<1>4. Len(accounts) \in Nat /\ A!Ids = 1..Len(accounts) /\ DOMAIN accounts = 1..Len(accounts)
  BY ShapeIds DEF A!Ids
<1>5. CASE accounts' = accounts
  BY <1>5, AccountsSame DEF A!Ids
<1>6. CASE accounts' = [accounts EXCEPT ![id] = d]
  <2> HIDE DEF d
  <2>1. accounts \in Seq(S) /\ d \in S
    BY SeqMonotonic DEF Shape
  <2> HIDE DEF S, id
  <2>2. accounts' \in Seq(S) /\ Len(accounts') = Len(accounts)
    BY <1>2, <1>4, <1>6, <2>1, ExceptSeq
  <2>3. A!Ids' = A!Ids
    BY <1>4, <2>2, LenProperties DEF A!Ids
  <2>4. accounts'[id] = d /\ \A i \in A!Ids : i # id => accounts'[i] = accounts[i]
    BY <1>2, <1>4, <1>6
  <2>5. Shape'
    <3>1. accounts' \in Seq({accounts'[i] : i \in DOMAIN accounts'})
      BY <2>2, SeqOfItsElements
    <3>2. d.mark \in Nat
      BY <1>2, <1>3 DEF Shape, A!Keys
    <3>3. QED
      BY <1>3, <2>3, <2>4, <3>1, <3>2 DEF Shape, A!Ids
  <2>6. \A i \in A!Ids : /\ \A k \in A!Keys : accounts'[i][k] = accounts[i][k]
                         /\ accounts[i].deleted => accounts'[i].deleted
    BY <1>3, <2>4
  <2>7. Grows
    BY <1>4, <2>2, <2>3, <2>6 DEF Grows
  <2>8. A!DuplicatesOverlap'
    <3>1. \A i \in A!Ids : /\ accounts'[i].addr = accounts[i].addr /\ accounts'[i].cur = accounts[i].cur
                           /\ accounts'[i].by = accounts[i].by /\ accounts'[i].mark = accounts[i].mark
      BY <2>6 DEF A!Keys
    <3>2. QED
      BY <2>3, <2>6, <3>1 DEF A!DuplicatesOverlap
  <2>9. QED
    BY <2>3, <2>5, <2>7, <2>8
<1>7. QED
  BY <1>1, <1>5, <1>6
-----------------------------------------------------------------------------
\* What a request knows stays true while others work.
LEMMA OthersKnow ==
  ASSUME Grows, NEW q \in Requests, A!ImportInv(q), A!WriteInv(q), call'[q] = call[q],
         \A i \in A!Ids' \ A!Ids : accounts'[i].by # q
  PROVE  A!ImportInv(q)' /\ A!WriteInv(q)'
<1>1. A!Ids \subseteq A!Ids' /\ \A i \in A!Ids' : i \notin A!Ids => i > Len(accounts)
  BY DEF Grows
<1>2. \A i \in A!Ids : /\ accounts'[i].addr = accounts[i].addr /\ accounts'[i].cur = accounts[i].cur
                       /\ accounts'[i].by = accounts[i].by
                       /\ accounts[i].deleted => accounts'[i].deleted
  BY DEF Grows, A!Keys
<1>3. A!Wanted(call[q])' = A!Wanted(call[q])
  BY DEF A!Wanted, A!Lender, A!OnChain
<1>4. A!ImportInv(q)'
  <2> SUFFICES ASSUME A!Is(q, "import"), call[q].at \in {"create", "insert"}
               PROVE  /\ call[q].mark \in 0..Len(accounts')
                      /\ \A i \in A!Ids' :
                           IF i <= call[q].mark
                           THEN \/ A!Wanted(call[q]).cur = None \/ accounts'[i].deleted
                                \/ accounts'[i].addr # A!Wanted(call[q]).addr
                                \/ accounts'[i].cur # A!Wanted(call[q]).cur
                           ELSE accounts'[i].by # q
    BY <1>3 DEF A!ImportInv, A!Is
  <2>1. call[q].mark \in 0..Len(accounts)
    BY DEF A!ImportInv
  <2>2. call[q].mark \in 0..Len(accounts')
    BY <2>1 DEF Grows
  <2>3. ASSUME NEW i \in A!Ids'
        PROVE  IF i <= call[q].mark
               THEN \/ A!Wanted(call[q]).cur = None \/ accounts'[i].deleted
                    \/ accounts'[i].addr # A!Wanted(call[q]).addr
                    \/ accounts'[i].cur # A!Wanted(call[q]).cur
               ELSE accounts'[i].by # q
    <3>1. CASE i \in A!Ids
      BY <1>2, <3>1 DEF A!ImportInv
    <3>2. CASE i \notin A!Ids
      <4>1. ~(i <= call[q].mark)
        BY <1>1, <2>1, <2>3, <3>2 DEF Grows
      <4>2. QED
        BY <2>3, <3>2, <4>1
    <3>3. QED
      BY <3>1, <3>2
  <2>4. QED
    BY <2>2, <2>3
<1>5. A!WriteInv(q)'
  BY <1>1 DEF A!WriteInv, A!Is, Grows
<1>6. QED
  BY <1>4, <1>5

\* The parts of an import that Wanted looks at are those it was found with.
LEMMA WantedSame ==
  ASSUME NEW c, NEW d, d.given = c.given, d.pos = c.pos, d.todo = c.todo, d.at = c.at
  PROVE  A!Wanted(d) = A!Wanted(c)
BY DEF A!Wanted, A!Lender, A!OnChain

\* Withdrawing a currency marks the imports, and nothing they know.
LEMMA MarkedKnow ==
  ASSUME Shape, NEW q \in Requests, A!ImportInv(q), UNCHANGED accounts, A!Is(q, "import"),
         call'[q] = [call[q] EXCEPT !.moved = TRUE]
  PROVE  A!ImportInv(q)' /\ A!WriteInv(q)' /\ call'[q].kind = "import" /\ "kind" \in DOMAIN call'[q]
<1>1. DOMAIN call[q] = {"kind", "given", "at", "pos", "todo", "read", "ids", "mark",
                        "offered", "missed", "moved"}
  BY DEF A!ImportInv
<1>2. /\ DOMAIN call'[q] = DOMAIN call[q] /\ call'[q].kind = "import"
      /\ call'[q].given = call[q].given /\ call'[q].pos = call[q].pos /\ call'[q].mark = call[q].mark
      /\ call'[q].todo = call[q].todo /\ call'[q].at = call[q].at
  BY <1>1 DEF A!Is
<1>3. A!Wanted(call'[q]) = A!Wanted(call[q])
  BY <1>2, WantedSame
<1>4. A!Wanted(call[q])' = A!Wanted(call'[q])
  BY DEF A!Wanted, A!Lender, A!OnChain
<1>5. A!ImportInv(q)'
  BY <1>1, <1>2, <1>3, <1>4 DEF A!ImportInv, A!Is, A!Ids
<1>6. A!WriteInv(q)'
  BY <1>2 DEF A!WriteInv, A!Is
<1>7. QED
  BY <1>1, <1>2, <1>5, <1>6

\* What a step of a request does with its call.
Steps(r) ==
  /\ call[r].kind # "order" /\ call'[r].kind # "order"
  /\ DOMAIN call' = Requests /\ "kind" \in DOMAIN call'[r]
  /\ \A q \in Requests : q # r => call'[q] = call[q]
  /\ A!ImportInv(r)' /\ A!WriteInv(r)'

LEMMA StepEnds ==
  ASSUME CallOK, NEW r \in Requests, NEW c, A!Continue(r, c), call[r].kind # "order",
         "kind" \in DOMAIN c, c.kind \in {"report", "over"}
  PROVE  Steps(r)
BY DEF CallOK, Steps, A!Continue, A!ImportInv, A!WriteInv, A!Is

LEMMA ReportEnds ==
  ASSUME CallOK, NEW r \in Requests, call[r].kind # "order",
         NEW status, NEW ids, NEW panicked, A!Reports(r, status, ids, panicked)
  PROVE  Steps(r)
<1> DEFINE c == [kind |-> "report", status |-> status, panicked |-> panicked,
                 given |-> call[r].given, ids |-> ids, offered |-> call[r].offered,
                 missed |-> call[r].missed, moved |-> call[r].moved]
<1>1. A!Continue(r, c) /\ "kind" \in DOMAIN c /\ c.kind = "report"
  BY DEF A!Reports
<1> HIDE DEF c
<1>2. QED
  BY <1>1, StepEnds

ImportFields ==
  {"kind", "given", "at", "pos", "todo", "read", "ids", "mark", "offered", "missed", "moved"}

LEMMA ImportGoesOn ==
  ASSUME CallOK, NEW r \in Requests, NEW c, A!Continue(r, c), call[r].kind # "order",
         DOMAIN c = ImportFields, c.kind = "import", c.at \notin {"create", "insert"}
  PROVE  Steps(r)
BY DEF CallOK, Steps, ImportFields, A!Continue, A!ImportInv, A!WriteInv, A!Is

\* The request has found nothing like what it wants to create.
LEMMA ImportLooked ==
  ASSUME CallOK, Shape, NEW r \in Requests, NEW c, A!Continue(r, c), UNCHANGED accounts,
         call[r].kind # "order", DOMAIN c = ImportFields, c.kind = "import", c.at \in {"create", "insert"},
         c.mark = Len(accounts), ~A!Exists(A!Wanted(c).addr, A!Wanted(c).cur)
  PROVE  Steps(r)
<1>1. call'[r] = c /\ DOMAIN call' = Requests /\ \A q \in Requests : q # r => call'[q] = call[q]
  BY DEF CallOK, A!Continue
<1>2. A!Wanted(call[r])' = A!Wanted(c)
  BY <1>1 DEF A!Wanted, A!Lender, A!OnChain
<1>3. c.mark \in 0..Len(accounts) /\ \A i \in A!Ids : i <= c.mark
  BY ShapeIds
<1>4. \A i \in A!Ids : \/ A!Wanted(c).cur = None \/ accounts[i].deleted
                       \/ accounts[i].addr # A!Wanted(c).addr \/ accounts[i].cur # A!Wanted(c).cur
  BY DEF A!Exists
<1>5. A!ImportInv(r)'
  BY <1>1, <1>2, <1>3, <1>4 DEF A!ImportInv, A!Is, A!Ids, ImportFields
<1>6. A!WriteInv(r)'
  BY <1>1 DEF A!WriteInv, A!Is
<1>7. QED
  BY <1>1, <1>5, <1>6 DEF Steps, ImportFields

LEMMA LooksOrWrites ==
  ASSUME CallOK, A!AccountsInv, NEW r \in Requests, UNCHANGED accounts,
         \/ \E given \in Imports : A!StartImport(r, given)
         \/ A!Abort(r) \/ A!FetchPanics(r) \/ A!CheckOriginal(r)
         \/ A!FetchBatch(r) \/ A!CheckCurrency(r)
         \/ \E id \in A!Ids : A!RefreshBalance(r, id) \/ A!DeleteAccount(r, id)
  PROVE  Steps(r)
<1> DEFINE c == call[r]
<1> USE DEF A!At, A!Is
<1>1. Shape /\ A!ImportInv(r)
  BY DEF A!AccountsInv, Shape
<1>2. c.kind = "import" => DOMAIN c = ImportFields
  BY <1>1 DEF A!ImportInv, ImportFields
<1>3. ASSUME NEW given \in Imports, A!StartImport(r, given) PROVE Steps(r)
  BY <1>3, ImportGoesOn DEF A!StartImport, ImportFields
<1>4. CASE A!Abort(r)
  BY <1>4, ReportEnds DEF A!Abort, A!Fails
<1>5. CASE A!FetchPanics(r)
  BY <1>5, ReportEnds DEF A!FetchPanics
<1>6. CASE A!CheckOriginal(r)
  <2> DEFINE o == c.given[c.pos]
             d == [c EXCEPT !.at = "create", !.mark = Len(accounts)]
             e == A!NextOriginal(c)
  <2>1. c.kind = "import" /\ A!Continue(r, IF A!Exists(o.addr, o.cur) THEN e ELSE d)
    BY <1>6 DEF A!CheckOriginal
  <2>2. DOMAIN e = ImportFields /\ e.kind = "import" /\ e.at = "original"
    BY <1>2, <2>1 DEF A!NextOriginal, ImportFields
  <2>3. /\ DOMAIN d = ImportFields /\ d.kind = "import" /\ d.at = "create" /\ d.mark = Len(accounts)
        /\ d.given = c.given /\ d.pos = c.pos
    BY <1>2, <2>1 DEF ImportFields
  <2> HIDE DEF d, e
  <2>4. A!Wanted(d) = o
    BY <2>3 DEF A!Wanted
  <2>5. QED
    BY <1>1, <2>1, <2>2, <2>3, <2>4, ImportGoesOn, ImportLooked
<1>7. CASE A!FetchBatch(r)
  <2> DEFINE s == A!NextBatch(c)
             d == [c EXCEPT !.at = "currency", !.todo = s, !.read = @ + Len(s)]
  <2>1. c.kind = "import" /\ (A!Reports(r, "success", c.ids, FALSE) \/ A!Continue(r, d))
    BY <1>7 DEF A!FetchBatch
  <2> HIDE DEF s
  <2>2. DOMAIN d = ImportFields /\ d.kind = "import" /\ d.at = "currency"
    BY <1>2, <2>1 DEF ImportFields
  <2> HIDE DEF d
  <2>3. QED
    BY <2>1, <2>2, ImportGoesOn, ReportEnds
<1>8. CASE A!CheckCurrency(r)
  <2> DEFINE cur == Head(c.todo)
             d == [c EXCEPT !.at = "insert", !.mark = Len(accounts)]
  <2>1. /\ c.kind = "import"
        /\ \/ A!Continue(r, A!NextCurrency(c)) \/ A!Continue(r, A!GiveUp(c))
           \/ A!Continue(r, d) /\ ~A!Exists(A!Lender(c, cur).addr, cur)
    BY <1>8 DEF A!CheckCurrency
  <2>2. \A b : DOMAIN b = ImportFields /\ b.kind = "import" =>
          /\ DOMAIN A!NextCurrency(b) = ImportFields /\ A!NextCurrency(b).kind = "import"
          /\ A!NextCurrency(b).at \in {"batch", "currency"}
    BY DEF A!NextCurrency, ImportFields
  <2>3. /\ DOMAIN A!GiveUp(c) = ImportFields /\ A!GiveUp(c).kind = "import"
        /\ A!GiveUp(c).at \in {"batch", "currency"}
    <3> DEFINE b == [c EXCEPT !.missed = @ \cup {Head(c.todo)}]
    <3>1. DOMAIN b = ImportFields /\ b.kind = "import" /\ A!GiveUp(c) = A!NextCurrency(b)
      BY <1>2, <2>1 DEF A!GiveUp, ImportFields
    <3> HIDE DEF b
    <3>2. QED
      BY <2>2, <3>1
  <2>4. /\ DOMAIN d = ImportFields /\ d.kind = "import" /\ d.at = "insert" /\ d.mark = Len(accounts)
        /\ d.given = c.given /\ d.todo = c.todo
    BY <1>2, <2>1 DEF ImportFields
  <2> HIDE DEF d
  <2>5. A!Wanted(d) = [addr |-> A!Lender(c, cur).addr, cur |-> cur]
    BY <2>4 DEF A!Wanted, A!Lender, A!OnChain
  <2>6. CASE A!Continue(r, A!NextCurrency(c)) \/ A!Continue(r, A!GiveUp(c))
    BY <1>2, <2>1, <2>2, <2>3, <2>6, ImportGoesOn
  <2>7. CASE A!Continue(r, d) /\ ~A!Exists(A!Lender(c, cur).addr, cur)
    BY <1>1, <2>1, <2>4, <2>5, <2>7, ImportLooked
  <2>8. QED
    BY <2>1, <2>6, <2>7
<1>9. ASSUME NEW id \in A!Ids, A!RefreshBalance(r, id) \/ A!DeleteAccount(r, id) PROVE Steps(r)
  <2>1. PICK op : A!ReadAccount(r, id, op)
    BY <1>9 DEF A!RefreshBalance, A!DeleteAccount
  <2>2. call'[r] = [kind |-> "account", id |-> id, op |-> op, base |-> accounts[id]]
        /\ DOMAIN call' = Requests /\ call[r].kind = "idle" /\ \A q \in Requests : q # r => call'[q] = call[q]
    BY <2>1 DEF A!ReadAccount, A!Continue, CallOK
  <2>3. A!ImportInv(r)'
    BY <2>2 DEF A!ImportInv
  <2>4. A!WriteInv(r)'
    <3>1. call'[r].id = id /\ call'[r].base = accounts[id]
      BY <2>2
    <3>2. A!Ids' = A!Ids /\ DOMAIN accounts[id] = A!Keys \cup {"deleted"}
      BY <1>1 DEF Shape, A!Ids
    <3>3. QED
      BY <3>1, <3>2 DEF A!WriteInv
  <2>5. QED
    BY <2>2, <2>3, <2>4 DEF Steps
<1>10. QED
  BY <1>3, <1>4, <1>5, <1>6, <1>7, <1>8, <1>9

LEMMA AccountsStep ==
  ASSUME CallOK, A!AccountsInv, NEW r \in Requests, A!Step(r)
  PROVE  /\ Steps(r) /\ Shape' /\ Grows /\ A!DuplicatesOverlap'
         /\ \A i \in A!Ids' \ A!Ids : accounts'[i].by = r
<1> DEFINE c == call[r]
<1>1. Shape /\ A!DuplicatesOverlap /\ A!ImportInv(r) /\ A!WriteInv(r)
  BY DEF A!AccountsInv, Shape
<1>2. ASSUME Steps(r), UNCHANGED accounts
      PROVE  /\ Steps(r) /\ Shape' /\ Grows /\ A!DuplicatesOverlap'
             /\ \A i \in A!Ids' \ A!Ids : accounts'[i].by = r
  BY <1>1, <1>2, AccountsSame DEF A!Ids
<1>3. ASSUME \/ \E given \in Imports : A!StartImport(r, given)
             \/ A!Abort(r) \/ A!FetchPanics(r) \/ A!CheckOriginal(r)
             \/ A!FetchBatch(r) \/ A!CheckCurrency(r)
             \/ \E id \in A!Ids : A!RefreshBalance(r, id) \/ A!DeleteAccount(r, id)
      PROVE  Steps(r) /\ UNCHANGED accounts
  <2>1. UNCHANGED accounts
    BY <1>3 DEF A!StartImport, A!Abort, A!FetchPanics, A!CheckOriginal, A!FetchBatch,
                A!CheckCurrency, A!RefreshBalance, A!DeleteAccount, A!ReadAccount
  <2>2. QED
    BY <1>3, <2>1, LooksOrWrites
<1>4. c.kind = "import" => DOMAIN c = ImportFields
  BY <1>1 DEF A!ImportInv, A!Is, ImportFields
<1>5. \A b : DOMAIN b = ImportFields /\ b.kind = "import" =>
        /\ DOMAIN A!NextOriginal(b) = ImportFields /\ A!NextOriginal(b).kind = "import"
        /\ A!NextOriginal(b).at = "original"
        /\ DOMAIN A!NextCurrency(b) = ImportFields /\ A!NextCurrency(b).kind = "import"
        /\ A!NextCurrency(b).at \in {"batch", "currency"}
  BY DEF A!NextOriginal, A!NextCurrency, ImportFields
<1> DEFINE grown == [c EXCEPT !.ids = @ \cup {Len(accounts) + 1}]
           given_up == [c EXCEPT !.missed = @ \cup {Head(c.todo)}]
<1>6. c.kind = "import" =>
        /\ DOMAIN grown = ImportFields /\ grown.kind = "import"
        /\ DOMAIN given_up = ImportFields /\ given_up.kind = "import"
        /\ A!GiveUp(c) = A!NextCurrency(given_up)
  BY <1>4 DEF ImportFields, A!GiveUp
<1>7. CASE A!CreateOriginal(r)
  <2> DEFINE o == c.given[c.pos]
  <2>1. /\ c.kind = "import" /\ c.at = "create" /\ A!Create(r, o.addr, o.cur)
        /\ A!Continue(r, A!NextOriginal(grown)) \/ A!Fails(r)
    BY <1>7 DEF A!CreateOriginal, A!At, A!Is
  <2> HIDE DEF grown
  <2>2. Steps(r)
    BY <1>5, <1>6, <2>1, ImportGoesOn, ReportEnds DEF A!Fails
  <2>3. A!Wanted(c) = o
    BY <2>1 DEF A!Wanted
  <2>4. QED
    BY <1>1, <2>1, <2>2, <2>3, AccountCreated DEF A!Is
<1>8. CASE A!CreateCurrency(r)
  <2> DEFINE cur == Head(c.todo)
  <2>1. /\ c.kind = "import" /\ c.at = "insert"
        /\ \/ A!Create(r, A!Lender(c, cur).addr, cur) \/ UNCHANGED accounts
        /\ \/ A!Continue(r, A!NextCurrency(grown)) \/ A!Continue(r, A!GiveUp(c))
    BY <1>8 DEF A!CreateCurrency, A!At, A!Is
  <2> HIDE DEF grown, given_up
  <2>2. Steps(r)
    <3>1. CASE A!Continue(r, A!NextCurrency(grown))
      BY <1>5, <1>6, <2>1, <3>1, ImportGoesOn
    <3>2. CASE A!Continue(r, A!NextCurrency(given_up))
      BY <1>5, <1>6, <2>1, <3>2, ImportGoesOn
    <3>3. QED
      BY <1>6, <2>1, <3>1, <3>2
  <2>3. A!Wanted(c) = [addr |-> A!Lender(c, cur).addr, cur |-> cur]
    BY <2>1 DEF A!Wanted
  <2>4. CASE A!Create(r, A!Lender(c, cur).addr, cur)
    BY <1>1, <2>1, <2>2, <2>3, <2>4, AccountCreated DEF A!Is
  <2>5. QED
    BY <1>2, <2>1, <2>2, <2>4
<1>9. CASE A!WriteAccount(r)
  <2>1. A!Continue(r, A!Over) /\ c.kind = "account"
    BY <1>9 DEF A!WriteAccount, A!Is
  <2>2. Steps(r)
    BY <2>1, StepEnds DEF A!Over
  <2>3. QED
    BY <1>1, <1>9, <2>2, AccountWritten
<1>10. QED
  BY <1>2, <1>3, <1>7, <1>8, <1>9 DEF A!Step
-----------------------------------------------------------------------------
\* What an operation makes of the order it has read.
LEMMA ChangedOrder ==
  ASSUME NEW base \in O!Order, NEW op \in Ops
  PROVE  /\ O!Changed(base, op) \in O!Order
         /\ O!Changed(base, op).deposit = base.deposit
         /\ O!Changed(base, op).deletedAt \in {base.deletedAt, "zero"}
         /\ \A f \in {"status", "amount", "stamped"} :
              O!Changed(base, op)[f] # base[f] => O!Gives(op, f)
<1> USE DEF O!Order
<1>1. op \in O!Op
  BY UseCasesAssumption DEF O!OrderStoreAssumption
<1>2. CASE op \in [name : {"merge"}, with : O!Update]
  <2>1. op.name = "merge" /\ op.with \in O!Update
    BY <1>2
  <2>2. O!Changed(base, op) = O!Merge(base, op.with)
    BY <2>1 DEF O!Changed
  <2>3. /\ O!Merge(base, op.with) \in O!Order
        /\ O!Merge(base, op.with).deposit = base.deposit
        /\ O!Merge(base, op.with).deletedAt = base.deletedAt
        /\ O!Merge(base, op.with).status # base.status => op.with.status # None
        /\ O!Merge(base, op.with).amount # base.amount => op.with.amount # 0
        /\ O!Merge(base, op.with).stamped # base.stamped => op.with.stamped # {}
    BY <2>1 DEF O!Merge, O!Update
  <2>4. \A f : O!Gives(op, f) = IF f = "status" THEN op.with.status # None
                                ELSE IF f = "amount" THEN op.with.amount # 0
                                ELSE op.with.stamped # {}
    BY <2>1 DEF O!Gives
  <2>5. QED
    BY <2>2, <2>3, <2>4
<1>3. CASE op \in [name : {"fields"}, status : O!AllStatuses \cup {None}, amount : {0, 1, None}]
  <2>1. op.name = "fields" /\ op.status \in O!AllStatuses \cup {None} /\ op.amount \in {0, 1, None}
    BY <1>3
  <2>2. O!Changed(base, op) = O!SetFields(base, op)
    BY <2>1 DEF O!Changed
  <2>3. /\ O!SetFields(base, op) \in O!Order
        /\ O!SetFields(base, op).deposit = base.deposit
        /\ O!SetFields(base, op).deletedAt = base.deletedAt
        /\ O!SetFields(base, op).status # base.status => op.status # None
        /\ O!SetFields(base, op).amount # base.amount => op.amount # None
        /\ O!SetFields(base, op).stamped = base.stamped
    BY <2>1 DEF O!SetFields
  <2>4. \A f : O!Gives(op, f) = (f # "stamped" /\ op[f] # None)
    BY <2>1 DEF O!Gives
  <2>5. QED
    BY <2>2, <2>3, <2>4
<1>4. CASE op \in [name : {"status"}, status : O!AllStatuses]
  <2>1. op.name = "status" /\ op.status \in O!AllStatuses
    BY <1>4
  <2>2. O!Changed(base, op) = O!UpdateStatus(base, op.status)
    BY <2>1 DEF O!Changed
  <2>3. /\ O!UpdateStatus(base, op.status) \in O!Order
        /\ O!UpdateStatus(base, op.status).deposit = base.deposit
        /\ O!UpdateStatus(base, op.status).deletedAt = base.deletedAt
        /\ O!UpdateStatus(base, op.status).amount = base.amount
    BY <2>1 DEF O!UpdateStatus
  <2>4. \A f : O!Gives(op, f) = (f # "amount")
    BY <2>1 DEF O!Gives
  <2>5. QED
    BY <2>2, <2>3, <2>4
<1>5. CASE op \in [name : {"delete"}]
  <2>1. op.name = "delete"
    BY <1>5
  <2>2. O!Changed(base, op) = O!MarkAsDeleted(base)
    BY <2>1 DEF O!Changed
  <2>3. /\ O!MarkAsDeleted(base) \in O!Order
        /\ O!MarkAsDeleted(base).deposit = base.deposit
        /\ O!MarkAsDeleted(base).deletedAt = "zero"
        /\ O!MarkAsDeleted(base).status = base.status
        /\ O!MarkAsDeleted(base).amount = base.amount
        /\ O!MarkAsDeleted(base).stamped = base.stamped
    BY DEF O!MarkAsDeleted
  <2>4. QED
    BY <2>2, <2>3
<1>6. QED
  BY <1>1, <1>2, <1>3, <1>4, <1>5 DEF O!Op

LEMMA OrderSet ==
  ASSUME NEW doc \in O!Order, NEW base \in O!Order, base.deletedAt = "nil", NEW op \in Ops
  PROVE  LET new == O!SetOrder(doc, O!Changed(base, op))
         IN  /\ new \in O!Order /\ new.deposit = doc.deposit /\ new.deletedAt = doc.deletedAt
             /\ \A f \in {"status", "amount", "stamped"} :
                  new[f] # doc[f] => O!Gives(op, f) \/ doc[f] # base[f]
<1> DEFINE x == O!Changed(base, op)
<1>1. x \in O!Order /\ x.deletedAt \in {"nil", "zero"}
      /\ \A f \in {"status", "amount", "stamped"} : x[f] # base[f] => O!Gives(op, f)
  BY ChangedOrder
<1> HIDE DEF x
<1>2. /\ O!SetOrder(doc, x) \in O!Order
      /\ O!SetOrder(doc, x).deposit = doc.deposit /\ O!SetOrder(doc, x).deletedAt = doc.deletedAt
      /\ O!SetOrder(doc, x).status = x.status /\ O!SetOrder(doc, x).amount = x.amount
      /\ O!SetOrder(doc, x).stamped = x.stamped
  BY <1>1 DEF O!SetOrder, O!Order
<1>3. \A f \in {"status", "amount", "stamped"} : O!SetOrder(doc, x)[f] = x[f]
  BY <1>2
<1>4. QED
  BY <1>1, <1>2, <1>3 DEF x
-----------------------------------------------------------------------------
\* What a request that writes an order back may do.
Keeps(r) ==
  O!Is(r, "order") /\ call'[r] = O!Over =>
    LET c == call[r]
    IN  /\ \A f \in {"status", "amount", "stamped"} :
             orders'[c.id][f] # orders[c.id][f] => O!Gives(c.op, f) \/ orders[c.id][f] # c.base[f]
        /\ \A f \in {"deposit", "deletedAt"} : orders'[c.id][f] = orders[c.id][f]

\* What holds of the orders and the calls after any step, if a request that has
\* just read an order has read one that is there.
Stays(r) == call'[r] = call[r] \/ call'[r].kind # "order"
StoredWell == orders' \in Seq(O!Order) /\ O!Ids \subseteq O!Ids'

LEMMA OrdersStay ==
  ASSUME O!StoreInv, StoredWell, NEW r \in Requests,
         \A q \in Requests : q # r => Stays(q),
         Stays(r) \/ (/\ call'[r] \in O!Calls /\ call'[r].id \in O!Ids'
                      /\ call'[r].base.deletedAt = "nil")
  PROVE  O!StoreInv'
BY DEF O!StoreInv, O!Is, O!Calls, Stays, StoredWell

LEMMA OthersKeep ==
  ASSUME NEW q \in Requests, call'[q] = call[q] \/ call[q].kind # "order"
  PROVE  Keeps(q)
BY DEF Keeps, O!Is, O!Over

LEMMA OrderReplaced ==
  ASSUME orders \in Seq(O!Order), NEW id \in O!Ids, NEW d \in O!Order,
         orders' = [orders EXCEPT ![id] = d]
  PROVE  /\ StoredWell /\ orders'[id] = d
         /\ O!Ids' = O!Ids
<1>1. id \in 1..Len(orders) /\ DOMAIN orders = 1..Len(orders)
  BY LenProperties DEF O!Ids
<1>2. orders' \in Seq(O!Order) /\ DOMAIN orders' = DOMAIN orders /\ orders'[id] = d
  BY <1>1, ExceptSeq
<1>3. QED
  BY <1>2 DEF StoredWell, O!Ids

\* What a step of a request does with its call for an order.
OrderSteps(r) ==
  /\ call[r].kind \notin {"import", "account"} /\ call'[r].kind \notin {"import", "account"}
  /\ DOMAIN call' = Requests /\ "kind" \in DOMAIN call'[r]
  /\ \A q \in Requests : q # r => call'[q] = call[q]

LEMMA OrdersStep ==
  ASSUME CallOK, O!StoreInv, NEW r \in Requests, O!Step(r)
  PROVE  OrderSteps(r) /\ O!StoreInv' /\ Keeps(r)
<1>1. orders \in Seq(O!Order) /\ Len(orders) \in Nat /\ O!Ids = 1..Len(orders)
  BY LenProperties DEF O!StoreInv, O!Ids
<1>2. ASSUME NEW amount \in {0, 1}, O!CreateOrder(r, amount)
      PROVE  OrderSteps(r) /\ O!StoreInv' /\ Keeps(r)
  <2>1. call[r].kind = "idle" /\ call'[r] = [kind |-> "over"] /\ DOMAIN call' = Requests
        /\ \A q \in Requests : q # r => call'[q] = call[q]
    BY <1>2 DEF CallOK, O!CreateOrder, O!Continue, O!Is, O!Over
  <2>2. StoredWell
    <3>1. CASE UNCHANGED orders
      BY <1>1, <3>1 DEF StoredWell, O!Ids
    <3>2. CASE orders' = Append(orders, O!NewOrder(amount))
      <4>1. O!NewOrder(amount) \in O!Order
        BY DEF O!NewOrder, O!Order, O!AllStatuses
      <4>2. orders' \in Seq(O!Order) /\ Len(orders') = Len(orders) + 1
        BY <1>1, <3>2, <4>1, AppendProperties
      <4>3. QED
        BY <1>1, <4>2, LenProperties DEF StoredWell, O!Ids
    <3>3. QED
      BY <1>2, <3>1, <3>2 DEF O!CreateOrder
  <2>3. O!StoreInv'
    BY <2>1, <2>2, OrdersStay DEF Stays
  <2>4. QED
    BY <2>1, <2>3, OthersKeep DEF OrderSteps
<1>3. ASSUME NEW id \in O!Ids, NEW op \in Ops, O!Read(r, id, op)
      PROVE  OrderSteps(r) /\ O!StoreInv' /\ Keeps(r)
  <2> DEFINE c == [kind |-> "order", id |-> id, op |-> op, base |-> orders[id]]
  <2>1. call[r].kind = "idle" /\ call'[r] = c /\ DOMAIN call' = Requests /\ orders' = orders
        /\ orders[id].deletedAt = "nil" /\ \A q \in Requests : q # r => call'[q] = call[q]
    BY <1>3 DEF CallOK, O!Read, O!Continue, O!Is
  <2>2. orders[id] \in O!Order
    BY <1>1, ElementOfSeq
  <2>3. c \in O!Calls /\ c.id \in O!Ids /\ c.base.deletedAt = "nil"
        /\ c.kind = "order" /\ "kind" \in DOMAIN c
    BY <1>1, <2>1, <2>2 DEF O!Calls
  <2> HIDE DEF c
  <2>4. StoredWell
    BY <1>1, <2>1 DEF StoredWell, O!Ids
  <2>5. O!Ids' = O!Ids
    BY <2>1 DEF O!Ids
  <2>6. O!StoreInv'
    BY <2>1, <2>3, <2>4, <2>5, OrdersStay DEF Stays
  <2>7. QED
    BY <2>1, <2>3, <2>6, OthersKeep DEF OrderSteps
<1>4. CASE O!Write(r)
  <2> DEFINE c == call[r]
             new == O!SetOrder(orders[c.id], O!Changed(c.base, c.op))
  <2>1. c.kind = "order" /\ call'[r] = [kind |-> "over"] /\ DOMAIN call' = Requests
        /\ (orders' = orders \/ orders' = [orders EXCEPT ![c.id] = new])
        /\ \A q \in Requests : q # r => call'[q] = call[q]
    BY <1>4 DEF CallOK, O!Write, O!Continue, O!Is, O!Over
  <2>2. c \in O!Calls /\ c.id \in O!Ids /\ c.base.deletedAt = "nil"
    BY <2>1 DEF O!StoreInv, O!Is
  <2>3. c.base \in O!Order /\ c.op \in Ops /\ orders[c.id] \in O!Order
    BY <1>1, <2>2, ElementOfSeq DEF O!Calls
  <2>4. /\ new \in O!Order /\ new.deposit = orders[c.id].deposit
        /\ new.deletedAt = orders[c.id].deletedAt
        /\ \A f \in {"status", "amount", "stamped"} :
             new[f] # orders[c.id][f] => O!Gives(c.op, f) \/ orders[c.id][f] # c.base[f]
    <3> DEFINE doc == orders[c.id]
               base == c.base
               op == c.op
    <3>1. doc \in O!Order /\ base \in O!Order /\ base.deletedAt = "nil" /\ op \in Ops
      BY <2>2, <2>3
    <3>2. new = O!SetOrder(doc, O!Changed(base, op))
      OBVIOUS
    <3> HIDE DEF doc, base, op, new
    <3>3. /\ new \in O!Order /\ new.deposit = doc.deposit
          /\ new.deletedAt = doc.deletedAt
          /\ \A f \in {"status", "amount", "stamped"} :
               new[f] # doc[f] => O!Gives(op, f) \/ doc[f] # base[f]
      BY <3>1, <3>2, OrderSet
    <3>4. QED
      BY <3>3 DEF doc, base, op
  <2> HIDE DEF new
  <2>5. CASE orders' = orders
    <3>1. StoredWell /\ Keeps(r)
      BY <1>1, <2>5 DEF StoredWell, Keeps, O!Ids
    <3>2. QED
      BY <2>1, <3>1, OrdersStay DEF OrderSteps, Stays
  <2>6. CASE orders' = [orders EXCEPT ![c.id] = new]
    <3>1. StoredWell /\ orders'[c.id] = new
      BY <1>1, <2>2, <2>4, <2>6, OrderReplaced
    <3>2. new["deposit"] = orders[c.id]["deposit"] /\ new["deletedAt"] = orders[c.id]["deletedAt"]
      BY <2>4
    <3>3. Keeps(r)
      BY <2>4, <3>1, <3>2 DEF Keeps
    <3>4. QED
      BY <2>1, <3>1, <3>3, OrdersStay DEF OrderSteps, Stays
  <2>7. QED
    BY <2>1, <2>5, <2>6
<1>5. QED
  BY <1>2, <1>3, <1>4 DEF O!Step

LEMMA OtherPrograms ==
  ASSUME O!StoreInv, O!Others
  PROVE  O!StoreInv' /\ UNCHANGED call
<1>1. PICK id \in O!Ids :
        O!RecordDeposit(id) \/ O!ServerDeletes(id) \/ \E s \in O!AllStatuses : O!ServerMoves(id, s)
  BY DEF O!Others
<1>2. orders \in Seq(O!Order) /\ orders[id] \in O!Order
  BY ElementOfSeq, LenProperties DEF O!StoreInv, O!Ids
<1>3. UNCHANGED call /\ \E d \in O!Order : orders' = [orders EXCEPT ![id] = d]
  <2>1. CASE O!RecordDeposit(id)
    <3>1. PICK b \in {0, 1} : orders' = [orders EXCEPT ![id].status = "DEPOSIT_CONFIRMING",
                                                       ![id].amount = b, ![id].deposit = TRUE]
      BY <2>1 DEF O!RecordDeposit
    <3> DEFINE d == [orders[id] EXCEPT !.status = "DEPOSIT_CONFIRMING", !.amount = b, !.deposit = TRUE]
    <3>2. d \in O!Order
      BY <1>2 DEF O!Order, O!AllStatuses
    <3>3. orders' = [orders EXCEPT ![id] = d]
      BY <3>1
    <3>4. QED
      BY <2>1, <3>2, <3>3 DEF O!RecordDeposit
  <2>2. CASE O!ServerDeletes(id)
    <3> DEFINE d == [orders[id] EXCEPT !.deletedAt = "time"]
    <3>1. d \in O!Order
      BY <1>2 DEF O!Order
    <3>2. QED
      BY <2>2, <3>1 DEF O!ServerDeletes
  <2>3. ASSUME NEW s \in O!AllStatuses, O!ServerMoves(id, s)
        PROVE  UNCHANGED call /\ \E d \in O!Order : orders' = [orders EXCEPT ![id] = d]
    <3> DEFINE d == [orders[id] EXCEPT !.status = s, !.stamped = @ \cup {s}]
    <3>1. d \in O!Order
      BY <1>2 DEF O!Order
    <3>2. orders' = [orders EXCEPT ![id] = d]
      BY <2>3 DEF O!ServerMoves
    <3>3. QED
      BY <2>3, <3>1, <3>2 DEF O!ServerMoves
  <2>4. QED
    BY <1>1, <2>1, <2>2, <2>3
<1>4. StoredWell /\ O!Ids' = O!Ids
  BY <1>2, <1>3, OrderReplaced
<1>5. O!StoreInv'
  BY <1>3, <1>4 DEF O!StoreInv, O!Is, O!Calls, StoredWell
<1>6. QED
  BY <1>3, <1>5

\* The list of currencies is changed: an import sees its mark.
LEMMA CurrenciesChange ==
  ASSUME CallOK, A!AccountsInv, A!Others
  PROVE  /\ CallOK' /\ UNCHANGED accounts
         /\ \A q \in Requests : /\ A!ImportInv(q)' /\ A!WriteInv(q)'
                                /\ call'[q] = call[q] \/ (call[q].kind # "order" /\ call'[q].kind # "order")
<1>1. UNCHANGED accounts
  BY DEF A!Others, A!AddCurrency, A!WithdrawCurrency
<1>2. Shape /\ \A q \in Requests : A!ImportInv(q) /\ A!WriteInv(q)
  BY DEF A!AccountsInv, Shape
<1>3. Grows /\ A!Ids' = A!Ids
  BY <1>1, <1>2, AccountsSame DEF A!Ids
<1>4. DOMAIN call' = Requests
      /\ \A q \in Requests : \/ call'[q] = call[q]
                             \/ A!Is(q, "import") /\ call'[q] = [call[q] EXCEPT !.moved = TRUE]
  BY DEF CallOK, A!Others, A!AddCurrency, A!WithdrawCurrency
<1>5. ASSUME NEW q \in Requests
      PROVE  /\ A!ImportInv(q)' /\ A!WriteInv(q)' /\ "kind" \in DOMAIN call'[q]
             /\ call'[q] = call[q] \/ (call[q].kind # "order" /\ call'[q].kind # "order")
  <2>1. CASE call'[q] = call[q]
    BY <1>2, <1>3, <2>1, OthersKnow DEF CallOK
  <2>2. CASE A!Is(q, "import") /\ call'[q] = [call[q] EXCEPT !.moved = TRUE]
    BY <1>1, <1>2, <2>2, MarkedKnow DEF A!Is
  <2>3. QED
    BY <1>4, <2>1, <2>2
<1>6. QED
  BY <1>1, <1>4, <1>5 DEF CallOK
-----------------------------------------------------------------------------
LEMMA InitInv == ASSUME Init PROVE UseCasesInv
<1>1. CallOK
  BY DEF Init, A!Init, A!Idle, CallOK
<1>2. \A r \in Requests : call[r].kind = "idle"
  BY DEF Init, A!Init, A!Idle
<1>3. Shape /\ A!DuplicatesOverlap
  <2>1. CASE accounts = <<>>
    BY <2>1 DEF Shape, A!Ids, A!DuplicatesOverlap
  <2>2. ASSUME NEW a \in Addresses, NEW c \in Currencies,
               accounts = <<[addr |-> a, cur |-> c, deleted |-> FALSE, by |-> None, mark |-> 0]>>
        PROVE  Shape /\ A!DuplicatesOverlap
    <3> DEFINE d == [addr |-> a, cur |-> c, deleted |-> FALSE, by |-> None, mark |-> 0]
    <3>1. DOMAIN d = A!Keys \cup {"deleted"} /\ d.mark \in Nat
      BY DEF A!Keys
    <3> HIDE DEF d
    <3>2. accounts = <<d>>
      BY <2>2 DEF d
    <3>3. accounts \in Seq({d}) /\ DOMAIN accounts = {1} /\ accounts[1] = d
      BY <3>2
    <3>4. accounts \in Seq({accounts[i] : i \in DOMAIN accounts})
      BY <3>3, SeqOfItsElements
    <3>5. QED
      BY <3>1, <3>3, <3>4 DEF Shape, A!Ids, A!DuplicatesOverlap
  <2>3. QED
    BY <2>1, <2>2 DEF Init, A!Init
<1>4. A!AccountsInv
  BY <1>2, <1>3 DEF A!AccountsInv, Shape, A!ImportInv, A!WriteInv, A!Is
<1>5. orders \in Seq(O!Order)
  <2> DEFINE d == [O!NewOrder(1) EXCEPT !.status = "PENDING"]
  <2>1. d \in O!Order
    BY DEF O!NewOrder, O!Order, O!AllStatuses
  <2>2. orders = <<>> \/ orders = <<d>>
    BY DEF Init, O!Init
  <2> HIDE DEF d
  <2>3. <<d>> \in Seq(O!Order) /\ <<>> \in Seq(O!Order)
    BY <2>1
  <2>4. QED
    BY <2>2, <2>3
<1>6. O!StoreInv
  BY <1>2, <1>5 DEF O!StoreInv, O!Is
<1>7. QED
  BY <1>1, <1>4, <1>6 DEF UseCasesInv

LEMMA StepInv ==
  ASSUME UseCasesInv, [Next]_vars
  PROVE  /\ UseCasesInv' /\ Grows
         /\ \A q \in Requests : Keeps(q)
<1> USE DEF UseCasesInv
<1>1. Shape /\ A!DuplicatesOverlap /\ \A q \in Requests : A!ImportInv(q) /\ A!WriteInv(q)
  BY DEF A!AccountsInv, Shape
<1>2. ASSUME Shape', A!DuplicatesOverlap', \A q \in Requests : A!ImportInv(q)' /\ A!WriteInv(q)'
      PROVE  A!AccountsInv'
  BY <1>2 DEF A!AccountsInv, Shape
<1>3. ASSUME NEW r \in Requests, A!Step(r), UNCHANGED orders
      PROVE  UseCasesInv' /\ Grows /\ \A q \in Requests : Keeps(q)
  <2>1. /\ Steps(r) /\ Shape' /\ Grows /\ A!DuplicatesOverlap'
        /\ \A i \in A!Ids' \ A!Ids : accounts'[i].by = r
    BY <1>3, AccountsStep
  <2>2. \A q \in Requests : A!ImportInv(q)' /\ A!WriteInv(q)'
    BY <1>1, <2>1, OthersKnow DEF Steps
  <2>3. StoredWell
    BY <1>3 DEF StoredWell, O!Ids, O!StoreInv
  <2>4. O!StoreInv'
    BY <2>1, <2>3, OrdersStay DEF Steps, Stays
  <2>5. \A q \in Requests : Keeps(q)
    BY <2>1, OthersKeep DEF Steps
  <2>6. CallOK'
    BY <2>1 DEF CallOK, Steps
  <2>7. A!AccountsInv'
    BY <1>2, <2>1, <2>2
  <2>8. QED
    BY <2>1, <2>4, <2>5, <2>6, <2>7
<1>4. ASSUME NEW r \in Requests, O!Step(r), UNCHANGED accounts
      PROVE  UseCasesInv' /\ Grows /\ \A q \in Requests : Keeps(q)
  <2>1. OrderSteps(r) /\ O!StoreInv' /\ Keeps(r)
    BY <1>4, OrdersStep
  <2>2. Shape' /\ Grows /\ A!DuplicatesOverlap' /\ A!Ids' = A!Ids
    BY <1>1, <1>4, AccountsSame DEF A!Ids
  <2>3. A!ImportInv(r)' /\ A!WriteInv(r)'
    BY <2>1 DEF OrderSteps, A!ImportInv, A!WriteInv, A!Is
  <2>4. \A q \in Requests : A!ImportInv(q)' /\ A!WriteInv(q)'
    BY <1>1, <2>1, <2>2, <2>3, OthersKnow DEF OrderSteps
  <2>5. \A q \in Requests : Keeps(q)
    BY <2>1, OthersKeep DEF OrderSteps
  <2>6. CallOK'
    BY <2>1 DEF CallOK, OrderSteps
  <2>7. A!AccountsInv'
    BY <1>2, <2>2, <2>4
  <2>8. QED
    BY <2>1, <2>2, <2>5, <2>6, <2>7
<1>5. CASE A!Others /\ UNCHANGED orders
  <2>1. /\ CallOK' /\ UNCHANGED accounts
        /\ \A q \in Requests : /\ A!ImportInv(q)' /\ A!WriteInv(q)'
                               /\ call'[q] = call[q] \/ (call[q].kind # "order" /\ call'[q].kind # "order")
    BY <1>5, CurrenciesChange
  <2>2. Shape' /\ Grows /\ A!DuplicatesOverlap'
    BY <1>1, <2>1, AccountsSame
  <2>3. A!AccountsInv'
    BY <1>2, <2>1, <2>2
  <2>4. O!StoreInv'
    BY <1>5, <2>1 DEF O!StoreInv, O!Is, O!Ids, O!Calls
  <2>5. QED
    BY <2>1, <2>2, <2>3, <2>4, OthersKeep
<1>6. CASE O!Others /\ UNCHANGED accounts
  <2>1. O!StoreInv' /\ UNCHANGED call
    BY <1>6, OtherPrograms
  <2>2. Shape' /\ Grows /\ A!DuplicatesOverlap' /\ A!Ids' = A!Ids
    BY <1>1, <1>6, AccountsSame DEF A!Ids
  <2>3. CallOK' /\ \A q \in Requests : A!ImportInv(q)' /\ A!WriteInv(q)'
    BY <1>1, <2>1, <2>2, OthersKnow DEF CallOK
  <2>4. QED
    BY <1>2, <2>1, <2>2, <2>3, OthersKeep
<1>7. CASE UNCHANGED vars
  <2>1. UNCHANGED <<accounts, orders, call>>
    BY <1>7 DEF vars
  <2>2. Shape' /\ Grows /\ A!DuplicatesOverlap' /\ A!Ids' = A!Ids
    BY <1>1, <2>1, AccountsSame DEF A!Ids
  <2>3. CallOK' /\ \A q \in Requests : A!ImportInv(q)' /\ A!WriteInv(q)'
    BY <1>1, <2>1, <2>2, OthersKnow DEF CallOK
  <2>4. O!StoreInv'
    BY <2>1 DEF O!StoreInv, O!Is, O!Ids, O!Calls
  <2>5. QED
    BY <1>2, <2>1, <2>2, <2>3, <2>4, OthersKeep
<1>8. QED
  BY <1>3, <1>4, <1>5, <1>6, <1>7 DEF Next, Others, Step

LEMMA Invariance == Spec => []UseCasesInv
<1>1. UseCasesInv /\ [Next]_vars => UseCasesInv'
  BY StepInv
<1>2. QED
  BY <1>1, InitInv, PTL DEF Spec

\* However many requests import, refresh and delete accounts, two living
\* accounts with one address and currency come from two overlapping imports.
THEOREM DuplicatesOnlyFromOverlap == Spec => []DuplicatesOverlap
<1>1. UseCasesInv => DuplicatesOverlap
  BY DEF UseCasesInv, A!AccountsInv, DuplicatesOverlap
<1>2. QED
  BY <1>1, Invariance, PTL

\* No request revives a deleted account, whenever it has read it.
THEOREM DeletedAccountsStay == Spec => AccountsStayDeleted
<1>1. UseCasesInv /\ [Next]_vars => [\A i \in A!Ids : accounts[i].deleted => accounts'[i].deleted]_(A!vars)
  BY StepInv DEF Grows
<1>2. QED
  BY <1>1, Invariance, PTL DEF Spec, AccountsStayDeleted, A!AccountsStayDeleted

\* A write of an order changes what its caller gave, or what another has
\* changed since it was read, and never the deposit or the mark of deletion.
THEOREM WritesKeepTheRest == Spec => OnlyGivenFieldsChange
<1>1. UseCasesInv /\ [Next]_vars =>
        [\A r \in Requests : O!Is(r, "order") /\ call'[r] = O!Over =>
           LET c == call[r]
           IN  /\ \A f \in {"status", "amount", "stamped"} :
                    orders'[c.id][f] # orders[c.id][f] => O!Gives(c.op, f) \/ orders[c.id][f] # c.base[f]
               /\ \A f \in {"deposit", "deletedAt"} : orders'[c.id][f] = orders[c.id][f]]_(O!vars)
  BY StepInv DEF Keeps
<1>2. QED
  BY <1>1, Invariance, PTL DEF Spec, OnlyGivenFieldsChange, O!OnlyGivenFieldsChange
-----------------------------------------------------------------------------
\* The kinds of calls are told apart by their field.
AllCalls == A!Calls \cup O!Calls \cup {A!Idle, A!Over}

LEMMA KindsDiffer ==
  ASSUME NEW c \in AllCalls
  PROVE  /\ c.kind = "import" => c \in A!Import
         /\ c.kind = "report" => c \in A!Report
         /\ c.kind = "account" => c \in A!WriteBack
<1>1. c \in A!Import => c.kind = "import"
  BY DEF A!Import
<1>2. c \in A!Report => c.kind = "report"
  BY DEF A!Report
<1>3. c \in A!WriteBack => c.kind = "account"
  BY DEF A!WriteBack
<1>4. c \in O!Calls => c.kind = "order"
  BY DEF O!Calls
<1>5. c \in {A!Idle, A!Over} => c.kind \in {"idle", "over"}
  BY DEF A!Idle, A!Over
<1>6. QED
  BY <1>1, <1>2, <1>3, <1>4, <1>5 DEF AllCalls, A!Calls

LEMMA GivenOriginals ==
  ASSUME NEW given \in Imports
  PROVE  /\ Len(given) \in Nat /\ DOMAIN given = 1..Len(given)
         /\ \A i \in DOMAIN given :
              given[i].addr \in Addresses /\ given[i].cur \in Currencies \cup {None}
<1>1. given \in Seq(A!Original)
  BY UseCasesAssumption DEF A!AccountsAssumption
<1>2. Len(given) \in Nat /\ DOMAIN given = 1..Len(given)
  BY <1>1, LenProperties
<1>3. \A i \in DOMAIN given : given[i] \in A!Original
  BY <1>1, <1>2, ElementOfSeq
<1>4. QED
  BY <1>2, <1>3 DEF A!Original

\* Every set of numbers has a least one: the intervals below its elements are
\* finite sets, which inclusion orders well.
LEMMA LeastElement ==
  ASSUME NEW S \in SUBSET Nat, S # {}
  PROVE  \E a \in S : \A b \in S : a <= b
<1> DEFINE Below == {0..a : a \in S}
<1>1. Below \subseteq FiniteSubsetsOf(Nat) /\ Below # {}
  <2>1. ASSUME NEW a \in S PROVE 0..a \in FiniteSubsetsOf(Nat)
    <3>1. 0..a \in SUBSET Nat /\ IsFiniteSet(0..a)
      BY FS_Interval
    <3> QED
      BY <3>1 DEF FiniteSubsetsOf
  <2> QED
    BY <2>1
<1>2. PICK u \in Below : \A v \in Below : ~(<<v, u>> \in StrictSubsetOrdering(Nat))
  <2> HIDE DEF Below
  <2> QED
    BY <1>1, FS_StrictSubsetOrderingWellFounded, WFMin
<1>3. PICK a \in S : u = 0..a
  OBVIOUS
<1>4. ASSUME NEW b \in S PROVE a <= b
  <2> SUFFICES ASSUME b < a PROVE FALSE
    OBVIOUS
  <2>1. a \in 0..a /\ a \notin 0..b /\ 0..b \subseteq 0..a /\ 0..a \subseteq Nat
    OBVIOUS
  <2>2. <<0..b, 0..a>> \in StrictSubsetOrdering(Nat)
    BY <2>1 DEF StrictSubsetOrdering
  <2> QED
    BY <1>2, <1>3, <2>2
<1> QED
  BY <1>4

\* An original on the currency's chain lends its address.
LEMMA LenderIsGiven ==
  ASSUME NEW c, c.given \in Imports, NEW cur, A!OnChain(c, cur) # {}
  PROVE  A!Lender(c, cur).addr \in Addresses
<1> DEFINE S == A!OnChain(c, cur)
           first == CHOOSE i \in S : \A j \in S : i <= j
<1>1. S \subseteq DOMAIN c.given
  BY DEF A!OnChain
<1>2. S \in SUBSET Nat
  BY <1>1, GivenOriginals
<1>3. S # {}
  OBVIOUS
<1>4. A!Lender(c, cur) = c.given[first]
  BY DEF A!Lender
<1> HIDE DEF S
<1>5. first \in S
  BY <1>2, <1>3, LeastElement
<1>6. QED
  BY <1>1, <1>4, <1>5, GivenOriginals

\* What the moves of an import do to it.
LEMMA NextOriginalMoves ==
  ASSUME NEW c \in A!Import
  PROVE  LET d == A!NextOriginal(c)
         IN  /\ d \in A!Import /\ d.at = "original" /\ d.pos = c.pos + 1
             /\ d.given = c.given /\ d.todo = c.todo /\ d.read = c.read /\ d.ids = c.ids
             /\ d.offered = c.offered /\ d.missed = c.missed /\ d.moved = c.moved
<1> DEFINE d == A!NextOriginal(c)
           n == c.pos + 1
           place == "original"
<1>1. n \in Nat /\ place \in {"original", "create", "batch", "currency", "insert"}
  BY DEF A!Import
<1>2. d = [c EXCEPT !.at = place, !.pos = n]
  BY DEF A!NextOriginal
<1> HIDE DEF d, n, place
<1>3. d \in A!Import
  BY <1>1, <1>2 DEF A!Import
<1>4. /\ d.at = place /\ d.pos = n
      /\ d.given = c.given /\ d.todo = c.todo /\ d.read = c.read /\ d.ids = c.ids
      /\ d.offered = c.offered /\ d.missed = c.missed /\ d.moved = c.moved
  BY <1>2 DEF A!Import
<1>5. QED
  BY <1>3, <1>4 DEF d, n, place

LEMMA NextCurrencyMoves ==
  ASSUME NEW c \in A!Import, c.todo # <<>>
  PROVE  LET d == A!NextCurrency(c)
         IN  /\ d \in A!Import /\ d.at \in {"batch", "currency"} /\ d.pos = c.pos
             /\ d.at = "currency" <=> d.todo # <<>>
             /\ \A i \in DOMAIN c.todo : c.todo[i] = Head(c.todo) \/ \E j \in DOMAIN d.todo : d.todo[j] = c.todo[i]
             /\ d.given = c.given /\ d.read = c.read /\ d.ids = c.ids
             /\ d.offered = c.offered /\ d.missed = c.missed /\ d.moved = c.moved
<1> DEFINE s == c.todo
           t == Tail(s)
           d == A!NextCurrency(c)
<1>1. s \in Seq(Currencies) /\ s # <<>>
  BY DEF A!Import
<1>2. Len(s) \in Nat \ {0} /\ DOMAIN s = 1..Len(s)
  BY <1>1, LenProperties, EmptySeq
<1>3. /\ t \in Seq(Currencies) /\ Len(t) = Len(s) - 1 /\ DOMAIN t = 1..Len(t)
      /\ \A i \in 1..Len(t) : t[i] = s[i + 1]
  BY <1>1, <1>2, HeadTailProperties, LenProperties
<1>4. Len(s) = 1 <=> t = <<>>
  <2> HIDE DEF s, t
  <2>1. t = <<>> <=> Len(t) = 0
    BY <1>3, EmptySeq
  <2>2. QED
    BY <1>2, <1>3, <2>1
<1>5. Head(s) = s[1]
  BY <1>1
<1>6. \A i \in DOMAIN s : s[i] = Head(s) \/ \E j \in DOMAIN t : t[j] = s[i]
  <2> SUFFICES ASSUME NEW i \in 1..Len(s), i # 1 PROVE \E j \in DOMAIN t : t[j] = s[i]
    BY <1>2, <1>5
  <2>1. i - 1 \in 1..Len(t) /\ (i - 1) + 1 = i
    BY <1>2, <1>3
  <2>2. t[i - 1] = s[i]
    BY <1>3, <2>1
  <2>3. QED
    BY <1>3, <2>1, <2>2
<1>7. /\ d \in A!Import /\ d.at = (IF Len(s) = 1 THEN "batch" ELSE "currency") /\ d.pos = c.pos /\ d.todo = t
      /\ d.given = c.given /\ d.read = c.read /\ d.ids = c.ids
      /\ d.offered = c.offered /\ d.missed = c.missed /\ d.moved = c.moved
  <2> HIDE DEF t
  <2>1. t \in Seq(Currencies) /\ d = [c EXCEPT !.todo = t, !.at = IF Len(s) = 1 THEN "batch" ELSE "currency"]
    BY <1>3 DEF A!NextCurrency, t
  <2>2. QED
    BY <2>1 DEF A!Import
<1> HIDE DEF t, d
<1>8. QED
  BY <1>4, <1>6, <1>7 DEF d
-----------------------------------------------------------------------------
\* The parts of what is kept of a request.
Complete(r) ==
  A!Succeeded(r) =>
    /\ \A i \in call[r].ids : accounts[i].by = r
    /\ \A i \in A!Ids \ call[r].ids : accounts[i].by = r => accounts[i].cur \in call[r].missed
    /\ call[r].moved \/ \A cur \in call[r].offered \ call[r].missed :
          A!OnChain(call[r], cur) # {} => A!Has(cur)

Kept(r) == Complete(r) /\ A!MadeInv(r) /\ A!ProgressInv(r)

LEMMA PartsOfImportsInv ==
  /\ ImportsInv => /\ UseCasesInv /\ A!CollectionOK /\ O!CollectionOK
                   /\ call \in [Requests -> AllCalls]
                   /\ \A r \in Requests : Kept(r)
  /\ UseCasesInv /\ A!CollectionOK /\ O!CollectionOK /\ call \in [Requests -> AllCalls]
     /\ (\A r \in Requests : Kept(r)) => ImportsInv
BY DEF ImportsInv, TypeOK, AllCalls, A!SuccessInv, A!SuccessIsComplete, Kept, Complete

\* The currencies an import is still to come to are those it was to come to.
StillComing == \A c \in A!Import, cur \in Currencies : A!Coming(c, cur) => A!Coming(c, cur)'

LEMMA HasStays == ASSUME Grows, NEW cur, A!Has(cur) PROVE A!Has(cur)'
BY DEF Grows, A!Has, A!Keys

\* While a request does nothing, what others do leaves it what it has.
LEMMA OthersStay ==
  ASSUME Grows, NEW q \in Requests, call[q] \in AllCalls, Kept(q), call'[q] = call[q],
         \A i \in A!Ids' \ A!Ids : accounts'[i].by # q,
         A!Is(q, "import") => StillComing
  PROVE  Kept(q)'
<1> DEFINE c == call[q]
<1>1. A!Ids \subseteq A!Ids' /\ \A i \in A!Ids : accounts'[i].by = accounts[i].by /\ accounts'[i].cur = accounts[i].cur
  BY DEF Grows, A!Keys
<1>2. A!MadeInv(q)'
  BY <1>1 DEF A!MadeInv, A!Is, A!Succeeded, Kept
<1>3. Complete(q)'
  <2> SUFFICES ASSUME A!Succeeded(q)
               PROVE  /\ \A i \in c.ids : accounts'[i].by = q
                      /\ \A i \in A!Ids' \ c.ids : accounts'[i].by = q => accounts'[i].cur \in c.missed
                      /\ c.moved \/ \A cur \in c.offered \ c.missed : A!OnChain(c, cur) # {} => A!Has(cur)'
    BY DEF Complete, A!Succeeded, A!Is, A!OnChain
  <2>1. /\ \A i \in c.ids : accounts'[i].by = q
        /\ \A i \in A!Ids' \ c.ids : accounts'[i].by = q => accounts'[i].cur \in c.missed
    BY <1>1 DEF Kept, A!MadeInv
  <2>2. c.moved \/ \A cur \in c.offered \ c.missed : A!OnChain(c, cur) # {} => A!Has(cur)'
    BY HasStays DEF Kept, Complete
  <2>3. QED
    BY <2>1, <2>2
<1>4. A!ProgressInv(q)'
  <2> SUFFICES ASSUME A!Is(q, "import") PROVE A!PlaceInv(c) /\ A!PassedInv(c)' /\ A!OfferedInv(c)'
    BY DEF A!ProgressInv, A!Is, A!PlaceInv, A!PassedInv, A!OfferedInv, A!Settled, A!Coming, A!OnChain,
           A!PassedOver, A!Added
  <2>1. A!PlaceInv(c) /\ A!PassedInv(c) /\ A!OfferedInv(c)
    BY DEF Kept, A!ProgressInv
  <2>2. c \in A!Import /\ c.offered \subseteq Currencies
    BY KindsDiffer DEF A!Is, A!Import
  <2>3. A!PassedInv(c)'
    BY <2>1, HasStays DEF A!PassedInv
  <2>4. A!OfferedInv(c)'
    BY <2>1, <2>2, HasStays DEF A!OfferedInv, A!Settled, StillComing, A!OnChain
  <2>5. QED
    BY <2>1, <2>3, <2>4
<1>5. QED
  BY <1>2, <1>3, <1>4 DEF Kept

\* What a move of an import from c to d must keep.
Moves(c, d) ==
  /\ d \in A!Import /\ A!PlaceInv(d)
  /\ d.given = c.given /\ d.offered = c.offered /\ d.moved = c.moved
  /\ c.ids \subseteq d.ids /\ c.missed \subseteq d.missed
  /\ d.ids \ c.ids \subseteq A!Ids' \ A!Ids
  /\ \A i \in A!Ids' \ A!Ids : i \notin d.ids => accounts'[i].cur \in d.missed
  /\ \A i \in 1..d.pos - 1 : i \notin 1..c.pos - 1 => c.given[i].cur = None \/ A!Has(c.given[i].cur)'
  /\ \A cur \in c.offered : A!Coming(c, cur) => A!Coming(d, cur)' \/ A!Settled(d, cur)'

LEMMA ImportMoves ==
  ASSUME Grows, NEW r \in Requests, call \in [Requests -> AllCalls], Kept(r), A!Is(r, "import"),
         \A i \in A!Ids' \ A!Ids : accounts'[i].by = r,
         NEW c, NEW d, c = call[r], A!Continue(r, d), Moves(c, d)
  PROVE  call' \in [Requests -> AllCalls] /\ Kept(r)'
<1>1. A!Ids \subseteq A!Ids' /\ \A i \in A!Ids : accounts'[i].by = accounts[i].by /\ accounts'[i].cur = accounts[i].cur
  BY DEF Grows, A!Keys
<1>2. d \in A!Import /\ d \in AllCalls /\ d.kind = "import"
  BY DEF Moves, AllCalls, A!Calls, A!Import
<1>3. call' \in [Requests -> AllCalls] /\ call'[r] = d
  BY <1>2 DEF A!Continue
<1>4. Complete(r)'
  BY <1>2, <1>3 DEF Complete, A!Succeeded, A!Is
<1>5. A!MadeInv(r)'
  <2> SUFFICES /\ \A i \in d.ids : i \in A!Ids' /\ accounts'[i].by = r
               /\ \A i \in A!Ids' \ d.ids : accounts'[i].by = r => accounts'[i].cur \in d.missed
    BY <1>2, <1>3 DEF A!MadeInv, A!Is
  <2>1. /\ \A i \in c.ids : i \in A!Ids /\ accounts[i].by = r
        /\ \A i \in A!Ids \ c.ids : accounts[i].by = r => accounts[i].cur \in c.missed
    BY DEF Kept, A!MadeInv
  <2>2. QED
    BY <1>1, <2>1 DEF Moves
<1>6. A!ProgressInv(r)'
  <2> SUFFICES A!PlaceInv(d) /\ A!PassedInv(d)' /\ A!OfferedInv(d)'
    BY <1>3 DEF A!ProgressInv, A!Is, A!PlaceInv, A!PassedInv, A!OfferedInv, A!Settled, A!Coming, A!OnChain,
                A!PassedOver, A!Added
  <2>1. A!PassedInv(c) /\ A!OfferedInv(c)
    BY DEF Kept, A!ProgressInv
  <2>2. A!PassedInv(d)'
    <3> SUFFICES ASSUME NEW i \in 1..d.pos - 1
                 PROVE  d.given[i].cur = None \/ A!Has(d.given[i].cur)'
      BY DEF A!PassedInv
    <3>1. d.given = c.given
      BY DEF Moves
    <3>2. CASE i \in 1..c.pos - 1
      <4>1. c.given[i].cur = None \/ A!Has(c.given[i].cur)
        BY <2>1, <3>2 DEF A!PassedInv
      <4>2. QED
        BY <3>1, <4>1, HasStays
    <3>3. CASE i \notin 1..c.pos - 1
      BY <3>1, <3>3 DEF Moves
    <3>4. QED
      BY <3>2, <3>3
  <2>3. A!OfferedInv(d)'
    <3> SUFFICES ASSUME ~d.moved, NEW cur \in d.offered PROVE A!Settled(d, cur)' \/ A!Coming(d, cur)'
      BY DEF A!OfferedInv
    <3>1. A!Settled(c, cur) \/ A!Coming(c, cur)
      BY <2>1 DEF A!OfferedInv, Moves
    <3>2. A!Settled(c, cur) => A!Settled(d, cur)'
      BY HasStays DEF A!Settled, Moves, A!OnChain
    <3>3. QED
      BY <3>1, <3>2 DEF Moves
  <2>4. QED
    BY <2>2, <2>3 DEF Moves
<1>7. QED
  BY <1>3, <1>4, <1>5, <1>6 DEF Kept
-----------------------------------------------------------------------------
\* The other changes of an import.
Marked(c, place, n) == [c EXCEPT !.at = place, !.mark = n]

LEMMA MarkMoves ==
  ASSUME NEW c \in A!Import, NEW place \in {"create", "insert"}, NEW n \in Nat, NEW d,
         d = Marked(c, place, n)
  PROVE  /\ d \in A!Import /\ d.at = place /\ d.pos = c.pos
         /\ d.given = c.given /\ d.todo = c.todo /\ d.read = c.read /\ d.ids = c.ids
         /\ d.offered = c.offered /\ d.missed = c.missed /\ d.moved = c.moved
<1>1. d \in A!Import
  BY DEF A!Import, Marked
<1>2. QED
  BY <1>1 DEF A!Import, Marked

LEMMA GrownMoves ==
  ASSUME NEW c \in A!Import, NEW n \in Nat
  PROVE  LET d == [c EXCEPT !.ids = @ \cup {n}]
         IN  /\ d \in A!Import /\ d.at = c.at /\ d.pos = c.pos /\ d.ids = c.ids \cup {n}
             /\ d.given = c.given /\ d.todo = c.todo /\ d.read = c.read
             /\ d.offered = c.offered /\ d.missed = c.missed /\ d.moved = c.moved
BY DEF A!Import

LEMMA GivenUpMoves ==
  ASSUME NEW c \in A!Import, NEW cur \in Currencies
  PROVE  LET d == [c EXCEPT !.missed = @ \cup {cur}]
         IN  /\ d \in A!Import /\ d.at = c.at /\ d.pos = c.pos /\ d.ids = c.ids
             /\ d.given = c.given /\ d.todo = c.todo /\ d.read = c.read
             /\ d.offered = c.offered /\ d.missed = c.missed \cup {cur} /\ d.moved = c.moved
BY DEF A!Import

Batched(c, s, n) == [c EXCEPT !.at = "currency", !.todo = s, !.read = n]

LEMMA BatchMoves ==
  ASSUME NEW c \in A!Import, NEW s \in Seq(Currencies), NEW n \in Nat, NEW d,
         d = Batched(c, s, n)
  PROVE  /\ d \in A!Import /\ d.at = "currency" /\ d.pos = c.pos /\ d.ids = c.ids
         /\ d.given = c.given /\ d.todo = s /\ d.read = n
         /\ d.offered = c.offered /\ d.missed = c.missed /\ d.moved = c.moved
<1> DEFINE place == "currency"
<1>1. place \in {"original", "create", "batch", "currency", "insert"}
      /\ d = [c EXCEPT !.at = place, !.todo = s, !.read = n]
  BY DEF Batched
<1> HIDE DEF place
<1>2. d \in A!Import
  BY <1>1 DEF A!Import
<1>3. /\ d.at = place /\ d.pos = c.pos /\ d.ids = c.ids
      /\ d.given = c.given /\ d.todo = s /\ d.read = n
      /\ d.offered = c.offered /\ d.missed = c.missed /\ d.moved = c.moved
  BY <1>1 DEF A!Import
<1>4. QED
  BY <1>2, <1>3 DEF place

\* A currency that is settled leaves the batch.
LEMMA NextCurrencyKeeps ==
  ASSUME NEW r \in Requests, NEW c \in A!Import, NEW b \in A!Import,
         A!PlaceInv(c), c.at \in {"currency", "insert"}, UNCHANGED listed,
         b.given = c.given, b.todo = c.todo, b.pos = c.pos, b.read = c.read,
         b.offered = c.offered, b.moved = c.moved,
         c.ids \subseteq b.ids, c.missed \subseteq b.missed,
         b.ids \ c.ids \subseteq A!Ids' \ A!Ids,
         \A i \in A!Ids' \ A!Ids : i \notin b.ids => accounts'[i].cur \in b.missed,
         A!Settled(b, Head(c.todo))'
  PROVE  Moves(c, A!NextCurrency(b))
<1>1. PICK d : d = A!NextCurrency(b)
  OBVIOUS
<1>2. c.todo # <<>> /\ c.pos = Len(c.given) + 1 /\ c.pos \in 1..Len(c.given) + 1
  BY DEF A!PlaceInv
<1>3. /\ d \in A!Import /\ d.at \in {"batch", "currency"} /\ d.pos = b.pos
      /\ d.at = "currency" <=> d.todo # <<>>
      /\ \A i \in DOMAIN b.todo : b.todo[i] = Head(b.todo) \/ \E j \in DOMAIN d.todo : d.todo[j] = b.todo[i]
      /\ d.given = b.given /\ d.read = b.read /\ d.ids = b.ids
      /\ d.offered = b.offered /\ d.missed = b.missed /\ d.moved = b.moved
  BY <1>1, <1>2, NextCurrencyMoves
<1>4. A!PlaceInv(d)
  BY <1>2, <1>3 DEF A!PlaceInv
<1>5. ASSUME NEW cur \in c.offered, A!Coming(c, cur) PROVE A!Coming(d, cur)' \/ A!Settled(d, cur)'
  <2>1. CASE \E i \in DOMAIN listed : i > c.read /\ listed[i] = cur
    BY <1>3, <2>1 DEF A!Coming
  <2>2. CASE \E i \in DOMAIN c.todo : c.todo[i] = cur
    <3>1. cur = Head(c.todo) \/ \E j \in DOMAIN d.todo : d.todo[j] = cur
      BY <1>3, <2>2
    <3>2. CASE cur = Head(c.todo)
      BY <1>3, <3>2 DEF A!Settled, A!OnChain
    <3>3. CASE \E j \in DOMAIN d.todo : d.todo[j] = cur
      BY <3>3 DEF A!Coming
    <3>4. QED
      BY <3>1, <3>2, <3>3
  <2>3. QED
    BY <1>5, <2>1, <2>2 DEF A!Coming
<1>6. Moves(c, d)
  BY <1>3, <1>4, <1>5 DEF Moves
<1>7. QED
  BY <1>1, <1>6
-----------------------------------------------------------------------------
\* A request that is no import after its step, nor has reported success.
LEMMA Ended ==
  ASSUME NEW r \in Requests, call \in [Requests -> AllCalls], NEW d \in AllCalls, A!Continue(r, d),
         d.kind \in {"account", "order", "over"} \/ (d.kind = "report" /\ (d.status = "error" \/ d.panicked))
  PROVE  call' \in [Requests -> AllCalls] /\ Kept(r)'
<1>1. call' \in [Requests -> AllCalls] /\ call'[r] = d
  BY DEF A!Continue
<1>2. ~A!Succeeded(r)' /\ ~A!Is(r, "import")' /\ ~A!Is(r, "idle")'
  BY <1>1 DEF A!Succeeded, A!Is
<1>3. QED
  BY <1>1, <1>2 DEF Kept, Complete, A!MadeInv, A!ProgressInv

\* A report of an error, or after a panic.
LEMMA Reported ==
  ASSUME NEW r \in Requests, call \in [Requests -> AllCalls], A!Is(r, "import"),
         A!Fails(r) \/ A!Reports(r, "success", {}, TRUE)
  PROVE  call' \in [Requests -> AllCalls] /\ Kept(r)'
<1>1. call[r] \in A!Import
  BY KindsDiffer DEF A!Is
<1>2. CASE A!Fails(r)
  <2> DEFINE d == [kind |-> "report", status |-> "error", panicked |-> FALSE,
                   given |-> call[r].given, ids |-> {}, offered |-> call[r].offered,
                   missed |-> call[r].missed, moved |-> call[r].moved]
  <2>1. d \in A!Report
    BY <1>1 DEF A!Report, A!Import
  <2>2. d.kind = "report" /\ d.status = "error"
    OBVIOUS
  <2>3. A!Continue(r, d) /\ d \in AllCalls
    BY <1>2, <2>1 DEF A!Fails, A!Reports, AllCalls, A!Calls
  <2> HIDE DEF d
  <2>4. QED
    BY <2>2, <2>3, Ended
<1>3. CASE A!Reports(r, "success", {}, TRUE)
  <2> DEFINE d == [kind |-> "report", status |-> "success", panicked |-> TRUE,
                   given |-> call[r].given, ids |-> {}, offered |-> call[r].offered,
                   missed |-> call[r].missed, moved |-> call[r].moved]
  <2>1. d \in A!Report
    BY <1>1 DEF A!Report, A!Import
  <2>2. d.kind = "report" /\ d.panicked
    OBVIOUS
  <2>3. A!Continue(r, d) /\ d \in AllCalls
    BY <1>3, <2>1 DEF A!Reports, AllCalls, A!Calls
  <2> HIDE DEF d
  <2>4. QED
    BY <2>2, <2>3, Ended
<1>4. QED
  BY <1>2, <1>3

\* The list of currencies has been read to its end.
LEMMA ReadToTheEnd ==
  ASSUME NEW r \in Requests, call \in [Requests -> AllCalls], A!Is(r, "import"), Kept(r),
         UNCHANGED accounts, call[r].todo = <<>>,
         \A i \in DOMAIN listed : ~(i > call[r].read),
         A!Reports(r, "success", call[r].ids, FALSE)
  PROVE  call' \in [Requests -> AllCalls] /\ Kept(r)'
<1>1. PICK c : c = call[r]
  OBVIOUS
<1>2. c \in A!Import /\ call[r].ids \in SUBSET Nat
  BY <1>1, KindsDiffer DEF A!Is, A!Import
<1>3. PICK d \in A!Report :
           /\ A!Continue(r, d) /\ d \in AllCalls
           /\ d.kind = "report" /\ d.ids = c.ids /\ d.given = c.given /\ d.offered = c.offered
           /\ d.missed = c.missed /\ d.moved = c.moved
  <2> DEFINE d == [kind |-> "report", status |-> "success", panicked |-> FALSE,
                   given |-> c.given, ids |-> c.ids, offered |-> c.offered,
                   missed |-> c.missed, moved |-> c.moved]
  <2>1. d \in A!Report
    BY <1>2 DEF A!Report, A!Import
  <2>2. A!Continue(r, d) /\ d \in AllCalls
    BY <1>1, <2>1 DEF A!Reports, AllCalls, A!Calls
  <2>3. /\ d.kind = "report" /\ d.ids = c.ids /\ d.given = c.given /\ d.offered = c.offered
        /\ d.missed = c.missed /\ d.moved = c.moved
    OBVIOUS
  <2> HIDE DEF d
  <2>4. QED
    BY <2>1, <2>2, <2>3
<1>4. call' \in [Requests -> AllCalls] /\ call'[r] = d
  BY <1>3 DEF A!Continue
<1>5. /\ \A i \in c.ids : i \in A!Ids /\ accounts[i].by = r
      /\ \A i \in A!Ids \ c.ids : accounts[i].by = r => accounts[i].cur \in c.missed
  BY <1>1 DEF Kept, A!MadeInv
<1>6. c.moved \/ \A cur \in c.offered \ c.missed : A!OnChain(c, cur) # {} => A!Has(cur)
  <2>1. A!OfferedInv(c)
    BY <1>1 DEF Kept, A!ProgressInv
  <2>2. \A cur : ~A!Coming(c, cur)
    BY <1>1 DEF A!Coming
  <2>3. QED
    BY <2>1, <2>2 DEF A!OfferedInv, A!Settled
<1>7. \A cur : (A!Has(cur) => A!Has(cur)') /\ A!OnChain(d, cur) = A!OnChain(c, cur)
  BY <1>3 DEF A!Has, A!Ids, A!OnChain
<1>8. Complete(r)'
  <2> SUFFICES /\ \A i \in d.ids : accounts'[i].by = r
               /\ \A i \in A!Ids' \ d.ids : accounts'[i].by = r => accounts'[i].cur \in d.missed
               /\ d.moved \/ \A cur \in d.offered \ d.missed : A!OnChain(d, cur) # {} => A!Has(cur)'
    BY <1>4 DEF Complete, A!OnChain
  <2>1. /\ \A i \in d.ids : accounts'[i].by = r
        /\ \A i \in A!Ids' \ d.ids : accounts'[i].by = r => accounts'[i].cur \in d.missed
    BY <1>3, <1>5 DEF A!Ids
  <2>2. d.moved \/ \A cur \in d.offered \ d.missed : A!OnChain(d, cur) # {} => A!Has(cur)'
    BY <1>3, <1>6, <1>7
  <2>3. QED
    BY <2>1, <2>2
<1>9. A!MadeInv(r)'
  BY <1>3, <1>4, <1>5 DEF A!MadeInv, A!Is, A!Ids
<1>10. A!ProgressInv(r)'
  BY <1>3, <1>4 DEF A!ProgressInv, A!Is
<1>11. QED
  BY <1>4, <1>8, <1>9, <1>10 DEF Kept

\* What the collections are made of, and the list of currencies.
LEMMA ListedWell ==
  ASSUME A!CollectionOK
  PROVE  /\ Len(listed) \in Nat /\ DOMAIN listed = 1..Len(listed)
         /\ \A i \in DOMAIN listed : listed[i] \in Currencies
         /\ Len(accounts) \in Nat /\ A!Ids = 1..Len(accounts)
         /\ \A i \in A!Ids : accounts[i] \in A!Account
BY LenProperties, ElementOfSeq DEF A!CollectionOK, A!Ids

LEMMA ImportStarts ==
  ASSUME ImportsInv, NEW r \in Requests, NEW given \in Imports, A!StartImport(r, given)
  PROVE  call' \in [Requests -> AllCalls] /\ Kept(r)'
<1>1. call \in [Requests -> AllCalls] /\ Kept(r) /\ A!CollectionOK
  BY PartsOfImportsInv
<1> DEFINE offered == A!Listed
           d == [kind |-> "import", given |-> given, at |-> "original", pos |-> 1, todo |-> <<>>,
                 read |-> 0, ids |-> {}, mark |-> 0, offered |-> offered, missed |-> {},
                 moved |-> FALSE]
<1>2. A!Is(r, "idle") /\ given # <<>> /\ A!Continue(r, d) /\ accounts' = accounts /\ listed' = listed
  BY DEF A!StartImport
<1>3. offered \subseteq Currencies
  BY <1>1, ListedWell DEF A!Listed
<1>4. d \in A!Import
  <2>1. <<>> \in Seq(Currencies)
    OBVIOUS
  <2> HIDE DEF offered
  <2>2. QED
    BY <1>3, <2>1 DEF A!Import
<1>5. call' \in [Requests -> AllCalls] /\ call'[r] = d
  BY <1>1, <1>2, <1>4 DEF A!Continue, AllCalls, A!Calls
<1>6. PICK e : e = d
  OBVIOUS
<1>7. /\ e.kind = "import" /\ e.at = "original" /\ e.pos = 1 /\ e.todo = <<>> /\ e.read = 0 /\ e.ids = {}
      /\ e.offered = A!Listed /\ e.given = given /\ call'[r] = e
  BY <1>5, <1>6
<1> HIDE DEF d
<1>8. Complete(r)'
  BY <1>7 DEF Complete, A!Succeeded, A!Is
<1>9. A!MadeInv(r)'
  BY <1>1, <1>2, <1>7 DEF A!MadeInv, A!Is, Kept, A!Ids
<1>10. A!ProgressInv(r)'
  <2> SUFFICES A!PlaceInv(e) /\ A!PassedInv(e)' /\ A!OfferedInv(e)'
    BY <1>7 DEF A!ProgressInv, A!Is, A!PlaceInv, A!PassedInv, A!OfferedInv, A!Settled, A!Coming, A!OnChain,
                A!PassedOver, A!Added
  <2>1. A!PlaceInv(e)
    BY <1>7, GivenOriginals DEF A!PlaceInv
  <2>2. A!PassedInv(e)'
    BY <1>7 DEF A!PassedInv
  <2>3. \A cur \in e.offered : \E i \in DOMAIN listed : i > 0 /\ listed[i] = cur
    BY <1>1, <1>7, ListedWell DEF A!Listed
  <2>4. A!OfferedInv(e)'
    BY <1>2, <1>7, <2>3 DEF A!OfferedInv, A!Coming
  <2>5. QED
    BY <2>1, <2>2, <2>4
<1>11. QED
  BY <1>5, <1>8, <1>9, <1>10 DEF Kept
-----------------------------------------------------------------------------
\* A new document is an account, the last one.
LEMMA NewAccountTyped ==
  ASSUME A!CollectionOK, NEW r \in Requests, NEW addr \in Addresses, NEW cur \in Currencies \cup {None},
         call[r].mark \in Nat, A!Create(r, addr, cur), UNCHANGED <<listed, moves>>
  PROVE  /\ A!CollectionOK' /\ Len(accounts) + 1 \in Nat
         /\ A!Ids' \ A!Ids = {Len(accounts) + 1} /\ accounts'[Len(accounts) + 1].cur = cur
<1> DEFINE d == [addr |-> addr, cur |-> cur, deleted |-> FALSE, by |-> r, mark |-> call[r].mark]
           n == Len(accounts) + 1
<1>1. accounts' = Append(accounts, d) /\ Len(accounts) < MaxAccounts
  BY DEF A!Create, A!NewAccount
<1>2. d \in A!Account /\ d.cur = cur
  BY DEF A!Account
<1> HIDE DEF d
<1>3. accounts \in Seq(A!Account) /\ Len(accounts) \in Nat /\ A!Ids = 1..Len(accounts)
  BY ListedWell DEF A!CollectionOK
<1>4. accounts' \in Seq(A!Account) /\ Len(accounts') = n /\ accounts'[n] = d
  BY <1>1, <1>2, <1>3, AppendProperties
<1>5. A!Ids' = 1..n
  BY <1>4, LenProperties DEF A!Ids
<1>6. MaxAccounts \in Nat
  BY UseCasesAssumption DEF A!AccountsAssumption
<1>7. n \in Nat /\ n <= MaxAccounts /\ (1..n) \ (1..Len(accounts)) = {n}
  BY <1>1, <1>3, <1>6
<1>8. A!CollectionOK'
  BY <1>4, <1>7 DEF A!CollectionOK
<1>9. QED
  BY <1>2, <1>3, <1>4, <1>5, <1>7, <1>8

\* What a step leaves if it leaves the accounts.
LEMMA CollectionStays ==
  ASSUME A!CollectionOK, UNCHANGED <<accounts, listed, moves>>
  PROVE  A!CollectionOK' /\ A!Ids' = A!Ids
BY DEF A!CollectionOK, A!Ids

\* A step of a request makes its own accounts only.
Mine(r) == Grows /\ \A i \in A!Ids' \ A!Ids : accounts'[i].by = r

Result(r) == A!CollectionOK' /\ call' \in [Requests -> AllCalls] /\ Kept(r)'

LEMMA OriginalChecked ==
  ASSUME ImportsInv, NEW r \in Requests, Mine(r), A!CheckOriginal(r)
  PROVE  Result(r)
<1>1. call \in [Requests -> AllCalls] /\ Kept(r) /\ A!CollectionOK
  BY PartsOfImportsInv
<1>2. PICK c : c = call[r]
  OBVIOUS
<1>3. PICK n : n = Len(accounts)
  OBVIOUS
<1> DEFINE o == c.given[c.pos]
           e == A!NextOriginal(c)
           d == Marked(c, "create", n)
<1>4. /\ A!Is(r, "import") /\ c.at = "original" /\ c.pos <= Len(c.given)
      /\ UNCHANGED <<accounts, listed, moves>>
      /\ A!Continue(r, IF A!Exists(o.addr, o.cur) THEN e ELSE d)
  BY <1>2, <1>3 DEF A!CheckOriginal, A!At, Marked
<1>5. c \in A!Import /\ A!PlaceInv(c) /\ c.given \in Imports
  BY <1>1, <1>2, <1>4, KindsDiffer DEF A!Is, A!Import, Kept, A!ProgressInv
<1>6. A!CollectionOK' /\ A!Ids' = A!Ids /\ n \in Nat
  BY <1>1, <1>3, <1>4, CollectionStays, ListedWell
<1>7. \A x, cur : x.todo = c.todo /\ x.read = c.read /\ A!Coming(c, cur) => A!Coming(x, cur)'
  BY <1>4 DEF A!Coming
<1>8. CASE A!Exists(o.addr, o.cur)
  <2>1. PICK x : x = e
    OBVIOUS
  <2>2. /\ x \in A!Import /\ x.at = "original" /\ x.pos = c.pos + 1
        /\ x.given = c.given /\ x.todo = c.todo /\ x.read = c.read /\ x.ids = c.ids
        /\ x.offered = c.offered /\ x.missed = c.missed /\ x.moved = c.moved
    BY <1>5, <2>1, NextOriginalMoves
  <2>3. A!Has(o.cur)'
    BY <1>4, <1>8 DEF A!Exists, A!Has, A!Ids
  <2>4. c.pos \in Nat /\ c.pos >= 1 /\ Len(c.given) \in Nat
    BY <1>5, GivenOriginals DEF A!PlaceInv
  <2>5. \A i \in 1..x.pos - 1 : i \notin 1..c.pos - 1 => i = c.pos
    BY <2>2, <2>4
  <2>6. A!PlaceInv(x)
    <3>1. x.pos \in 1..Len(x.given) + 1
      BY <1>4, <2>2, <2>4
    <3>2. x.todo = <<>>
      BY <1>4, <1>5, <2>2 DEF A!PlaceInv
    <3>3. QED
      BY <2>2, <3>1, <3>2 DEF A!PlaceInv
  <2>7. Moves(c, x)
    BY <1>6, <1>7, <2>2, <2>3, <2>5, <2>6 DEF Moves
  <2>8. A!Continue(r, x)
    BY <1>4, <1>8, <2>1
  <2>9. QED
    BY <1>1, <1>2, <1>4, <1>6, <2>7, <2>8, ImportMoves DEF Mine, Result
<1>9. CASE ~A!Exists(o.addr, o.cur)
  <2>1. PICK x : x = d
    OBVIOUS
  <2>2. /\ x \in A!Import /\ x.at = "create" /\ x.pos = c.pos
        /\ x.given = c.given /\ x.todo = c.todo /\ x.read = c.read /\ x.ids = c.ids
        /\ x.offered = c.offered /\ x.missed = c.missed /\ x.moved = c.moved
    BY <1>5, <1>6, <2>1, MarkMoves
  <2>3. A!PlaceInv(x)
    BY <1>4, <1>5, <2>2 DEF A!PlaceInv
  <2>4. Moves(c, x)
    BY <1>6, <1>7, <2>2, <2>3 DEF Moves
  <2>5. A!Continue(r, x)
    BY <1>4, <1>9, <2>1
  <2>6. QED
    BY <1>1, <1>2, <1>4, <1>6, <2>4, <2>5, ImportMoves DEF Mine, Result
<1>10. QED
  BY <1>8, <1>9

LEMMA OriginalCreated ==
  ASSUME ImportsInv, NEW r \in Requests, Mine(r), A!CreateOriginal(r)
  PROVE  Result(r)
<1>1. call \in [Requests -> AllCalls] /\ Kept(r) /\ A!CollectionOK
  BY PartsOfImportsInv
<1>2. PICK c : c = call[r]
  OBVIOUS
<1>3. PICK n : n = Len(accounts) + 1
  OBVIOUS
<1> DEFINE o == c.given[c.pos]
           b == [c EXCEPT !.ids = @ \cup {n}]
<1>4. /\ A!Is(r, "import") /\ c.at = "create" /\ UNCHANGED <<listed, moves>>
      /\ A!Create(r, o.addr, o.cur)
      /\ A!Continue(r, A!NextOriginal(b)) \/ A!Fails(r)
  BY <1>2, <1>3 DEF A!CreateOriginal, A!At
<1>5. c \in A!Import /\ A!PlaceInv(c) /\ c.given \in Imports /\ call[r].mark \in Nat
  BY <1>1, <1>2, <1>4, KindsDiffer DEF A!Is, A!Import, Kept, A!ProgressInv
<1>6. c.pos \in Nat /\ c.pos >= 1 /\ c.pos <= Len(c.given) /\ Len(c.given) \in Nat /\ c.pos \in DOMAIN c.given
  BY <1>4, <1>5, GivenOriginals DEF A!PlaceInv
<1>7. o.addr \in Addresses /\ o.cur \in Currencies \cup {None}
  BY <1>5, <1>6, GivenOriginals
<1>8. A!CollectionOK' /\ n \in Nat /\ A!Ids' \ A!Ids = {n} /\ accounts'[n].cur = o.cur
  <2> HIDE DEF o
  <2>1. QED
    BY <1>1, <1>3, <1>4, <1>5, <1>7, NewAccountTyped
<1>9. CASE A!Fails(r)
  BY <1>1, <1>4, <1>8, <1>9, Reported DEF Result
<1>10. CASE A!Continue(r, A!NextOriginal(b))
  <2>1. PICK x : x = A!NextOriginal(b)
    OBVIOUS
  <2>2. /\ b \in A!Import /\ b.pos = c.pos /\ b.ids = c.ids \cup {n}
        /\ b.given = c.given /\ b.todo = c.todo /\ b.read = c.read
        /\ b.offered = c.offered /\ b.missed = c.missed /\ b.moved = c.moved
    BY <1>5, <1>8, GrownMoves
  <2> HIDE DEF b
  <2>3. /\ x \in A!Import /\ x.at = "original" /\ x.pos = c.pos + 1 /\ x.ids = c.ids \cup {n}
        /\ x.given = c.given /\ x.todo = c.todo /\ x.read = c.read
        /\ x.offered = c.offered /\ x.missed = c.missed /\ x.moved = c.moved
    BY <2>1, <2>2, NextOriginalMoves
  <2>4. A!Has(o.cur)'
    BY <1>8 DEF A!Has
  <2>5. \A i \in 1..x.pos - 1 : i \notin 1..c.pos - 1 => i = c.pos
    BY <1>6, <2>3
  <2>6. A!PlaceInv(x)
    <3>1. x.pos \in 1..Len(x.given) + 1
      BY <1>6, <2>3
    <3>2. x.todo = <<>>
      BY <1>4, <1>5, <2>3 DEF A!PlaceInv
    <3>3. QED
      BY <2>3, <3>1, <3>2 DEF A!PlaceInv
  <2>7. \A cur : A!Coming(c, cur) => A!Coming(x, cur)'
    BY <1>4, <2>3 DEF A!Coming
  <2>8. Moves(c, x)
    BY <1>8, <2>3, <2>4, <2>5, <2>6, <2>7 DEF Moves
  <2>9. QED
    BY <1>1, <1>2, <1>4, <1>8, <1>10, <2>1, <2>8, ImportMoves DEF Mine, Result
<1>11. QED
  BY <1>4, <1>9, <1>10
\* A batch is what follows the currencies read so far: nothing only at the end.
LEMMA BatchOfListed ==
  ASSUME A!CollectionOK, NEW c \in A!Import, NEW s, s = A!NextBatch(c)
  PROVE  /\ s \in Seq(Currencies) /\ c.read + Len(s) \in Nat
         /\ s = <<>> => \A i \in DOMAIN listed : ~(i > c.read)
         /\ \A i \in DOMAIN listed :
              i > c.read => i > c.read + Len(s) \/ \E j \in DOMAIN s : s[j] = listed[i]
<1>1. PICK n, L, u : n = c.read /\ L = Len(listed) /\ u = IF L < n + Batch THEN L ELSE n + Batch
  OBVIOUS
<1>2. n \in Nat /\ L \in Nat /\ Batch \in Nat \ {0}
  BY <1>1, ListedWell, UseCasesAssumption DEF A!Import, A!AccountsAssumption
<1>3. DOMAIN listed = 1..L /\ \A i \in 1..L : listed[i] \in Currencies
  BY <1>1, ListedWell
<1>4. s = SubSeq(listed, n + 1, u)
  BY <1>1 DEF A!NextBatch, A!Upto
<1>5. u \in Nat /\ n + 1 \in Int /\ u <= L
  BY <1>1, <1>2
<1>6. CASE L <= n
  <2>1. u < n + 1
    BY <1>1, <1>2, <1>6
  <2>2. s = <<>>
    BY <1>4, <1>5, <2>1, SubSeqEmpty
  <2>3. s \in Seq(Currencies) /\ Len(s) = 0
    BY <2>2, EmptySeq
  <2>4. \A i \in DOMAIN listed : ~(i > n)
    BY <1>2, <1>3, <1>6
  <2>5. QED
    BY <1>1, <1>2, <2>3, <2>4
<1>7. CASE ~(L <= n)
  <2>1. u > n /\ (u < L => u = n + Batch)
    BY <1>1, <1>2, <1>7
  <2>2. \A i \in n + 1..u : listed[i] \in Currencies
    BY <1>2, <1>3, <1>5
  <2>3. /\ s \in Seq(Currencies) /\ Len(s) = u - n
        /\ \A j \in 1..u - n : s[j] = listed[n + j]
    <3>1. /\ s \in Seq(Currencies)
          /\ Len(s) = IF n + 1 <= u THEN u - (n + 1) + 1 ELSE 0
          /\ \A j \in 1..u - (n + 1) + 1 : s[j] = listed[(n + 1) + j - 1]
      BY <1>4, <1>5, <2>2, SubSeqProperties
    <3>2. n + 1 <= u /\ u - (n + 1) + 1 = u - n /\ \A j \in 1..u - n : (n + 1) + j - 1 = n + j
      BY <1>2, <1>5, <2>1
    <3>3. QED
      BY <3>1, <3>2
  <2>4. DOMAIN s = 1..u - n
    BY <2>3, LenProperties
  <2>5. s # <<>> /\ n + Len(s) = u
    BY <1>2, <1>5, <2>1, <2>3, EmptySeq
  <2>6. ASSUME NEW i \in DOMAIN listed, i > n PROVE i > u \/ \E j \in DOMAIN s : s[j] = listed[i]
    <3> SUFFICES ASSUME ~(i > u) PROVE \E j \in DOMAIN s : s[j] = listed[i]
      OBVIOUS
    <3>1. i - n \in 1..u - n /\ n + (i - n) = i
      BY <1>2, <1>3, <1>5, <2>6
    <3>2. s[i - n] = listed[i]
      BY <2>3, <3>1
    <3>3. QED
      BY <2>4, <3>1, <3>2
  <2>7. QED
    BY <1>1, <1>5, <2>3, <2>5, <2>6
<1>8. QED
  BY <1>6, <1>7

LEMMA BatchFetched ==
  ASSUME ImportsInv, NEW r \in Requests, Mine(r), A!FetchBatch(r)
  PROVE  Result(r)
<1>1. call \in [Requests -> AllCalls] /\ Kept(r) /\ A!CollectionOK
  BY PartsOfImportsInv
<1>2. PICK c : c = call[r]
  OBVIOUS
<1>3. PICK s : s = A!NextBatch(c)
  OBVIOUS
<1>4. PICK n : n = c.read + Len(s)
  OBVIOUS
<1> DEFINE d == Batched(c, s, n)
<1>5. /\ A!Is(r, "import") /\ UNCHANGED <<accounts, listed, moves>>
      /\ c.at = "batch" \/ (c.at = "original" /\ c.pos > Len(c.given))
      /\ IF s = <<>> THEN A!Reports(r, "success", call[r].ids, FALSE) ELSE A!Continue(r, d)
  BY <1>2, <1>3, <1>4 DEF A!FetchBatch, A!At, Batched
<1>6. c \in A!Import /\ A!PlaceInv(c) /\ c.given \in Imports
  BY <1>1, <1>2, <1>5, KindsDiffer DEF A!Is, A!Import, Kept, A!ProgressInv
<1>7. A!CollectionOK' /\ A!Ids' = A!Ids
  BY <1>1, <1>5, CollectionStays
<1>8. c.todo = <<>>
  BY <1>5, <1>6 DEF A!PlaceInv
<1>9. /\ s \in Seq(Currencies) /\ n \in Nat
      /\ s = <<>> => \A i \in DOMAIN listed : ~(i > c.read)
      /\ \A i \in DOMAIN listed : i > c.read => i > n \/ \E j \in DOMAIN s : s[j] = listed[i]
  BY <1>1, <1>3, <1>4, <1>6, BatchOfListed
<1>10. CASE s = <<>>
  BY <1>1, <1>2, <1>5, <1>7, <1>8, <1>9, <1>10, ReadToTheEnd DEF Result
<1>11. CASE s # <<>>
  <2>1. PICK x : x = d
    OBVIOUS
  <2>2. /\ x \in A!Import /\ x.at = "currency" /\ x.pos = c.pos /\ x.ids = c.ids
        /\ x.given = c.given /\ x.todo = s /\ x.read = n
        /\ x.offered = c.offered /\ x.missed = c.missed /\ x.moved = c.moved
    <3>1. s \in Seq(Currencies) /\ n \in Nat
      BY <1>9
    <3>2. QED
      BY <1>6, <2>1, <3>1, BatchMoves
  <2>3. A!PlaceInv(x)
    <3>1. c.pos = Len(c.given) + 1
      BY <1>5, <1>6, GivenOriginals DEF A!PlaceInv
    <3>2. x.pos \in 1..Len(x.given) + 1
      BY <1>6, <2>2 DEF A!PlaceInv
    <3>3. QED
      BY <1>11, <2>2, <3>1, <3>2 DEF A!PlaceInv
  <2>4. ASSUME NEW cur, A!Coming(c, cur) PROVE A!Coming(x, cur)'
    <3>1. DOMAIN c.todo = {}
      BY <1>8
    <3>2. PICK i \in DOMAIN listed : i > c.read /\ listed[i] = cur
      BY <2>4, <3>1 DEF A!Coming
    <3>3. i > n \/ \E j \in DOMAIN s : s[j] = cur
      BY <1>9, <3>2
    <3>4. QED
      BY <1>5, <2>2, <3>2, <3>3 DEF A!Coming
  <2>5. Moves(c, x)
    BY <1>7, <2>2, <2>3, <2>4 DEF Moves
  <2>6. A!Continue(r, x)
    BY <1>5, <1>11, <2>1
  <2>7. QED
    BY <1>1, <1>2, <1>5, <1>7, <2>5, <2>6, ImportMoves DEF Mine, Result
<1>12. QED
  BY <1>10, <1>11
\* The next currency of the batch, of which PlaceInv says there is one.
LEMMA HeadOfBatch ==
  ASSUME NEW c \in A!Import, A!PlaceInv(c), c.at \in {"currency", "insert"}
  PROVE  c.todo # <<>> /\ Head(c.todo) \in Currencies
<1>1. c.todo # <<>> /\ c.todo \in Seq(Currencies)
  BY DEF A!PlaceInv, A!Import
<1>2. QED
  BY <1>1, HeadTailProperties

\* An import passes a currency, or gives up on it.
LEMMA CurrencyPassed ==
  ASSUME NEW r \in Requests, NEW c \in A!Import, A!PlaceInv(c), c.at \in {"currency", "insert"},
         UNCHANGED listed, A!Ids' = A!Ids, A!Settled(c, Head(c.todo))'
  PROVE  Moves(c, A!NextCurrency(c))
BY NextCurrencyKeeps

LEMMA CurrencyGivenUp ==
  ASSUME NEW r \in Requests, NEW c \in A!Import, A!PlaceInv(c), c.at \in {"currency", "insert"},
         UNCHANGED listed,
         \A i \in A!Ids' \ A!Ids : accounts'[i].cur = Head(c.todo)
  PROVE  Moves(c, A!GiveUp(c))
<1>1. PICK cur : cur = Head(c.todo)
  OBVIOUS
<1> DEFINE d == [c EXCEPT !.missed = @ \cup {cur}]
<1>2. PICK b : b = d
  OBVIOUS
<1>3. cur \in Currencies
  BY <1>1, HeadOfBatch
<1>4. /\ b \in A!Import /\ b.at = c.at /\ b.pos = c.pos /\ b.ids = c.ids
      /\ b.given = c.given /\ b.todo = c.todo /\ b.read = c.read
      /\ b.offered = c.offered /\ b.missed = c.missed \cup {cur} /\ b.moved = c.moved
  BY <1>2, <1>3, GivenUpMoves
<1>5. A!GiveUp(c) = A!NextCurrency(b)
  BY <1>1, <1>2 DEF A!GiveUp
<1>6. A!Settled(b, Head(c.todo))'
  BY <1>1, <1>4 DEF A!Settled
<1>7. QED
  BY <1>1, <1>4, <1>5, <1>6, NextCurrencyKeeps

\* A currency is passed over if no original is on its chain, or if the
\* originals have it: then there is an account with it.
LEMMA PassedOverIsSettled ==
  ASSUME NEW c \in A!Import, A!PlaceInv(c), c.at = "currency", A!PassedInv(c),
         NEW cur \in Currencies, A!PassedOver(c, cur)
  PROVE  A!Settled(c, cur)
<1>1. CASE A!OnChain(c, cur) = {}
  BY <1>1 DEF A!Settled
<1>2. CASE A!Added(c, cur)
  <2>1. PICK i \in DOMAIN c.given : c.given[i].cur = cur
    BY <1>2 DEF A!Added
  <2>2. c.given \in Imports
    BY DEF A!Import
  <2>3. i \in 1..c.pos - 1
    BY <2>1, <2>2, GivenOriginals DEF A!PlaceInv
  <2>4. cur # None
    BY UseCasesAssumption DEF A!AccountsAssumption
  <2>5. A!Has(cur)
    BY <2>1, <2>3, <2>4 DEF A!PassedInv
  <2>6. QED
    BY <2>5 DEF A!Settled
<1>3. QED
  BY <1>1, <1>2 DEF A!PassedOver

LEMMA CurrencyChecked ==
  ASSUME ImportsInv, NEW r \in Requests, Mine(r), A!CheckCurrency(r)
  PROVE  Result(r)
<1>1. call \in [Requests -> AllCalls] /\ Kept(r) /\ A!CollectionOK
  BY PartsOfImportsInv
<1>2. PICK c, n : c = call[r] /\ n = Len(accounts)
  OBVIOUS
<1>3. PICK cur : cur = Head(c.todo)
  OBVIOUS
<1> DEFINE d == Marked(c, "insert", n)
<1>4. /\ A!Is(r, "import") /\ c.at = "currency" /\ UNCHANGED <<accounts, listed, moves>>
      /\ \/ A!PassedOver(c, cur) /\ A!Continue(r, A!NextCurrency(c))
         \/ /\ ~A!PassedOver(c, cur) /\ A!Exists(A!Lender(c, cur).addr, cur)
            /\ A!Continue(r, A!NextCurrency(c))
         \/ ~A!PassedOver(c, cur) /\ A!Continue(r, d)
         \/ A!Continue(r, A!GiveUp(c))
  BY <1>2, <1>3 DEF A!CheckCurrency, A!At, Marked
<1>5. c \in A!Import /\ A!PlaceInv(c) /\ A!PassedInv(c)
  BY <1>1, <1>2, <1>4, KindsDiffer DEF A!Is, Kept, A!ProgressInv
<1>6. A!CollectionOK' /\ A!Ids' = A!Ids /\ n \in Nat
  BY <1>1, <1>2, <1>4, CollectionStays, ListedWell
<1>7. cur \in Currencies
  BY <1>3, <1>4, <1>5, HeadOfBatch
<1>8. ASSUME NEW x, Moves(c, x), A!Continue(r, x) PROVE Result(r)
  BY <1>1, <1>2, <1>4, <1>6, <1>8, ImportMoves DEF Mine, Result
<1>9. A!Settled(c, cur) => A!Settled(c, cur)'
  BY HasStays DEF A!Settled, A!OnChain, Mine
<1>10. CASE A!PassedOver(c, cur) /\ A!Continue(r, A!NextCurrency(c))
  <2>1. A!Settled(c, Head(c.todo))'
    BY <1>3, <1>4, <1>5, <1>7, <1>9, <1>10, PassedOverIsSettled
  <2>2. Moves(c, A!NextCurrency(c))
    BY <1>4, <1>5, <1>6, <2>1, CurrencyPassed
  <2>3. QED
    BY <1>8, <1>10, <2>2
<1>11. CASE A!Exists(A!Lender(c, cur).addr, cur) /\ A!Continue(r, A!NextCurrency(c))
  <2>1. A!Settled(c, Head(c.todo))'
    BY <1>3, <1>9, <1>11 DEF A!Exists, A!Settled, A!Has
  <2>2. Moves(c, A!NextCurrency(c))
    BY <1>4, <1>5, <1>6, <2>1, CurrencyPassed
  <2>3. QED
    BY <1>8, <1>11, <2>2
<1>12. CASE ~A!PassedOver(c, cur) /\ A!Continue(r, d)
  <2>1. PICK x : x = d
    OBVIOUS
  <2>2. /\ x \in A!Import /\ x.at = "insert" /\ x.pos = c.pos
        /\ x.given = c.given /\ x.todo = c.todo /\ x.read = c.read /\ x.ids = c.ids
        /\ x.offered = c.offered /\ x.missed = c.missed /\ x.moved = c.moved
    BY <1>5, <1>6, <2>1, MarkMoves
  <2>3. A!PlaceInv(x)
    <3>1. ~A!PassedOver(x, Head(x.todo))
      BY <1>3, <1>12, <2>2 DEF A!PassedOver, A!Added, A!OnChain
    <3>2. QED
      BY <1>4, <1>5, <2>2, <3>1 DEF A!PlaceInv
  <2>4. \A k : A!Coming(c, k) => A!Coming(x, k)'
    BY <1>4, <2>2 DEF A!Coming
  <2>5. Moves(c, x)
    BY <1>6, <2>2, <2>3, <2>4 DEF Moves
  <2>6. A!Continue(r, x)
    BY <1>12, <2>1
  <2>7. QED
    BY <1>8, <2>5, <2>6
<1>13. CASE A!Continue(r, A!GiveUp(c))
  <2>1. Moves(c, A!GiveUp(c))
    BY <1>4, <1>5, <1>6, CurrencyGivenUp
  <2>2. QED
    BY <1>8, <1>13, <2>1
<1>14. QED
  BY <1>4, <1>10, <1>11, <1>12, <1>13

LEMMA CurrencyCreated ==
  ASSUME ImportsInv, NEW r \in Requests, Mine(r), A!CreateCurrency(r)
  PROVE  Result(r)
<1>1. call \in [Requests -> AllCalls] /\ Kept(r) /\ A!CollectionOK
  BY PartsOfImportsInv
<1>2. PICK c, n : c = call[r] /\ n = Len(accounts) + 1
  OBVIOUS
<1>3. PICK cur, addr : cur = Head(c.todo) /\ addr = A!Lender(c, cur).addr
  OBVIOUS
<1> DEFINE b == [c EXCEPT !.ids = @ \cup {n}]
<1>4. /\ A!Is(r, "import") /\ c.at = "insert" /\ UNCHANGED <<listed, moves>>
      /\ \/ A!Create(r, addr, cur) /\ A!Continue(r, A!NextCurrency(b))
         \/ A!Create(r, addr, cur) /\ A!Continue(r, A!GiveUp(c))
         \/ UNCHANGED accounts /\ A!Continue(r, A!GiveUp(c))
  BY <1>2, <1>3 DEF A!CreateCurrency, A!At
<1>5. c \in A!Import /\ A!PlaceInv(c) /\ c.given \in Imports /\ call[r].mark \in Nat
  BY <1>1, <1>2, <1>4, KindsDiffer DEF A!Is, A!Import, Kept, A!ProgressInv
<1>6. cur \in Currencies /\ addr \in Addresses
  <2>1. A!OnChain(c, cur) # {}
    BY <1>3, <1>4, <1>5 DEF A!PlaceInv, A!PassedOver
  <2>2. QED
    BY <1>3, <1>4, <1>5, <2>1, HeadOfBatch, LenderIsGiven
<1>7. A!Create(r, addr, cur) =>
        A!CollectionOK' /\ n \in Nat /\ A!Ids' \ A!Ids = {n} /\ accounts'[n].cur = cur
  BY <1>1, <1>2, <1>4, <1>5, <1>6, NewAccountTyped
<1>8. UNCHANGED accounts => A!CollectionOK' /\ A!Ids' \ A!Ids = {}
  BY <1>1, <1>4, CollectionStays
<1>9. A!CollectionOK'
  BY <1>4, <1>7, <1>8
<1>10. ASSUME NEW x, Moves(c, x), A!Continue(r, x) PROVE Result(r)
  BY <1>1, <1>2, <1>4, <1>9, <1>10, ImportMoves DEF Mine, Result
<1>11. CASE A!Create(r, addr, cur) /\ A!Continue(r, A!NextCurrency(b))
  <2>1. PICK x : x = b
    OBVIOUS
  <2>2. /\ x \in A!Import /\ x.pos = c.pos /\ x.ids = c.ids \cup {n}
        /\ x.given = c.given /\ x.todo = c.todo /\ x.read = c.read
        /\ x.offered = c.offered /\ x.missed = c.missed /\ x.moved = c.moved
    BY <1>5, <1>7, <1>11, <2>1, GrownMoves
  <2> HIDE DEF b
  <2>3. A!Settled(x, Head(c.todo))'
    BY <1>3, <1>7, <1>11 DEF A!Settled, A!Has
  <2>4. Moves(c, A!NextCurrency(x))
    BY <1>4, <1>5, <1>7, <1>11, <2>2, <2>3, NextCurrencyKeeps
  <2>5. QED
    BY <1>10, <1>11, <2>1, <2>4
<1>12. CASE A!Continue(r, A!GiveUp(c))
  <2>1. \A i \in A!Ids' \ A!Ids : accounts'[i].cur = Head(c.todo)
    BY <1>3, <1>4, <1>7, <1>8
  <2>2. Moves(c, A!GiveUp(c))
    BY <1>4, <1>5, <2>1, CurrencyGivenUp
  <2>3. QED
    BY <1>10, <1>12, <2>2
<1>13. QED
  BY <1>4, <1>11, <1>12
LEMMA AccountRead ==
  ASSUME ImportsInv, NEW r \in Requests, NEW id \in A!Ids, A!RefreshBalance(r, id) \/ A!DeleteAccount(r, id)
  PROVE  Result(r)
<1>1. call \in [Requests -> AllCalls] /\ A!CollectionOK
  BY PartsOfImportsInv
<1>2. PICK op \in {"balance", "delete"} : A!ReadAccount(r, id, op)
  BY DEF A!RefreshBalance, A!DeleteAccount
<1> DEFINE d == [kind |-> "account", id |-> id, op |-> op, base |-> accounts[id]]
<1>3. id \in Nat /\ accounts[id] \in A!Account
  BY <1>1, ListedWell
<1>4. d \in A!WriteBack /\ d.kind = "account"
  BY <1>3 DEF A!WriteBack
<1>5. A!Continue(r, d) /\ d \in AllCalls /\ UNCHANGED <<accounts, listed, moves>>
  BY <1>2, <1>4 DEF A!ReadAccount, AllCalls, A!Calls
<1> HIDE DEF d
<1>6. QED
  BY <1>1, <1>4, <1>5, CollectionStays, Ended DEF Result

LEMMA AccountWrittenTyped ==
  ASSUME ImportsInv, NEW r \in Requests, A!WriteAccount(r)
  PROVE  Result(r)
<1>1. call \in [Requests -> AllCalls] /\ A!CollectionOK /\ UseCasesInv
  BY PartsOfImportsInv
<1>2. A!Continue(r, A!Over) /\ A!Over \in AllCalls /\ A!Over.kind = "over"
  BY DEF A!WriteAccount, AllCalls, A!Over
<1>3. call' \in [Requests -> AllCalls] /\ Kept(r)'
  <2> DEFINE d == A!Over
  <2>1. A!Continue(r, d) /\ d \in AllCalls /\ d.kind = "over"
    BY <1>2
  <2> HIDE DEF d
  <2>2. QED
    BY <1>1, <2>1, Ended
<1> DEFINE id == call[r].id
           d == A!SetAccount(accounts[id], A!Changed(call[r].base, call[r].op))
<1>4. call[r] \in A!WriteBack /\ id \in A!Ids
  BY <1>1, KindsDiffer DEF A!WriteAccount, A!Is, UseCasesInv, A!AccountsInv, A!WriteInv
<1>5. Len(accounts) \in Nat /\ A!Ids = 1..Len(accounts) /\ accounts[id] \in A!Account
  BY <1>1, <1>4, ListedWell
<1>6. d \in A!Account
  <2> DEFINE base == call[r].base
             gone == call[r].op = "delete"
             b == [base EXCEPT !.deleted = gone]
             late == b.deleted \/ accounts[id].deleted
  <2>1. base \in A!Account /\ gone \in BOOLEAN
    BY <1>4 DEF A!WriteBack
  <2>2. b \in A!Account
    <3> HIDE DEF base, gone
    <3>1. QED
      BY <2>1 DEF A!Account
  <2>3. late \in BOOLEAN
    OBVIOUS
  <2>4. d = [b EXCEPT !.deleted = late]
    BY DEF A!SetAccount, A!Changed
  <2> HIDE DEF b, late, d
  <2>5. QED
    BY <2>2, <2>3, <2>4 DEF A!Account
<1>7. accounts' = accounts \/ accounts' = [accounts EXCEPT ![id] = d]
  BY DEF A!WriteAccount
<1> HIDE DEF d, id
<1>8. accounts' \in Seq(A!Account) /\ Len(accounts') = Len(accounts)
  <2>1. accounts \in Seq(A!Account)
    BY <1>1 DEF A!CollectionOK
  <2>2. CASE accounts' = [accounts EXCEPT ![id] = d]
    BY <1>4, <1>5, <1>6, <2>1, <2>2, ExceptSeq
  <2>3. QED
    BY <1>7, <2>1, <2>2
<1>9. A!CollectionOK'
  BY <1>1, <1>8 DEF A!CollectionOK, A!WriteAccount
<1>10. QED
  BY <1>3, <1>9 DEF Result

\* Every step of a request to the account use case keeps what is kept of it.
LEMMA AccountsResult ==
  ASSUME ImportsInv, NEW r \in Requests, Mine(r), A!Step(r)
  PROVE  Result(r)
<1>1. call \in [Requests -> AllCalls] /\ Kept(r) /\ A!CollectionOK
  BY PartsOfImportsInv
<1>2. ASSUME NEW given \in Imports, A!StartImport(r, given) PROVE Result(r)
  BY <1>1, <1>2, ImportStarts, CollectionStays DEF A!StartImport, Result
<1>3. CASE A!Abort(r)
  BY <1>1, <1>3, Reported, CollectionStays DEF A!Abort, Result
<1>4. CASE A!FetchPanics(r)
  BY <1>1, <1>4, Reported, CollectionStays DEF A!FetchPanics, A!At, Result
<1>5. QED
  BY <1>2, <1>3, <1>4, OriginalChecked, OriginalCreated, BatchFetched, CurrencyChecked, CurrencyCreated,
     AccountRead, AccountWrittenTyped DEF A!Step
-----------------------------------------------------------------------------
\* The orders, too, are what they are meant to be.
LEMMA OrdersWell ==
  ASSUME O!CollectionOK
  PROVE  /\ Len(orders) \in Nat /\ O!Ids = 1..Len(orders)
         /\ \A i \in O!Ids : orders[i] \in O!Order /\ orders[i].deletedAt # "zero"
BY LenProperties, ElementOfSeq DEF O!CollectionOK, O!Ids

LEMMA OrderReplacedTyped ==
  ASSUME O!CollectionOK, NEW id \in O!Ids, NEW d \in O!Order, d.deletedAt # "zero",
         orders' = [orders EXCEPT ![id] = d], moves' \in 0..MaxMoves
  PROVE  O!CollectionOK'
<1>1. /\ Len(orders) \in Nat /\ O!Ids = 1..Len(orders) /\ orders \in Seq(O!Order) /\ Len(orders) <= MaxOrders
      /\ \A i \in O!Ids : orders[i] \in O!Order /\ orders[i].deletedAt # "zero"
  BY OrdersWell DEF O!CollectionOK
<1>2. orders' \in Seq(O!Order) /\ Len(orders') = Len(orders)
  BY <1>1, ExceptSeq
<1>3. O!Ids' = O!Ids
  BY <1>1, <1>2, LenProperties DEF O!Ids
<1>4. \A i \in O!Ids : orders'[i].deletedAt # "zero"
  BY <1>1
<1>5. QED
  BY <1>1, <1>2, <1>3, <1>4 DEF O!CollectionOK

LEMMA OrdersResult ==
  ASSUME ImportsInv, NEW r \in Requests, O!Step(r)
  PROVE  O!CollectionOK' /\ call' \in [Requests -> AllCalls] /\ Kept(r)'
<1>1. call \in [Requests -> AllCalls] /\ O!CollectionOK /\ O!StoreInv
  BY PartsOfImportsInv DEF UseCasesInv
<1>2. /\ Len(orders) \in Nat /\ O!Ids = 1..Len(orders) /\ orders \in Seq(O!Order)
      /\ Len(orders) <= MaxOrders /\ moves \in 0..MaxMoves
      /\ \A i \in O!Ids : orders[i] \in O!Order /\ orders[i].deletedAt # "zero"
  BY <1>1, OrdersWell DEF O!CollectionOK
<1>3. ASSUME NEW d \in AllCalls, O!Continue(r, d), d.kind \in {"order", "over"}
      PROVE  call' \in [Requests -> AllCalls] /\ Kept(r)'
  BY <1>1, <1>3, Ended DEF O!Continue, A!Continue
<1>4. ASSUME O!Continue(r, O!Over) PROVE call' \in [Requests -> AllCalls] /\ Kept(r)'
  <2> DEFINE d == O!Over
  <2>1. O!Continue(r, d) /\ d \in AllCalls /\ d.kind = "over"
    BY <1>4 DEF AllCalls, A!Over, O!Over
  <2> HIDE DEF d
  <2>2. QED
    BY <1>3, <2>1
<1>5. ASSUME UNCHANGED <<orders, moves>> PROVE O!CollectionOK'
  BY <1>1, <1>5 DEF O!CollectionOK, O!Ids
<1>6. ASSUME NEW amount \in {0, 1}, O!CreateOrder(r, amount)
      PROVE  O!CollectionOK' /\ call' \in [Requests -> AllCalls] /\ Kept(r)'
  <2>1. O!Continue(r, O!Over) /\ UNCHANGED moves
    BY <1>6 DEF O!CreateOrder
  <2>2. O!CollectionOK'
    <3>1. CASE UNCHANGED orders
      BY <1>5, <2>1, <3>1
    <3>2. CASE Len(orders) < MaxOrders /\ orders' = Append(orders, O!NewOrder(amount))
      <4>1. PICK d : d = O!NewOrder(amount)
        OBVIOUS
      <4>2. d \in O!Order /\ d.deletedAt # "zero"
        BY <4>1 DEF O!NewOrder, O!Order, O!AllStatuses
      <4>3. /\ orders' \in Seq(O!Order) /\ Len(orders') = Len(orders) + 1
            /\ orders'[Len(orders) + 1] = d /\ \A i \in 1..Len(orders) : orders'[i] = orders[i]
        BY <1>2, <3>2, <4>1, <4>2, AppendProperties
      <4>4. O!Ids' = 1..Len(orders) + 1
        BY <4>3, LenProperties DEF O!Ids
      <4>5. ASSUME NEW i \in O!Ids' PROVE orders'[i].deletedAt # "zero"
        <5>1. CASE i = Len(orders) + 1
          BY <4>2, <4>3, <5>1
        <5>2. CASE i # Len(orders) + 1
          <6>1. i \in 1..Len(orders)
            BY <1>2, <4>4, <4>5, <5>2
          <6>2. QED
            BY <1>2, <4>3, <6>1
        <5>3. QED
          BY <5>1, <5>2
      <4>6. Len(orders') <= MaxOrders
        <5>1. MaxOrders \in Nat
          BY UseCasesAssumption DEF O!OrderStoreAssumption
        <5>2. QED
          BY <1>2, <3>2, <4>3, <5>1
      <4>7. QED
        BY <1>2, <2>1, <4>3, <4>5, <4>6 DEF O!CollectionOK
    <3>3. QED
      BY <1>6, <3>1, <3>2 DEF O!CreateOrder
  <2>3. QED
    BY <1>4, <2>1, <2>2
<1>7. ASSUME NEW id \in O!Ids, NEW op \in Ops, O!Read(r, id, op)
      PROVE  O!CollectionOK' /\ call' \in [Requests -> AllCalls] /\ Kept(r)'
  <2> DEFINE d == [kind |-> "order", id |-> id, op |-> op, base |-> orders[id]]
  <2>1. d \in O!Calls /\ d.kind = "order"
    <3>1. id \in Nat /\ orders[id] \in O!Order
      BY <1>2
    <3>2. QED
      BY <3>1 DEF O!Calls
  <2>2. d \in AllCalls /\ O!Continue(r, d) /\ UNCHANGED <<orders, moves>>
    BY <1>7, <2>1 DEF O!Read, AllCalls
  <2> HIDE DEF d
  <2>3. QED
    BY <1>3, <1>5, <2>1, <2>2
<1>8. CASE O!Write(r)
  <2> DEFINE new == O!SetOrder(orders[call[r].id], O!Changed(call[r].base, call[r].op))
  <2>1. /\ O!Is(r, "order") /\ O!Continue(r, O!Over) /\ UNCHANGED moves
        /\ orders' = orders \/ orders' = [orders EXCEPT ![call[r].id] = new]
    BY <1>8 DEF O!Write
  <2>2. PICK id, doc, base, op :
          id = call[r].id /\ doc = orders[id] /\ base = call[r].base /\ op = call[r].op
    OBVIOUS
  <2>3. /\ id \in O!Ids /\ doc \in O!Order /\ doc.deletedAt # "zero"
        /\ base \in O!Order /\ base.deletedAt = "nil" /\ op \in Ops
    BY <1>1, <1>2, <2>1, <2>2 DEF O!StoreInv, O!Calls
  <2>4. PICK d : d = O!SetOrder(doc, O!Changed(base, op))
    OBVIOUS
  <2>5. d = new
    BY <2>2, <2>4
  <2>6. d \in O!Order /\ d.deletedAt = doc.deletedAt
    BY <2>3, <2>4, OrderSet
  <2> HIDE DEF new
  <2>7. O!CollectionOK'
    <3>1. CASE orders' = orders
      BY <1>5, <2>1, <3>1
    <3>2. CASE orders' = [orders EXCEPT ![call[r].id] = new]
      BY <1>1, <1>2, <2>1, <2>2, <2>3, <2>5, <2>6, <3>2, OrderReplacedTyped
    <3>3. QED
      BY <2>1, <3>1, <3>2
  <2>8. QED
    BY <1>4, <2>1, <2>7
<1>9. QED
  BY <1>6, <1>7, <1>8 DEF O!Step
-----------------------------------------------------------------------------
\* What the node server does to the list of currencies.
LEMMA CurrencyAdded ==
  ASSUME A!CollectionOK, NEW cur \in Currencies, A!AddCurrency(cur)
  PROVE  A!CollectionOK' /\ StillComing
<1>1. listed' = <<cur>> \o listed /\ moves' = moves + 1 /\ moves < MaxMoves /\ UNCHANGED accounts
  BY DEF A!AddCurrency
<1>2. PICK one : one = <<cur>>
  OBVIOUS
<1>3. one \in Seq(Currencies) /\ Len(one) = 1 /\ listed \in Seq(Currencies)
      /\ Len(listed) \in Nat /\ DOMAIN listed = 1..Len(listed)
  BY <1>2, ListedWell DEF A!CollectionOK
<1>4. /\ listed' \in Seq(Currencies) /\ Len(listed') = 1 + Len(listed)
      /\ \A i \in 1..1 + Len(listed) : listed'[i] = IF i <= 1 THEN one[i] ELSE listed[i - 1]
  BY <1>1, <1>2, <1>3, ConcatProperties
<1>5. DOMAIN listed' = 1..1 + Len(listed)
  BY <1>4, LenProperties
<1>6. \A i \in DOMAIN listed : i + 1 \in DOMAIN listed' /\ listed'[i + 1] = listed[i] /\ i + 1 > i
  <2> SUFFICES ASSUME NEW i \in 1..Len(listed)
               PROVE  i + 1 \in 1..1 + Len(listed) /\ listed'[i + 1] = listed[i] /\ i + 1 > i
    BY <1>3, <1>5
  <2>1. i + 1 \in 1..1 + Len(listed) /\ ~(i + 1 <= 1) /\ (i + 1) - 1 = i /\ i + 1 > i
    BY <1>3
  <2>2. QED
    BY <1>4, <2>1
<1>7. StillComing
  <2> SUFFICES ASSUME NEW c \in A!Import, NEW k \in Currencies, A!Coming(c, k) PROVE A!Coming(c, k)'
    BY DEF StillComing
  <2>1. CASE \E i \in DOMAIN c.todo : c.todo[i] = k
    BY <2>1 DEF A!Coming
  <2>2. CASE \E i \in DOMAIN listed : i > c.read /\ listed[i] = k
    <3>1. PICK i \in DOMAIN listed : i > c.read /\ listed[i] = k
      BY <2>2
    <3>2. c.read \in Nat /\ i \in Nat
      BY <1>3 DEF A!Import
    <3>3. i + 1 \in DOMAIN listed' /\ i + 1 > c.read /\ listed'[i + 1] = k
      BY <1>6, <3>1, <3>2
    <3>4. QED
      BY <3>3 DEF A!Coming
  <2>3. QED
    BY <2>1, <2>2 DEF A!Coming
<1>8. moves' \in 0..MaxMoves
  BY <1>1, UseCasesAssumption DEF A!CollectionOK, A!AccountsAssumption
<1>9. QED
  BY <1>1, <1>4, <1>7, <1>8 DEF A!CollectionOK

LEMMA CurrencyWithdrawn ==
  ASSUME A!CollectionOK, NEW cur, A!WithdrawCurrency(cur)
  PROVE  A!CollectionOK'
<1>1. PICK i \in DOMAIN listed : listed' = SubSeq(listed, 1, i - 1) \o SubSeq(listed, i + 1, Len(listed))
  BY DEF A!WithdrawCurrency
<1>2. Len(listed) \in Nat /\ DOMAIN listed = 1..Len(listed) /\ \A j \in DOMAIN listed : listed[j] \in Currencies
  BY ListedWell
<1>3. SubSeq(listed, 1, i - 1) \in Seq(Currencies)
  <2>1. i - 1 \in Int /\ \A j \in 1..i - 1 : listed[j] \in Currencies
    BY <1>2
  <2>2. QED
    BY <2>1, SubSeqProperties
<1>4. SubSeq(listed, i + 1, Len(listed)) \in Seq(Currencies)
  <2>1. i + 1 \in Int /\ \A j \in i + 1..Len(listed) : listed[j] \in Currencies
    BY <1>2
  <2>2. QED
    BY <1>2, <2>1, SubSeqProperties
<1>5. listed' \in Seq(Currencies)
  BY <1>1, <1>3, <1>4, ConcatProperties
<1>6. moves' \in 0..MaxMoves
  BY UseCasesAssumption DEF A!CollectionOK, A!AccountsAssumption, A!WithdrawCurrency
<1>7. QED
  BY <1>5, <1>6 DEF A!CollectionOK, A!WithdrawCurrency

\* An import that is told that a currency was withdrawn promises less.
LEMMA MarkedStays ==
  ASSUME NEW q \in Requests, call[q] \in A!Import, A!Is(q, "import"), Kept(q), UNCHANGED accounts,
         call'[q] = [call[q] EXCEPT !.moved = TRUE]
  PROVE  call'[q] \in AllCalls /\ Kept(q)'
<1>1. PICK c, d : c = call[q] /\ d = call'[q]
  OBVIOUS
<1>2. /\ d \in A!Import /\ d.kind = "import" /\ d.moved = TRUE
      /\ d.given = c.given /\ d.at = c.at /\ d.pos = c.pos /\ d.todo = c.todo
      /\ d.ids = c.ids /\ d.missed = c.missed
  BY <1>1 DEF A!Import
<1>3. d \in AllCalls
  BY <1>2 DEF AllCalls, A!Calls
<1>4. Complete(q)'
  BY <1>1, <1>2 DEF Complete, A!Succeeded, A!Is
<1>5. A!MadeInv(q)'
  BY <1>1, <1>2 DEF Kept, A!MadeInv, A!Is, A!Ids
<1>6. A!ProgressInv(q)'
  <2> SUFFICES A!PlaceInv(d) /\ A!PassedInv(d)' /\ A!OfferedInv(d)'
    BY <1>1 DEF A!ProgressInv, A!Is, A!PlaceInv, A!PassedInv, A!OfferedInv, A!Settled, A!Coming, A!OnChain,
                A!PassedOver, A!Added
  <2>1. A!PlaceInv(c) /\ A!PassedInv(c)
    BY <1>1 DEF Kept, A!ProgressInv
  <2>2. A!PlaceInv(d)
    BY <1>2, <2>1 DEF A!PlaceInv, A!PassedOver, A!Added, A!OnChain
  <2>3. A!PassedInv(d)'
    BY <1>2, <2>1 DEF A!PassedInv, A!Has, A!Ids
  <2>4. A!OfferedInv(d)'
    BY <1>2 DEF A!OfferedInv
  <2>5. QED
    BY <2>2, <2>3, <2>4
<1>7. QED
  BY <1>1, <1>3, <1>4, <1>5, <1>6 DEF Kept

LEMMA CurrenciesResult ==
  ASSUME ImportsInv, A!Others
  PROVE  A!CollectionOK' /\ call' \in [Requests -> AllCalls] /\ \A q \in Requests : Kept(q)'
<1>1. /\ call \in [Requests -> AllCalls] /\ A!CollectionOK /\ Shape
      /\ \A q \in Requests : Kept(q)
  BY PartsOfImportsInv DEF UseCasesInv, A!AccountsInv, Shape
<1>2. UNCHANGED accounts
  BY DEF A!Others, A!AddCurrency, A!WithdrawCurrency
<1>3. Grows /\ A!Ids' = A!Ids
  BY <1>1, <1>2, AccountsSame DEF A!Ids
<1>4. ASSUME NEW cur \in Currencies, A!AddCurrency(cur)
      PROVE  A!CollectionOK' /\ call' \in [Requests -> AllCalls] /\ \A q \in Requests : Kept(q)'
  <2>1. A!CollectionOK' /\ StillComing /\ call' = call
    BY <1>1, <1>4, CurrencyAdded DEF A!AddCurrency
  <2>2. ASSUME NEW q \in Requests PROVE Kept(q)'
    BY <1>1, <1>3, <2>1, OthersStay
  <2>3. QED
    BY <1>1, <2>1, <2>2
<1>5. ASSUME NEW cur \in Currencies, A!WithdrawCurrency(cur)
      PROVE  A!CollectionOK' /\ call' \in [Requests -> AllCalls] /\ \A q \in Requests : Kept(q)'
  <2>1. A!CollectionOK'
    BY <1>1, <1>5, CurrencyWithdrawn
  <2>2. call' = [q \in Requests |-> IF A!Is(q, "import") THEN [call[q] EXCEPT !.moved = TRUE] ELSE call[q]]
    BY <1>5 DEF A!WithdrawCurrency
  <2>3. ASSUME NEW q \in Requests PROVE call'[q] \in AllCalls /\ Kept(q)'
    <3>1. CASE A!Is(q, "import")
      <4>1. call'[q] = [call[q] EXCEPT !.moved = TRUE]
        BY <2>2, <3>1
      <4>2. call[q] \in A!Import
        BY <1>1, <3>1, KindsDiffer DEF A!Is
      <4>3. QED
        BY <1>1, <1>2, <3>1, <4>1, <4>2, MarkedStays
    <3>2. CASE ~A!Is(q, "import")
      <4>1. call'[q] = call[q] /\ call[q] \in AllCalls
        BY <1>1, <2>2, <3>2
      <4>2. Kept(q)'
        BY <1>1, <1>3, <3>2, <4>1, OthersStay
      <4>3. QED
        BY <4>1, <4>2
    <3>3. QED
      BY <3>1, <3>2
  <2>4. call' \in [Requests -> AllCalls]
    BY <2>2, <2>3
  <2>5. QED
    BY <2>1, <2>3, <2>4
<1>6. QED
  BY <1>4, <1>5 DEF A!Others
LEMMA OrdersChange ==
  ASSUME O!CollectionOK, O!Others
  PROVE  O!CollectionOK'
<1>1. PICK id \in O!Ids :
        O!RecordDeposit(id) \/ O!ServerDeletes(id) \/ \E s \in O!AllStatuses : O!ServerMoves(id, s)
  BY DEF O!Others
<1>2. orders[id] \in O!Order /\ orders[id].deletedAt # "zero"
  BY OrdersWell
<1>3. moves' \in 0..MaxMoves
  <2>1. moves < MaxMoves /\ moves' = moves + 1
    BY <1>1 DEF O!RecordDeposit, O!ServerDeletes, O!ServerMoves
  <2>2. moves \in 0..MaxMoves /\ MaxMoves \in Nat
    BY UseCasesAssumption DEF O!CollectionOK, O!OrderStoreAssumption
  <2>3. QED
    BY <2>1, <2>2
<1>4. \E d \in O!Order : d.deletedAt # "zero" /\ orders' = [orders EXCEPT ![id] = d]
  <2>1. CASE O!RecordDeposit(id)
    <3>1. PICK b \in {0, 1} : orders' = [orders EXCEPT ![id].status = "DEPOSIT_CONFIRMING",
                                                       ![id].amount = b, ![id].deposit = TRUE]
      BY <2>1 DEF O!RecordDeposit
    <3> DEFINE d == [orders[id] EXCEPT !.status = "DEPOSIT_CONFIRMING", !.amount = b, !.deposit = TRUE]
    <3>2. d \in O!Order /\ d.deletedAt = orders[id].deletedAt
      BY <1>2 DEF O!Order, O!AllStatuses
    <3>3. orders' = [orders EXCEPT ![id] = d]
      BY <3>1
    <3> HIDE DEF d
    <3>4. QED
      BY <1>2, <3>2, <3>3
  <2>2. CASE O!ServerDeletes(id)
    <3> DEFINE d == [orders[id] EXCEPT !.deletedAt = "time"]
    <3>1. d \in O!Order /\ d.deletedAt # "zero"
      BY <1>2 DEF O!Order
    <3>2. QED
      BY <2>2, <3>1 DEF O!ServerDeletes
  <2>3. ASSUME NEW s \in O!AllStatuses, O!ServerMoves(id, s)
        PROVE  \E d \in O!Order : d.deletedAt # "zero" /\ orders' = [orders EXCEPT ![id] = d]
    <3> DEFINE d == [orders[id] EXCEPT !.status = s, !.stamped = @ \cup {s}]
    <3>1. d \in O!Order /\ d.deletedAt = orders[id].deletedAt
      BY <1>2 DEF O!Order
    <3>2. orders' = [orders EXCEPT ![id] = d]
      BY <2>3 DEF O!ServerMoves
    <3> HIDE DEF d
    <3>3. QED
      BY <1>2, <3>1, <3>2
  <2>4. QED
    BY <1>1, <2>1, <2>2, <2>3
<1>5. QED
  BY <1>3, <1>4, OrderReplacedTyped

\* Initially nobody has made anything.
LEMMA InitImports == ASSUME Init PROVE ImportsInv
<1>1. UseCasesInv
  BY InitInv
<1>2. call = [r \in Requests |-> A!Idle] /\ moves = 0 /\ MaxMoves \in Nat /\ MaxAccounts \in Nat \ {0}
      /\ MaxOrders \in Nat \ {0} /\ None \notin Requests
  BY UseCasesAssumption DEF Init, A!Init, A!AccountsAssumption, O!OrderStoreAssumption
<1>3. call \in [Requests -> AllCalls] /\ \A r \in Requests : call[r].kind = "idle"
  BY <1>2 DEF AllCalls, A!Idle
<1>4. listed \in Seq(Currencies)
  <2>1. Cardinality(Currencies) \in Nat
    <3>1. IsFiniteSet(Currencies)
      BY UseCasesAssumption DEF A!AccountsAssumption, A!IsFiniteSet, IsFiniteSet
    <3>2. QED
      BY <3>1, FS_CardinalityType
  <2>2. listed \in [1..Cardinality(Currencies) -> Currencies]
    <3>1. A!Cardinality(Currencies) = Cardinality(Currencies)
      BY DEF A!Cardinality, Cardinality
    <3>2. QED
      BY <3>1 DEF Init, A!Init
  <2>3. QED
    BY <2>1, <2>2
<1>5. accounts \in Seq(A!Account) /\ Len(accounts) <= MaxAccounts /\ \A i \in A!Ids : accounts[i].by = None
  <2>1. CASE accounts = <<>>
    BY <1>2, <2>1 DEF A!Ids
  <2>2. ASSUME NEW a \in Addresses, NEW c \in Currencies,
               accounts = <<[addr |-> a, cur |-> c, deleted |-> FALSE, by |-> None, mark |-> 0]>>
        PROVE  accounts \in Seq(A!Account) /\ Len(accounts) <= MaxAccounts
               /\ \A i \in A!Ids : accounts[i].by = None
    <3> DEFINE d == [addr |-> a, cur |-> c, deleted |-> FALSE, by |-> None, mark |-> 0]
    <3>1. d \in A!Account /\ d.by = None
      BY DEF A!Account
    <3> HIDE DEF d
    <3>2. accounts = <<d>>
      BY <2>2 DEF d
    <3>3. accounts \in Seq(A!Account) /\ Len(accounts) = 1 /\ DOMAIN accounts = {1} /\ accounts[1] = d
      BY <3>1, <3>2
    <3>4. QED
      BY <1>2, <3>1, <3>3 DEF A!Ids
  <2>3. QED
    BY <2>1, <2>2 DEF Init, A!Init
<1>6. A!CollectionOK
  BY <1>2, <1>4, <1>5 DEF A!CollectionOK
<1>7. O!CollectionOK
  <2> DEFINE d == [O!NewOrder(1) EXCEPT !.status = "PENDING"]
  <2>1. d \in O!Order /\ d.deletedAt # "zero"
    BY DEF O!NewOrder, O!Order, O!AllStatuses
  <2>2. orders = <<>> \/ orders = <<d>>
    BY DEF Init, O!Init
  <2> HIDE DEF d
  <2>3. orders \in Seq(O!Order) /\ Len(orders) <= MaxOrders /\ \A i \in O!Ids : orders[i].deletedAt # "zero"
    <3>1. CASE orders = <<>>
      BY <1>2, <3>1 DEF O!Ids
    <3>2. CASE orders = <<d>>
      <4>1. orders \in Seq(O!Order) /\ Len(orders) = 1 /\ DOMAIN orders = {1} /\ orders[1] = d
        BY <2>1, <3>2
      <4>2. QED
        BY <1>2, <2>1, <4>1 DEF O!Ids
    <3>3. QED
      BY <2>2, <3>1, <3>2
  <2>4. QED
    BY <1>2, <2>3 DEF O!CollectionOK
<1>8. ASSUME NEW r \in Requests PROVE Kept(r)
  <2>1. call[r].kind = "idle" /\ \A i \in A!Ids : accounts[i].by # r
    BY <1>2, <1>3, <1>5
  <2>2. QED
    BY <2>1 DEF Kept, Complete, A!MadeInv, A!ProgressInv, A!Succeeded, A!Is
<1>9. QED
  BY <1>1, <1>3, <1>6, <1>7, <1>8, PartsOfImportsInv

LEMMA StepImports ==
  ASSUME ImportsInv, [Next]_vars
  PROVE  ImportsInv'
<1>1. /\ UseCasesInv /\ A!CollectionOK /\ O!CollectionOK /\ call \in [Requests -> AllCalls] /\ Shape
      /\ \A r \in Requests : Kept(r)
  BY PartsOfImportsInv DEF UseCasesInv, A!AccountsInv, Shape
<1>2. UseCasesInv' /\ Grows
  BY <1>1, StepInv
<1> DEFINE Good == A!CollectionOK' /\ O!CollectionOK' /\ call' \in [Requests -> AllCalls]
                   /\ \A q \in Requests : Kept(q)'
<1>3. ASSUME NEW r \in Requests, A!Step(r), UNCHANGED orders PROVE Good
  <2>1. Steps(r) /\ \A i \in A!Ids' \ A!Ids : accounts'[i].by = r
    BY <1>1, <1>3, AccountsStep DEF UseCasesInv
  <2>2. Result(r)
    BY <1>2, <1>3, <2>1, AccountsResult DEF Mine
  <2>3. UNCHANGED <<listed, moves>>
    BY <1>3 DEF A!Step, A!StartImport, A!Abort, A!FetchPanics, A!CheckOriginal, A!CreateOriginal, A!FetchBatch,
       A!CheckCurrency, A!CreateCurrency, A!RefreshBalance, A!DeleteAccount, A!ReadAccount, A!WriteAccount
  <2>4. StillComing
    BY <2>3 DEF StillComing, A!Coming
  <2>5. ASSUME NEW q \in Requests, q # r PROVE Kept(q)'
    <3>1. call'[q] = call[q] /\ call[q] \in AllCalls /\ \A i \in A!Ids' \ A!Ids : accounts'[i].by # q
      BY <1>1, <2>1, <2>5 DEF Steps
    <3>2. QED
      BY <1>1, <1>2, <2>4, <3>1, OthersStay
  <2>6. O!CollectionOK'
    BY <1>1, <1>3, <2>3 DEF O!CollectionOK, O!Ids
  <2>7. QED
    BY <2>2, <2>5, <2>6 DEF Result
<1>4. ASSUME UNCHANGED <<accounts, listed>> PROVE StillComing /\ A!Ids' = A!Ids
  BY <1>4 DEF StillComing, A!Coming, A!Ids
<1>5. ASSUME NEW r \in Requests, O!Step(r), UNCHANGED <<accounts, listed>> PROVE Good
  <2>1. O!CollectionOK' /\ call' \in [Requests -> AllCalls] /\ Kept(r)'
    BY <1>5, OrdersResult
  <2>2. \A q \in Requests : q # r => call'[q] = call[q]
    BY <1>1, <1>5, OrdersStep DEF UseCasesInv, OrderSteps
  <2>3. ASSUME NEW q \in Requests, q # r PROVE Kept(q)'
    BY <1>1, <1>2, <1>4, <1>5, <2>2, <2>3, OthersStay
  <2>4. UNCHANGED moves
    BY <1>5 DEF O!Step, O!CreateOrder, O!Read, O!Write
  <2>5. A!CollectionOK'
    BY <1>1, <1>5, <2>4, CollectionStays
  <2>6. QED
    BY <2>1, <2>3, <2>5
<1>6. ASSUME A!Others /\ UNCHANGED orders PROVE Good
  <2>1. A!CollectionOK' /\ call' \in [Requests -> AllCalls] /\ \A q \in Requests : Kept(q)'
    BY <1>6, CurrenciesResult
  <2>2. moves' \in 0..MaxMoves
    BY <2>1 DEF A!CollectionOK
  <2>3. O!CollectionOK'
    BY <1>1, <1>6, <2>2 DEF O!CollectionOK, O!Ids
  <2>4. QED
    BY <2>1, <2>3
<1>7. ASSUME O!Others /\ UNCHANGED <<accounts, listed>> PROVE Good
  <2>1. O!CollectionOK' /\ UNCHANGED call
    BY <1>1, <1>7, OrdersChange DEF O!Others, O!RecordDeposit, O!ServerDeletes, O!ServerMoves
  <2>2. ASSUME NEW q \in Requests PROVE Kept(q)'
    BY <1>1, <1>2, <1>4, <1>7, <2>1, OthersStay
  <2>3. A!CollectionOK'
    BY <1>1, <1>7, <2>1 DEF A!CollectionOK, O!CollectionOK
  <2>4. QED
    BY <1>1, <2>1, <2>2, <2>3
<1>8. ASSUME UNCHANGED vars PROVE Good
  <2>1. UNCHANGED <<accounts, listed, orders, moves, call>>
    BY <1>8 DEF vars
  <2>2. ASSUME NEW q \in Requests PROVE Kept(q)'
    BY <1>1, <1>2, <1>4, <2>1, OthersStay
  <2>3. A!CollectionOK' /\ O!CollectionOK'
    BY <1>1, <2>1 DEF A!CollectionOK, O!CollectionOK, O!Ids
  <2>4. QED
    BY <1>1, <2>1, <2>2, <2>3
<1>9. Good
  BY <1>3, <1>5, <1>6, <1>7, <1>8 DEF Next, Others, Step
<1>10. (UseCasesInv /\ A!CollectionOK /\ O!CollectionOK /\ call \in [Requests -> AllCalls]
        /\ (\A r \in Requests : Kept(r)) => ImportsInv)'
  BY PartsOfImportsInv, PTL
<1>11. QED
  BY <1>2, <1>9, <1>10

LEMMA ImportsInvariance == Spec => []ImportsInv
<1>1. ImportsInv /\ [Next]_vars => ImportsInv'
  BY StepImports
<1>2. QED
  BY <1>1, InitImports, PTL DEF Spec

\* Both collections stay well formed and every request is in a state of the use
\* case that serves it, whatever is imported, asked for, or done by others; no
\* order gets the zero time as its time of deletion.
THEOREM UseCasesTypeCorrect == Spec => []TypeOK
<1>1. ImportsInv => TypeOK
  BY DEF ImportsInv
<1>2. QED
  BY <1>1, ImportsInvariance, PTL

\* However many imports run together, and whatever fails, an import that reports
\* success has told of every account it made but those it was not sure of, and
\* has left out no currency on its chains that was listed from the start, unless
\* a call for it failed or a listed currency was withdrawn.
THEOREM SuccessAlwaysComplete == Spec => []SuccessIsComplete
<1>1. ImportsInv => SuccessIsComplete
  BY DEF ImportsInv, A!SuccessInv, SuccessIsComplete
<1>2. QED
  BY <1>1, ImportsInvariance, PTL
=============================================================================
