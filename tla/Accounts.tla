------------------------------ MODULE Accounts ------------------------------
(***************************************************************************)
(* The accounts collection through the use cases: ImportAccounts, which    *)
(* the HTTP and the gRPC handler start in a goroutine, GetBalance and      *)
(* UpdateAccount behind the balance requests, and DeleteAccount.           *)
(* src/usecases/account_usecase.go, portfolio_usecase.go.                  *)
(*                                                                         *)
(* A request is one goroutine that serves one call.  An import creates the *)
(* accounts it is given, the originals, and then one for every supported   *)
(* currency on the chain of an original, a batch at a time.  It looks for  *)
(* an account with the same user, address and currency before it creates   *)
(* one.  The other calls read a whole document and write it back with      *)
(* $set.                                                                   *)
(*                                                                         *)
(* All accounts are one user's.  Balances are left out: a request writes   *)
(* one it has just got.  Remote calls may fail and the context may end at  *)
(* any time: the HTTP handler cancels it when it returns, the gRPC handler *)
(* after a minute.                                                         *)
(***************************************************************************)
EXTENDS Integers, Sequences, FiniteSets

CONSTANTS
  Requests,
  Currencies,   \* supported currencies: a currency on a chain
  ChainOf,      \* supported currency -> its chain
  Addresses,
  Imports,      \* the lists of originals an import may be given
  Batch,        \* currencies in a batch
  MaxAccounts,  \* bound on the documents
  MaxMoves,     \* bound on the changes of the list of currencies
  None

Original == [addr : Addresses, cur : Currencies \cup {None}]

AccountsAssumption ==
  /\ Imports \subseteq Seq(Original)
  /\ IsFiniteSet(Currencies)
  /\ Batch \in Nat \ {0} /\ MaxAccounts \in Nat \ {0} /\ MaxMoves \in Nat
  /\ None \notin Currencies \cup Requests

VARIABLES
  accounts, \* the collection: a sequence of documents, the index is the id
  listed,   \* the supported currencies, the newest first
  moves,    \* changes of that list so far
  call      \* request -> what it does

vars == <<accounts, listed, moves, call>>

\* cur is None for an original without a SupportedCurrencyID.  by: the request
\* that made it, mark: the number of documents when that request looked for a
\* duplicate; both are history.  An account may be there from the start.
Account ==
  [addr : Addresses, cur : Currencies \cup {None}, deleted : BOOLEAN,
   by : Requests \cup {None}, mark : Nat]

\* The sets of records a request may be in.  read: how many currencies the
\* batches had; todo: those of the batch left; offered, missed, moved: history
\* of the currencies listed at the start, of those given up on, and of whether
\* a listed one was withdrawn meanwhile, as is panicked.
Idle == [kind |-> "idle"]
Over == [kind |-> "over"]
Import ==
  [kind : {"import"}, given : Imports, at : {"original", "create", "batch", "currency", "insert"},
   pos : Nat, todo : Seq(Currencies), read : Nat, ids : SUBSET Nat, mark : Nat,
   offered : SUBSET Currencies, missed : SUBSET Currencies, moved : BOOLEAN]
Report ==
  [kind : {"report"}, status : {"success", "error"}, panicked : BOOLEAN, given : Imports, ids : SUBSET Nat,
   offered : SUBSET Currencies, missed : SUBSET Currencies, moved : BOOLEAN]
WriteBack ==
  [kind : {"account"}, id : Nat, op : {"balance", "delete"}, base : Account]
Calls == Import \cup Report \cup WriteBack

Init ==
  /\ accounts \in {<<>>} \cup
       {<<[addr |-> a, cur |-> c, deleted |-> FALSE, by |-> None, mark |-> 0]>> :
          a \in Addresses, c \in Currencies}
  /\ listed \in {s \in [1..Cardinality(Currencies) -> Currencies] :
                   \A i, j \in DOMAIN s : s[i] = s[j] => i = j}
  /\ moves = 0
  /\ call = [r \in Requests |-> Idle]

Is(r, kind) == call[r].kind = kind
At(r, place) == Is(r, "import") /\ call[r].at = place
Listed == {listed[i] : i \in DOMAIN listed}
Ids == DOMAIN accounts
-----------------------------------------------------------------------------
\* CheckDuplicateAccount.  A document without a currency has no such field, and
\* the filter asks for the zero id: it finds none.
Exists(addr, cur) ==
  /\ cur # None
  /\ \E i \in Ids : accounts[i].addr = addr /\ accounts[i].cur = cur /\ ~accounts[i].deleted

NewAccount(r, addr, cur) ==
  [addr |-> addr, cur |-> cur, deleted |-> FALSE, by |-> r, mark |-> call[r].mark]

Create(r, addr, cur) ==
  /\ Len(accounts) < MaxAccounts
  /\ accounts' = Append(accounts, NewAccount(r, addr, cur))

Continue(r, c) == call' = [call EXCEPT ![r] = c]

\* What the callback says: the ids only if there was no error.
Reports(r, status, ids, panicked) ==
  Continue(r, [kind |-> "report", status |-> status, panicked |-> panicked,
               given |-> call[r].given, ids |-> ids, offered |-> call[r].offered,
               missed |-> call[r].missed, moved |-> call[r].moved])
Fails(r) == Reports(r, "error", {}, FALSE)

StartImport(r, given) ==
  /\ Is(r, "idle") /\ given # <<>>
  /\ Continue(r, [kind |-> "import", given |-> given, at |-> "original", pos |-> 1, todo |-> <<>>,
                  read |-> 0, ids |-> {}, mark |-> 0, offered |-> Listed, missed |-> {},
                  moved |-> FALSE])
  /\ UNCHANGED <<accounts, listed, moves>>

\* The context has ended, or a call for an original or a batch has failed.
Abort(r) ==
  /\ Is(r, "import") /\ call[r].at # "insert"
  /\ Fails(r)
  /\ UNCHANGED <<accounts, listed, moves>>

\* The first original on the currency's chain lends its address.
OnChain(c, cur) ==
  {i \in DOMAIN c.given : c.given[i].cur # None /\ ChainOf[c.given[i].cur] = ChainOf[cur]}
Lender(c, cur) == c.given[CHOOSE i \in OnChain(c, cur) : \A j \in OnChain(c, cur) : i <= j]

\* Currencies the originals have already are not created again, nor those for
\* which no original has an address.
Added(c, cur) == \E i \in DOMAIN c.given : c.given[i].cur = cur
PassedOver(c, cur) == Added(c, cur) \/ OnChain(c, cur) = {}

\* A provider panics while a balance is fetched, for an original after the look
\* for a duplicate, for a currency before it.  ImportAccounts recovers and
\* returns nil twice, which its callers take for a success without accounts.
FetchPanics(r) ==
  /\ \/ At(r, "create") /\ call[r].given[call[r].pos].cur # None
     \/ At(r, "currency") /\ ~PassedOver(call[r], Head(call[r].todo))
  /\ Reports(r, "success", {}, TRUE)
  /\ UNCHANGED <<accounts, listed, moves>>
-----------------------------------------------------------------------------
\* processOriginalAccounts for the next original; its currency must be listed.
NextOriginal(c) == [c EXCEPT !.at = "original", !.pos = @ + 1]

CheckOriginal(r) ==
  LET c == call[r]
      o == c.given[c.pos]
  IN  /\ At(r, "original") /\ c.pos <= Len(c.given)
      /\ o.cur \in Listed \cup {None}
      /\ Continue(r, IF Exists(o.addr, o.cur) THEN NextOriginal(c)
                     ELSE [c EXCEPT !.at = "create", !.mark = Len(accounts)])
      /\ UNCHANGED <<accounts, listed, moves>>

\* Mutant: the id is left out.
CreateOriginalUnlisted(r) ==
  LET c == call[r]
      o == c.given[c.pos]
  IN  /\ At(r, "create")
      /\ Create(r, o.addr, o.cur)
      /\ Continue(r, NextOriginal(c)) \/ Fails(r)
      /\ UNCHANGED <<listed, moves>>

\* The insert may be done although its answer is lost.
CreateOriginal(r) ==
  LET c == call[r]
      o == c.given[c.pos]
  IN  /\ At(r, "create")
      /\ Create(r, o.addr, o.cur)
      /\ \/ Continue(r, NextOriginal([c EXCEPT !.ids = @ \cup {Len(accounts) + 1}]))
         \/ Fails(r)
      /\ UNCHANGED <<listed, moves>>
-----------------------------------------------------------------------------
\* GetBatch reads the whole list and cuts it at the number read so far.
Upto(s, n) == IF Len(s) < n THEN Len(s) ELSE n

\* Mutant: one currency is skipped.
NextBatchLate(c) == SubSeq(listed, c.read + 2, Upto(listed, c.read + Batch + 1))
NextBatch(c) == SubSeq(listed, c.read + 1, Upto(listed, c.read + Batch))

FetchBatch(r) ==
  LET c == call[r]
      s == NextBatch(c)
  IN  /\ At(r, "batch") \/ (At(r, "original") /\ c.pos > Len(c.given))
      /\ IF s = <<>>
         THEN Reports(r, "success", c.ids, FALSE)
         ELSE Continue(r, [c EXCEPT !.at = "currency", !.todo = s, !.read = @ + Len(s)])
      /\ UNCHANGED <<accounts, listed, moves>>

NextCurrency(c) ==
  [c EXCEPT !.todo = Tail(@), !.at = IF Len(c.todo) = 1 THEN "batch" ELSE "currency"]
GiveUp(c) == NextCurrency([c EXCEPT !.missed = @ \cup {Head(c.todo)}])

\* Mutant: nobody looks for a duplicate.
CheckNothing(r) ==
  /\ At(r, "currency")
  /\ Continue(r, IF PassedOver(call[r], Head(call[r].todo)) THEN NextCurrency(call[r])
                 ELSE [call[r] EXCEPT !.at = "insert", !.mark = Len(accounts)])
  /\ UNCHANGED <<accounts, listed, moves>>

CheckCurrency(r) ==
  LET c == call[r]
      cur == Head(c.todo)
  IN  /\ At(r, "currency")
      /\ IF PassedOver(c, cur)
         THEN Continue(r, NextCurrency(c))
         ELSE \/ Continue(r, IF Exists(Lender(c, cur).addr, cur) THEN NextCurrency(c)
                             ELSE [c EXCEPT !.at = "insert", !.mark = Len(accounts)])
              \/ Continue(r, GiveUp(c))
      /\ UNCHANGED <<accounts, listed, moves>>

\* An error is passed over, even if the document is there.
CreateCurrency(r) ==
  LET c == call[r]
      cur == Head(c.todo)
  IN  /\ At(r, "insert")
      /\ \/ /\ Create(r, Lender(c, cur).addr, cur)
            /\ \/ Continue(r, NextCurrency([c EXCEPT !.ids = @ \cup {Len(accounts) + 1}]))
               \/ Continue(r, GiveUp(c))
         \/ Continue(r, GiveUp(c)) /\ UNCHANGED accounts
      /\ UNCHANGED <<listed, moves>>
-----------------------------------------------------------------------------
\* GetBalance, HandleBalanceUpdate and DeleteAccount read an account ...
ReadAccount(r, id, op) ==
  /\ Is(r, "idle") /\ ~accounts[id].deleted
  /\ Continue(r, [kind |-> "account", id |-> id, op |-> op, base |-> accounts[id]])
  /\ UNCHANGED <<accounts, listed, moves>>

\* Mutant: deletedAt is written when it is empty.
ReplaceAccount(doc, new) == new

\* ... and write it back: $set with deletedAt left out when it is empty.
SetAccount(doc, new) == [new EXCEPT !.deleted = @ \/ doc.deleted]

Changed(base, op) == [base EXCEPT !.deleted = (op = "delete")]

WriteAccount(r) ==
  LET c == call[r]
  IN  /\ Is(r, "account")
      /\ \/ accounts' = [accounts EXCEPT ![c.id] = SetAccount(@, Changed(c.base, c.op))]
         \/ UNCHANGED accounts
      /\ Continue(r, Over)
      /\ UNCHANGED <<listed, moves>>
-----------------------------------------------------------------------------
\* The node server changes the list of currencies.
AddCurrency(cur) ==
  /\ cur \notin Listed /\ moves < MaxMoves
  /\ listed' = <<cur>> \o listed
  /\ moves' = moves + 1
  /\ UNCHANGED <<accounts, call>>

WithdrawCurrency(cur) ==
  /\ moves < MaxMoves
  /\ \E i \in DOMAIN listed :
       /\ listed[i] = cur
       /\ listed' = SubSeq(listed, 1, i - 1) \o SubSeq(listed, i + 1, Len(listed))
  /\ moves' = moves + 1
  /\ call' = [r \in Requests |-> IF Is(r, "import") THEN [call[r] EXCEPT !.moved = TRUE] ELSE call[r]]
  /\ UNCHANGED accounts

RefreshBalance(r, id) == ReadAccount(r, id, "balance")
DeleteAccount(r, id) == ReadAccount(r, id, "delete")

Step(r) ==
  \/ \E given \in Imports : StartImport(r, given)
  \/ Abort(r) \/ FetchPanics(r)
  \/ CheckOriginal(r) \/ CreateOriginal(r)
  \/ FetchBatch(r) \/ CheckCurrency(r) \/ CreateCurrency(r)
  \/ \E id \in Ids : RefreshBalance(r, id) \/ DeleteAccount(r, id)
  \/ WriteAccount(r)

Others == \E cur \in Currencies : AddCurrency(cur) \/ WithdrawCurrency(cur)

Next == Others \/ \E r \in Requests : Step(r)
Spec == Init /\ [][Next]_vars
-----------------------------------------------------------------------------
CollectionOK ==
  /\ accounts \in Seq(Account) /\ Len(accounts) <= MaxAccounts
  /\ listed \in Seq(Currencies)
  /\ moves \in 0..MaxMoves

\* Two living accounts with the same address and currency are there only
\* because two imports overlapped: the later one had looked before the earlier
\* account was created.  So one import never makes the same account twice.
DuplicatesOverlap ==
  \A i, j \in Ids :
    /\ i < j /\ ~accounts[i].deleted /\ ~accounts[j].deleted
    /\ accounts[i].addr = accounts[j].addr /\ accounts[i].cur = accounts[j].cur
    /\ accounts[i].cur # None
    => accounts[j].mark < i /\ accounts[i].by # accounts[j].by

Has(cur) == \E i \in Ids : accounts[i].cur = cur
Succeeded(r) == Is(r, "report") /\ call[r].status = "success" /\ ~call[r].panicked

\* A report of success without a panic names every account the import made but
\* those whose insert seemed to fail, and there has been an account for every
\* currency listed from the start on the chain of an original, unless a call for
\* it failed or a listed currency was withdrawn, which moves the batches.
SuccessIsComplete ==
  \A r \in Requests :
    Succeeded(r) =>
      /\ \A i \in call[r].ids : accounts[i].by = r
      /\ \A i \in Ids \ call[r].ids : accounts[i].by = r => accounts[i].cur \in call[r].missed
      /\ call[r].moved \/ \A cur \in call[r].offered \ call[r].missed :
            OnChain(call[r], cur) # {} => Has(cur)

\* A deleted account stays deleted, although a refresh that read it before
\* writes it back after.
AccountsStayDeleted ==
  [][\A i \in Ids : accounts[i].deleted => accounts'[i].deleted]_vars

\* What makes the first and the last hold of every step: up to its mark, a
\* request that is about to create an account knows of none like it, and after
\* that it has made none; and one that writes an account back knows its keys.
Wanted(c) ==
  IF c.at = "create" THEN c.given[c.pos]
  ELSE [addr |-> Lender(c, Head(c.todo)).addr, cur |-> Head(c.todo)]

ImportInv(r) ==
  Is(r, "import") =>
    /\ DOMAIN call[r] = {"kind", "given", "at", "pos", "todo", "read", "ids", "mark",
                         "offered", "missed", "moved"}
    /\ call[r].at \in {"create", "insert"} =>
         /\ call[r].mark \in 0..Len(accounts)
         /\ \A i \in Ids :
              IF i <= call[r].mark
              THEN \/ Wanted(call[r]).cur = None \/ accounts[i].deleted
                   \/ accounts[i].addr # Wanted(call[r]).addr \/ accounts[i].cur # Wanted(call[r]).cur
              ELSE accounts[i].by # r

Keys == {"addr", "cur", "by", "mark"}
WriteInv(r) ==
  Is(r, "account") =>
    /\ call[r].id \in Ids
    /\ DOMAIN call[r].base = Keys \cup {"deleted"}
    /\ \A k \in Keys : call[r].base[k] = accounts[call[r].id][k]

AccountsInv ==
  /\ accounts \in Seq({accounts[i] : i \in Ids})
  /\ \A i \in Ids : DOMAIN accounts[i] = Keys \cup {"deleted"} /\ accounts[i].mark \in Nat
  /\ DuplicatesOverlap
  /\ \A r \in Requests : ImportInv(r) /\ WriteInv(r)

\* What makes the second hold: what a request has made it names or has given
\* up on ...
MadeInv(r) ==
  /\ Is(r, "idle") => \A i \in Ids : accounts[i].by # r
  /\ Is(r, "import") \/ Succeeded(r) =>
       /\ \A i \in call[r].ids : i \in Ids /\ accounts[i].by = r
       /\ \A i \in Ids \ call[r].ids : accounts[i].by = r => accounts[i].cur \in call[r].missed

\* ... there are accounts for the originals it has passed, and a currency that
\* was listed from the start is settled, in the batch, or after it.
Settled(c, cur) == cur \in c.missed \/ Has(cur) \/ OnChain(c, cur) = {}
Coming(c, cur) ==
  \/ \E i \in DOMAIN c.todo : c.todo[i] = cur
  \/ \E i \in DOMAIN listed : i > c.read /\ listed[i] = cur

PlaceInv(c) ==
  /\ c.pos \in 1..Len(c.given) + 1
  /\ c.at = "create" => c.pos <= Len(c.given)
  /\ c.at \in {"batch", "currency", "insert"} => c.pos = Len(c.given) + 1
  /\ c.at \in {"currency", "insert"} <=> c.todo # <<>>
  /\ c.at = "insert" => ~PassedOver(c, Head(c.todo))
PassedInv(c) == \A i \in 1..c.pos - 1 : c.given[i].cur = None \/ Has(c.given[i].cur)
OfferedInv(c) == c.moved \/ \A cur \in c.offered : Settled(c, cur) \/ Coming(c, cur)

ProgressInv(r) ==
  Is(r, "import") => PlaceInv(call[r]) /\ PassedInv(call[r]) /\ OfferedInv(call[r])

SuccessInv == SuccessIsComplete /\ \A r \in Requests : MadeInv(r) /\ ProgressInv(r)
=============================================================================
