----------------------------- MODULE LedgerProofs -----------------------------
(***************************************************************************)
(* Proofs about Ledger, for any users, addresses, plans, codes, prices,    *)
(* limits and any number of requests underway.  The limits rest on the     *)
(* identity an address keeps for good: what was bought under the address   *)
(* is part of what that identity has bought.                               *)
(***************************************************************************)
EXTENDS Ledger, TLAPS

\* The types of what the code keeps, and those of the history.
RowsOK ==
    /\ clock \in 0 .. MaxTime
    /\ account \in [Users -> Accounts]
    /\ alias \in [Emails -> Users \cup {NoUser}]
    /\ purchases \in [Users -> [Plans -> Nat]]
    /\ usage \in [Users -> Nat]
    /\ code \in [Codes -> {"UNUSED", "REDEEMED", "REVOKED"}]
    /\ sub \in [Users -> Subscriptions]
    /\ request \in [Requests -> RequestsType]
    /\ bought \in [Emails -> [Plans -> Nat]]
    /\ redeemed \in [Emails -> Nat]
    /\ admins \in 0 .. MaxAdmin
    /\ bytes \in 0 .. MaxBytes

HistoryOK ==
    /\ fresh \in [Users -> Nat]
    /\ missed \in [Requests -> Nat]
    /\ lost \in [Users -> Nat]

\* Live accounts have addresses of their own.
AddressesOK ==
    /\ \A u \in Users : Live(u) => account[u].email \in Emails
    /\ \A u, v \in Users :
          u # v /\ Live(u) /\ Live(v) => account[u].email # account[v].email

SubsOK ==
    \A u \in Users :
        sub[u] # NoSub => Live(u) /\ sub[u].status # "NONE" /\ sub[u].plan \in Plans

\* A request is one of a user who still has the row it has read.
RequestOK(q) ==
    q.op # "none" =>
        /\ q.user \in Users /\ sub[q.user] # NoSub
        /\ q.op \in {"upgrade", "renew"} => q.plan \in Plans
        /\ q.op = "renew" => q.sub.used = 0 /\ q.sub.status = "ACTIVE"
        /\ q.op = "cancel" => q.sub.status # "NONE"
        /\ q.op = "reset" => /\ q.month <= clock
                             /\ q.sub.period = NoPeriod \/ q.sub.period < q.month

RequestsOK == \A r \in Requests : RequestOK(request[r])

TypeInv == RowsOK /\ AddressesOK /\ SubsOK /\ RequestsOK

-----------------------------------------------------------------------------
\* What the operators of the specification return.

LEMMA AccountUpdates ==
    \A a \in Accounts :
        /\ \A n \in Nat :
              /\ [a EXCEPT !.used = n] \in Accounts
              /\ [a EXCEPT !.used = n].state = a.state
              /\ [a EXCEPT !.used = n].email = a.email
              /\ [a EXCEPT !.used = n].identity = a.identity
              /\ [a EXCEPT !.used = n].balance = a.balance
              /\ [a EXCEPT !.used = n].used = n
              /\ [a EXCEPT !.balance = n] \in Accounts
              /\ [a EXCEPT !.balance = n].state = a.state
              /\ [a EXCEPT !.balance = n].email = a.email
              /\ [a EXCEPT !.balance = n].identity = a.identity
              /\ [a EXCEPT !.balance = n].used = a.used
        /\ \A i \in Users :
              /\ [a EXCEPT !.identity = i] \in Accounts
              /\ [a EXCEPT !.identity = i].state = a.state
              /\ [a EXCEPT !.identity = i].email = a.email
              /\ [a EXCEPT !.identity = i].identity = i
              /\ [a EXCEPT !.identity = i].used = a.used
BY DEF Accounts

LEMMA IdentityType ==
    ASSUME RowsOK, NEW u \in Users, NEW e \in Emails
    PROVE  Identity(u, e) \in Users
BY DEF RowsOK, Identity, Accounts

LEMMA AliasedType ==
    ASSUME RowsOK, NEW u \in Users, NEW e \in Emails
    PROVE  Aliased(u, e) \in [Emails -> Users \cup {NoUser}]
BY IdentityType DEF RowsOK, Aliased

LEMMA NewSubType ==
    ASSUME RowsOK, NEW p \in Plans
    PROVE  /\ NewSub(p) \in Subscriptions
           /\ NewSub(p).status = "ACTIVE"
           /\ NewSub(p).plan = p
           /\ NewSub(p).used = 0
           /\ NewSub(p).period = PeriodStart(p)
           /\ p \in Monthly => NewSub(p).period = clock
<1>1. clock \in Nat /\ Months[p] \in Nat /\ clock + Months[p] \in Nat
  BY PlansAssumption DEF PlansAssumption, RowsOK
<1>2. PeriodStart(p) \in Nat \cup {NoPeriod}
  BY <1>1 DEF PeriodStart
<1> QED
  BY <1>1, <1>2 DEF NewSub, Subscriptions, PeriodStart

LEMMA StatusUpdate ==
    ASSUME NEW s \in Subscriptions,
           NEW x \in {"NONE", "ACTIVE", "CANCELED", "EXPIRED", "REVOKED"}
    PROVE  /\ [s EXCEPT !.status = x] \in Subscriptions
           /\ [s EXCEPT !.status = x].status = x
           /\ [s EXCEPT !.status = x].plan = s.plan
           /\ [s EXCEPT !.status = x].used = s.used
           /\ [s EXCEPT !.status = x].period = s.period
BY DEF Subscriptions

LEMMA CountedType ==
    ASSUME RowsOK, NEW u \in Users, NEW m \in Nat
    PROVE  /\ Counted(sub[u], m) \in Subscriptions
           /\ Counted(sub[u], m).status = sub[u].status
           /\ Counted(sub[u], m).plan = sub[u].plan
           /\ Counted(sub[u], m).used = IF Started(sub[u], m) THEN 1 ELSE sub[u].used + 1
           /\ Counted(sub[u], m).period =
                 IF Started(sub[u], m) \/ Unstarted(sub[u]) THEN m ELSE sub[u].period
<1>1. PICK s \in Subscriptions : s = sub[u]
  BY DEF RowsOK
<1>2. s.used + 1 \in Nat /\ 1 \in Nat /\ s.period \in Nat \cup {NoPeriod}
  BY DEF Subscriptions
<1>3. PICK n \in Nat, t \in Nat \cup {NoPeriod} :
          /\ n = IF Started(s, m) THEN 1 ELSE s.used + 1
          /\ t = IF Started(s, m) \/ Unstarted(s) THEN m ELSE s.period
  BY <1>2
<1>4. Counted(s, m) = [s EXCEPT !.used = n, !.period = t]
  BY <1>3 DEF Counted
<1>5. /\ [s EXCEPT !.used = n, !.period = t] \in Subscriptions
      /\ [s EXCEPT !.used = n, !.period = t].status = s.status
      /\ [s EXCEPT !.used = n, !.period = t].plan = s.plan
      /\ [s EXCEPT !.used = n, !.period = t].used = n
      /\ [s EXCEPT !.used = n, !.period = t].period = t
  BY DEF Subscriptions
<1> QED
  BY <1>1, <1>3, <1>4, <1>5

LEMMA ClaimType ==
    ASSUME RowsOK, NEW u \in Users, NEW e \in Emails, NEW p \in Plans, Claim(u, e, p)
    PROVE  /\ purchases' \in [Users -> [Plans -> Nat]]
           /\ purchases'[Identity(u, e)][p] = purchases[Identity(u, e)][p] + 1
           /\ \A i \in Users, q \in Plans : purchases[i][q] <= purchases'[i][q]
<1>1. PICK i \in Users : i = Identity(u, e)
  BY IdentityType
<1>2. purchases' = [purchases EXCEPT ![i][p] = @ + 1]
  BY <1>1 DEF Claim
<1>3. purchases[i][p] + 1 \in Nat
  BY DEF RowsOK
<1> QED
  BY <1>1, <1>2, <1>3 DEF RowsOK

LEMMA LimitedClaimType ==
    ASSUME RowsOK, NEW u \in Users, NEW e \in Emails, NEW p \in Plans, LimitedClaim(u, e, p)
    PROVE  bought' \in [Emails -> [Plans -> Nat]]
<1>1. bought[e][p] + 1 \in Nat
  BY DEF RowsOK
<1> QED
  BY <1>1 DEF RowsOK, LimitedClaim

\* A user's row after a payment.
LEMMA SubscribedType ==
    ASSUME RowsOK, NEW u \in Users, account[u].email \in Emails,
           NEW s \in Subscriptions, NEW price \in Nat, Subscribed(u, s, price)
    PROVE  /\ sub' \in [Users -> Subscriptions] /\ sub'[u] = s
           /\ account' \in [Users -> Accounts]
           /\ account'[u].state = account[u].state
           /\ account'[u].email = account[u].email
           /\ account'[u].identity = Identity(u, account[u].email)
           /\ account'[u].used = s.used
           /\ \A v \in Users \ {u} : account'[v] = account[v] /\ sub'[v] = sub[v]
           /\ alias' \in [Emails -> Users \cup {NoUser}]
           /\ alias' = Aliased(u, account[u].email)
<1>1. PICK i \in Users : i = Identity(u, account[u].email)
  BY IdentityType
<1>2. PICK a \in Accounts : a = account[u]
  BY DEF RowsOK
<1>3. PICK b \in Nat : b = a.balance - price
  BY <1>2 DEF Subscribed, Affordable, Accounts
<1>4. PICK n \in Nat : n = s.used
  BY DEF Subscriptions
<1>5. account' = [account EXCEPT ![u] = [[[a EXCEPT !.used = n] EXCEPT !.balance = b] EXCEPT !.identity = i]]
  <2>1. account' = [[account EXCEPT ![u].used = n] EXCEPT ![u].balance = @ - price, ![u].identity = i]
    BY <1>1, <1>4 DEF Subscribed, Mirrored
  <2>2. [a EXCEPT !.used = n].balance = a.balance
    BY AccountUpdates
  <2> QED
    BY <1>2, <1>3, <2>1, <2>2 DEF RowsOK
<1>6. PICK x \in Accounts :
          /\ x = [[[a EXCEPT !.used = n] EXCEPT !.balance = b] EXCEPT !.identity = i]
          /\ x.state = a.state /\ x.email = a.email /\ x.identity = i /\ x.used = n
  <2>1. PICK y \in Accounts :
            /\ y = [a EXCEPT !.used = n]
            /\ y.state = a.state /\ y.email = a.email /\ y.used = n
    BY AccountUpdates
  <2>2. PICK z \in Accounts :
            /\ z = [y EXCEPT !.balance = b]
            /\ z.state = y.state /\ z.email = y.email /\ z.used = y.used
    <3>1. /\ [y EXCEPT !.balance = b] \in Accounts
          /\ [y EXCEPT !.balance = b].state = y.state
          /\ [y EXCEPT !.balance = b].email = y.email
          /\ [y EXCEPT !.balance = b].used = y.used
      BY DEF Accounts
    <3> QED
      BY <3>1
  <2>3. PICK x \in Accounts :
            /\ x = [z EXCEPT !.identity = i]
            /\ x.state = z.state /\ x.email = z.email /\ x.identity = i /\ x.used = z.used
    <3>1. /\ [z EXCEPT !.identity = i] \in Accounts
          /\ [z EXCEPT !.identity = i].state = z.state
          /\ [z EXCEPT !.identity = i].email = z.email
          /\ [z EXCEPT !.identity = i].identity = i
          /\ [z EXCEPT !.identity = i].used = z.used
      BY DEF Accounts
    <3> QED
      BY <3>1
  <2> QED
    BY <2>1, <2>2, <2>3
<1>7. account' = [account EXCEPT ![u] = x]
  BY <1>5, <1>6
<1>8. sub' = [sub EXCEPT ![u] = s] /\ alias' = Aliased(u, account[u].email)
  BY DEF Subscribed
<1>9. alias' \in [Emails -> Users \cup {NoUser}]
  BY <1>8, AliasedType
<1> QED
  BY <1>1, <1>2, <1>4, <1>6, <1>7, <1>8, <1>9 DEF RowsOK

LEMMA MirroredType ==
    ASSUME RowsOK, NEW u \in Users, NEW n \in Nat
    PROVE  /\ Mirrored(u, n) \in [Users -> Accounts]
           /\ Mirrored(u, n)[u].used = n
           /\ \A v \in Users : /\ Mirrored(u, n)[v].state = account[v].state
                               /\ Mirrored(u, n)[v].email = account[v].email
                               /\ Mirrored(u, n)[v].identity = account[v].identity
                               /\ Mirrored(u, n)[v].balance = account[v].balance
                               /\ v # u => Mirrored(u, n)[v] = account[v]
<1>0. PICK a \in Accounts : a = account[u]
  BY DEF RowsOK
<1>1. PICK x \in Accounts :
          /\ x = [a EXCEPT !.used = n]
          /\ x.state = a.state /\ x.email = a.email
          /\ x.identity = a.identity /\ x.balance = a.balance
          /\ x.used = n
  BY AccountUpdates
<1>2. Mirrored(u, n) = [account EXCEPT ![u] = x]
  BY <1>0, <1>1 DEF Mirrored, RowsOK
<1> QED
  BY <1>0, <1>1, <1>2 DEF RowsOK

LEMMA NoSubType == NoSub \in Subscriptions
BY DEF NoSub, Subscriptions

LEMMA NoRequestType == NoRequest \in RequestsType /\ NoRequest.op = "none"
BY NoSubType DEF NoRequest, RequestsType

LEMMA AskedType ==
    ASSUME RowsOK, NEW r \in Requests, NEW op, Asked(r, op)
    PROVE  /\ request' \in [Requests -> RequestsType]
           /\ \A q \in Requests : request'[q] \in {NoRequest, request[q]}
           /\ request[r].op = op
BY NoRequestType DEF RowsOK, Asked

LEMMA GrantedType ==
    ASSUME RowsOK, Granted
    PROVE  admins' \in 0 .. MaxAdmin
BY OthersAssumption DEF OthersAssumption, RowsOK, Granted

-----------------------------------------------------------------------------
\* Types.

LEMMA InitTypeInv == Init => TypeInv
<1> SUFFICES ASSUME Init PROVE TypeInv
  OBVIOUS
<1>1. NoAccount \in Accounts /\ NoAccount.state = "none"
  BY DEF NoAccount, Accounts
<1>2. NoSub \in Subscriptions
  BY DEF NoSub, Subscriptions
<1>3. RowsOK
  BY <1>1, <1>2, NoRequestType, OthersAssumption DEF OthersAssumption, Init, RowsOK
<1>4. AddressesOK /\ SubsOK
  BY <1>1 DEF Init, AddressesOK, SubsOK, Live
<1>5. RequestsOK
  BY NoRequestType DEF Init, RequestsOK, RequestOK
<1> QED
  BY <1>3, <1>4, <1>5 DEF TypeInv

\* A step that leaves the accounts and their addresses, and lets requests end.
LEMMA PeopleKept ==
    ASSUME TypeInv, RowsOK',
           \A u \in Users : /\ account'[u].state = account[u].state
                            /\ account'[u].email = account[u].email,
           \A r \in Requests : request'[r] \in {NoRequest, request[r]},
           \A u \in Users :
              \/ sub'[u] = sub[u]
              \/ Live(u) /\ sub'[u].status # "NONE" /\ sub'[u].plan \in Plans,
           clock <= clock'
    PROVE  TypeInv'
<1>1. AddressesOK'
  BY DEF TypeInv, AddressesOK, Live
<1>2. SubsOK'
  BY DEF TypeInv, SubsOK, Live
<1>3. ASSUME NEW r \in Requests PROVE RequestOK(request[r])'
  <2>1. CASE request'[r] = NoRequest
    BY <2>1, NoRequestType DEF RequestOK
  <2>2. CASE request'[r] = request[r] /\ request[r].op = "none"
    BY <2>2 DEF RequestOK
  <2>3. CASE request'[r] = request[r] /\ request[r].op # "none"
    <3>1. RequestOK(request[r])
      BY DEF TypeInv, RequestsOK
    <3>2. request[r].user \in Users /\ sub[request[r].user] # NoSub
      BY <2>3, <3>1 DEF RequestOK
    <3>3. sub'[request[r].user] # NoSub
      BY <3>2 DEF NoSub
    <3>4. request[r].op = "reset" => request[r].month <= clock'
      <4>1. request[r].op = "reset" => request[r].month <= clock /\ request[r].month \in Nat
        BY <2>3, <3>1 DEF RequestOK, TypeInv, RowsOK, RequestsType
      <4>2. clock \in Nat /\ clock' \in Nat
        BY DEF TypeInv, RowsOK
      <4> QED
        BY <4>1, <4>2
    <3> QED
      BY <2>3, <3>1, <3>2, <3>3, <3>4 DEF RequestOK
  <2> QED
    BY <2>1, <2>2, <2>3
<1> QED
  BY <1>1, <1>2, <1>3 DEF TypeInv, RequestsOK

\* A handler that has read.
LEMMA AskType ==
    ASSUME TypeInv, NEW r \in Requests, NEW q \in RequestsType, Ask(r, q),
           q.op # "none", RequestOK(q)
    PROVE  TypeInv'
<1>1. /\ request' = [request EXCEPT ![r] = q]
      /\ UNCHANGED <<clock, account, alias, purchases, bought, code, usage, redeemed, sub,
                     admins, bytes>>
  BY DEF Ask, people, counts, codes, bounds
<1>2. RowsOK'
  BY <1>1 DEF TypeInv, RowsOK
<1>3. AddressesOK' /\ SubsOK'
  BY <1>1 DEF TypeInv, AddressesOK, SubsOK, Live
<1>4. \A p \in Requests : RequestOK(request[p])'
  <2>1. ASSUME NEW p \in Requests PROVE RequestOK(request[p])'
    <3>1. request'[p] = IF p = r THEN q ELSE request[p]
      BY <1>1 DEF TypeInv, RowsOK
    <3>2. RequestOK(request[p])
      BY DEF TypeInv, RequestsOK
    <3> QED
      BY <1>1, <3>1, <3>2 DEF RequestOK
  <2> QED
    BY <2>1
<1> QED
  BY <1>2, <1>3, <1>4 DEF TypeInv, RequestsOK

LEMMA NextTypeInv == TypeInv /\ [Next]_vars => TypeInv'
<1> SUFFICES ASSUME TypeInv, [Next]_vars PROVE TypeInv'
  OBVIOUS
<1>0. RowsOK
  BY DEF TypeInv
<1>1. \A u \in Users : Live(u) => account[u].email \in Emails
  BY DEF TypeInv, AddressesOK
<1>2. \A u \in Users : sub[u] # NoSub => Live(u) /\ sub[u].status # "NONE" /\ sub[u].plan \in Plans
  BY DEF TypeInv, SubsOK
<1>3. \A r \in Requests : RequestOK(request[r])
  BY DEF TypeInv, RequestsOK
<1>4. \A p \in Plans : Price[p] \in Nat
  BY PlansAssumption DEF PlansAssumption
<1>5. clock \in Nat /\ clock <= clock
  BY <1>0 DEF RowsOK
<1>6. \A u \in Users : /\ account[u] \in Accounts /\ sub[u] \in Subscriptions
                       /\ account[u].identity \in Users \cup {NoUser}
  BY <1>0 DEF RowsOK, Accounts
<1>7. CASE \E u \in Users, p \in Plans : Subscribe(u, p)
  <2>1. PICK u \in Users, p \in Plans : Subscribe(u, p)
    BY <1>7
  <2>2. PICK e \in Emails : e = account[u].email
    BY <1>1, <2>1 DEF Subscribe
  <2>3. /\ LimitedClaim(u, e, p) /\ Claim(u, e, p) /\ Subscribed(u, NewSub(p), Price[p]) /\ Live(u)
        /\ UNCHANGED <<clock, code, usage, redeemed, request, admins, bytes>>
    BY <2>1, <2>2 DEF Subscribe, LimitedClaim, codes, bounds
  <2>4. RowsOK'
    BY <1>0, <1>4, <2>2, <2>3, NewSubType, SubscribedType, ClaimType, LimitedClaimType DEF RowsOK
  <2> QED
    BY <1>0, <1>4, <1>5, <2>2, <2>3, <2>4, NewSubType, SubscribedType, PeopleKept
<1>8. CASE \E r \in Requests : Upgrade(r)
  <2>1. PICK r \in Requests : Upgrade(r)
    BY <1>8
  <2>2. Asked(r, "upgrade") /\ request[r].op = "upgrade"
    BY <2>1 DEF Upgrade, Asked
  <2>3. PICK u \in Users, p \in Plans : u = request[r].user /\ p = request[r].plan /\ sub[u] # NoSub
    BY <1>3, <2>2 DEF RequestOK
  <2>4. PICK e \in Emails : e = account[u].email /\ Live(u)
    BY <1>1, <1>2, <2>3
  <2>5. /\ LimitedClaim(u, e, p) /\ Claim(u, e, p) /\ Subscribed(u, NewSub(p), Price[p])
        /\ UNCHANGED <<clock, code, usage, redeemed, admins, bytes>>
    BY <2>1, <2>3, <2>4 DEF Upgrade, LimitedClaim, codes, bounds
  <2>6. RowsOK'
    BY <1>0, <1>4, <2>2, <2>4, <2>5, NewSubType, SubscribedType, ClaimType, LimitedClaimType,
       AskedType DEF RowsOK
  <2> QED
    BY <1>0, <1>4, <1>5, <2>2, <2>4, <2>5, <2>6, NewSubType, SubscribedType, AskedType, PeopleKept
<1>9. CASE \E u \in Users, p \in Plans : AdminAssign(u, p)
  <2>1. PICK u \in Users, p \in Plans : AdminAssign(u, p)
    BY <1>9
  <2>2. PICK e \in Emails : e = account[u].email /\ Live(u)
    BY <1>1, <2>1 DEF AdminAssign
  <2>3. /\ Claim(u, e, p) /\ Subscribed(u, NewSub(p), 0) /\ Granted /\ 0 \in Nat
        /\ UNCHANGED <<clock, bought, code, usage, redeemed, request, bytes>>
    BY <2>1, <2>2 DEF AdminAssign, codes
  <2>4. RowsOK'
    BY <1>0, <2>2, <2>3, NewSubType, SubscribedType, ClaimType, GrantedType DEF RowsOK
  <2> QED
    BY <1>0, <1>5, <2>2, <2>3, <2>4, NewSubType, SubscribedType, PeopleKept
<1>10. CASE \E r \in Requests : Renew(r)
  <2>1. PICK r \in Requests : Renew(r)
    BY <1>10
  <2>2. Asked(r, "renew") /\ request[r].op = "renew"
    BY <2>1 DEF Renew, Asked
  <2>3. PICK u \in Users, p \in Plans : u = request[r].user /\ p = request[r].plan /\ sub[u] # NoSub
    BY <1>3, <2>2 DEF RequestOK
  <2>4. PICK s \in Subscriptions : s = request[r].sub /\ s.status = "ACTIVE"
    BY <1>0, <1>3, <2>2 DEF RequestOK, RowsOK, RequestsType
  <2>5. sub[u].plan \in Plans /\ Live(u)
    BY <1>2, <2>3
  <2>6. PICK x \in Subscriptions :
            x = [s EXCEPT !.plan = sub[u].plan] /\ x.status = "ACTIVE" /\ x.plan \in Plans
    <3>1. /\ [s EXCEPT !.plan = sub[u].plan] \in Subscriptions
          /\ [s EXCEPT !.plan = sub[u].plan].status = "ACTIVE"
          /\ [s EXCEPT !.plan = sub[u].plan].plan \in Plans
      BY <2>4, <2>5 DEF Subscriptions
    <3> QED
      BY <3>1
  <2>7. sub' = [sub EXCEPT ![u] = x]
    BY <2>1, <2>3, <2>4, <2>6 DEF Renew
  <2>8. PICK b \in Nat : b = account[u].balance - Price[p]
    BY <1>4, <1>6, <2>1, <2>3 DEF Renew, Affordable, Accounts
  <2>9. /\ Mirrored(u, 0) \in [Users -> Accounts]
        /\ Mirrored(u, 0)[u].balance = account[u].balance
        /\ \A v \in Users : /\ Mirrored(u, 0)[v].state = account[v].state
                            /\ Mirrored(u, 0)[v].email = account[v].email
    BY <1>0, MirroredType
  <2>10. account' = [Mirrored(u, 0) EXCEPT ![u] = [Mirrored(u, 0)[u] EXCEPT !.balance = b]]
    BY <2>1, <2>3, <2>8, <2>9 DEF Renew
  <2>11. /\ [Mirrored(u, 0)[u] EXCEPT !.balance = b] \in Accounts
         /\ [Mirrored(u, 0)[u] EXCEPT !.balance = b].state = Mirrored(u, 0)[u].state
         /\ [Mirrored(u, 0)[u] EXCEPT !.balance = b].email = Mirrored(u, 0)[u].email
    BY <2>9, AccountUpdates
  <2>12. /\ account' \in [Users -> Accounts]
         /\ \A v \in Users : /\ account'[v].state = account[v].state
                             /\ account'[v].email = account[v].email
    BY <2>9, <2>10, <2>11
  <2>13. UNCHANGED <<clock, alias, purchases, bought, code, usage, redeemed, admins, bytes>>
    BY <2>1 DEF Renew, counts, codes, bounds
  <2>14. RowsOK'
    BY <1>0, <2>2, <2>7, <2>12, <2>13, AskedType DEF RowsOK
  <2>15. \A v \in Users : sub'[v] = sub[v] \/ (v = u /\ sub'[v] = x)
    BY <1>0, <2>7 DEF RowsOK
  <2> QED
    BY <1>0, <1>5, <2>2, <2>5, <2>6, <2>12, <2>13, <2>14, <2>15, AskedType, PeopleKept
<1>11. CASE \E r \in Requests : Cancel(r)
  <2>1. PICK r \in Requests : Cancel(r)
    BY <1>11
  <2>2. Asked(r, "cancel") /\ request[r].op = "cancel"
    BY <2>1 DEF Cancel, Asked
  <2>3. PICK u \in Users : u = request[r].user /\ sub[u] # NoSub
    BY <1>3, <2>2 DEF RequestOK
  <2>4. PICK x \in {"NONE", "ACTIVE", "CANCELED", "EXPIRED", "REVOKED"} :
            x = request[r].sub.status /\ x # "NONE"
    BY <1>0, <1>3, <2>2 DEF RequestOK, RowsOK, RequestsType, Subscriptions
  <2>5. sub' = [sub EXCEPT ![u] = [sub[u] EXCEPT !.status = x]]
    BY <1>0, <2>1, <2>3, <2>4 DEF Cancel, RowsOK
  <2>6. /\ [sub[u] EXCEPT !.status = x] \in Subscriptions
        /\ [sub[u] EXCEPT !.status = x].status = x
        /\ [sub[u] EXCEPT !.status = x].plan = sub[u].plan
    BY <1>6, StatusUpdate
  <2>7. UNCHANGED <<clock, account, alias, purchases, bought, code, usage, redeemed,
                    admins, bytes>>
    BY <2>1 DEF Cancel, people, counts, codes, bounds
  <2>8. RowsOK'
    BY <1>0, <2>2, <2>5, <2>6, <2>7, AskedType DEF RowsOK
  <2>9. \A v \in Users : sub'[v] = sub[v] \/ (v = u /\ sub'[v].status = x /\ sub'[v].plan = sub[u].plan)
    BY <1>0, <2>5, <2>6 DEF RowsOK
  <2> QED
    BY <1>0, <1>2, <1>5, <2>2, <2>3, <2>4, <2>7, <2>8, <2>9, AskedType, PeopleKept
<1>12. CASE \E r \in Requests : AdminUpdate(r)
  <2>1. PICK r \in Requests : AdminUpdate(r)
    BY <1>12
  <2>2. Asked(r, "admin") /\ request[r].op = "admin" /\ Granted
    BY <2>1 DEF AdminUpdate, Asked
  <2>3. PICK u \in Users : u = request[r].user /\ sub[u] # NoSub
    BY <1>3, <2>2 DEF RequestOK
  <2>4. PICK read \in Subscriptions, p \in Plans \cup {NoPlan} :
            read = request[r].sub /\ p = request[r].plan
    BY <1>0 DEF RowsOK, RequestsType
  <2>5. PICK e \in Emails : e = account[u].email /\ Live(u) /\ sub[u].status # "NONE" /\ sub[u].plan \in Plans
    BY <1>1, <1>2, <2>3
  <2>6. PICK x \in Subscriptions :
            x.status # "NONE" /\ x.plan \in Plans /\ sub' = [sub EXCEPT ![u] = x]
    <3>1. PICK x : x = [status |-> IF read.status = "NONE" THEN sub[u].status ELSE read.status,
                        plan |-> IF p = NoPlan THEN sub[u].plan ELSE p,
                        expire |-> read.expire, used |-> read.used,
                        period |-> IF p = NoPlan THEN sub[u].period ELSE PeriodStart(p)]
      OBVIOUS
    <3>2. sub' = [sub EXCEPT ![u] = x]
      BY <1>0, <2>1, <2>3, <2>4, <3>1 DEF AdminUpdate, RowsOK
    <3>3. PeriodStart(p) \in Nat \cup {NoPeriod}
      BY <1>5 DEF PeriodStart
    <3>4. x \in Subscriptions /\ x.status # "NONE" /\ x.plan \in Plans
      BY <1>6, <2>5, <3>1, <3>3 DEF Subscriptions
    <3> QED
      BY <3>2, <3>4
  <2>7. PICK n \in Nat : n = read.used
    BY DEF Subscriptions
  <2>8. /\ Mirrored(u, n) \in [Users -> Accounts]
        /\ \A v \in Users : /\ Mirrored(u, n)[v].state = account[v].state
                            /\ Mirrored(u, n)[v].email = account[v].email
    BY <1>0, MirroredType
  <2>9. /\ account' \in [Users -> Accounts]
        /\ \A v \in Users : /\ account'[v].state = account[v].state
                            /\ account'[v].email = account[v].email
        /\ alias' \in [Emails -> Users \cup {NoUser}]
        /\ purchases' \in [Users -> [Plans -> Nat]]
    <3>1. CASE p \in {NoPlan, read.plan}
      <4>1. account' = Mirrored(u, n) /\ UNCHANGED <<alias, purchases>>
        BY <2>1, <2>3, <2>4, <2>7, <3>1 DEF AdminUpdate
      <4> QED
        BY <1>0, <2>8, <4>1 DEF RowsOK
    <3>2. CASE p \notin {NoPlan, read.plan}
      <4>1. PICK i \in Users : i = Identity(u, e)
        BY <1>0, IdentityType
      <4>2. /\ account' = [Mirrored(u, n) EXCEPT ![u] = [Mirrored(u, n)[u] EXCEPT !.identity = i]]
            /\ alias' = Aliased(u, e) /\ Claim(u, e, p) /\ p \in Plans
        BY <2>1, <2>3, <2>4, <2>5, <2>7, <2>8, <3>2, <4>1 DEF AdminUpdate
      <4>3. /\ [Mirrored(u, n)[u] EXCEPT !.identity = i] \in Accounts
            /\ [Mirrored(u, n)[u] EXCEPT !.identity = i].state = Mirrored(u, n)[u].state
            /\ [Mirrored(u, n)[u] EXCEPT !.identity = i].email = Mirrored(u, n)[u].email
        BY <2>8, AccountUpdates
      <4> QED
        BY <1>0, <2>8, <4>2, <4>3, AliasedType, ClaimType
    <3> QED
      BY <3>1, <3>2
  <2>11. UNCHANGED <<clock, bought, code, usage, redeemed, bytes>>
    BY <2>1 DEF AdminUpdate, codes
  <2>12. RowsOK'
    BY <1>0, <2>2, <2>6, <2>9, <2>11, AskedType, GrantedType DEF RowsOK
  <2>13. \A v \in Users : sub'[v] = sub[v] \/ (v = u /\ sub'[v] = x)
    BY <1>0, <2>6 DEF RowsOK
  <2> QED
    BY <1>0, <1>5, <2>2, <2>5, <2>6, <2>9, <2>11, <2>12, <2>13, AskedType, PeopleKept
<1>13. CASE \E r \in Requests : Reset(r)
  <2>1. PICK r \in Requests : Reset(r)
    BY <1>13
  <2>2. Asked(r, "reset") /\ request[r].op = "reset"
    BY <2>1 DEF Reset, Asked
  <2>3. PICK u \in Users : u = request[r].user /\ sub[u] # NoSub
    BY <1>3, <2>2 DEF RequestOK
  <2>4. PICK n \in Nat, m \in Nat :
            /\ n = IF request[r].sub.period = NoPeriod THEN sub[u].used ELSE 0
            /\ m = request[r].month
    BY <1>0, <1>6 DEF RowsOK, RequestsType, Subscriptions
  <2>5. PICK x \in Subscriptions :
            /\ x = [sub[u] EXCEPT !.used = n, !.period = m]
            /\ x.status = sub[u].status /\ x.plan = sub[u].plan
    <3>1. PICK s \in Subscriptions : s = sub[u]
      BY <1>6
    <3>2. /\ [s EXCEPT !.used = n, !.period = m] \in Subscriptions
          /\ [s EXCEPT !.used = n, !.period = m].status = s.status
          /\ [s EXCEPT !.used = n, !.period = m].plan = s.plan
      BY DEF Subscriptions
    <3> QED
      BY <3>1, <3>2
  <2>6. sub' = sub \/ sub' = [sub EXCEPT ![u] = x]
    <3>1. CASE sub' = [sub EXCEPT ![u].period = m, ![u].used = n]
      <4>1. sub' = [sub EXCEPT ![u] = [[sub[u] EXCEPT !.period = m] EXCEPT !.used = n]]
        BY <1>0, <3>1 DEF RowsOK
      <4>2. [[sub[u] EXCEPT !.period = m] EXCEPT !.used = n] = x
        BY <1>6, <2>5 DEF Subscriptions
      <4> QED
        BY <4>1, <4>2
    <3>2. CASE sub' = sub
      BY <3>2
    <3>3. sub[u].used = [sub[u] EXCEPT !.period = m].used
      BY <1>6 DEF Subscriptions
    <3> QED
      BY <1>0, <2>1, <2>3, <2>4, <3>1, <3>2, <3>3 DEF Reset, RowsOK
  <2>7. account' = account \/ account' = Mirrored(u, 0)
    BY <2>1, <2>3 DEF Reset
  <2>8. /\ account' \in [Users -> Accounts]
        /\ \A v \in Users : /\ account'[v].state = account[v].state
                            /\ account'[v].email = account[v].email
    BY <1>0, <2>7, MirroredType DEF RowsOK
  <2>9. UNCHANGED <<clock, alias, purchases, bought, code, usage, redeemed, admins, bytes>>
    BY <2>1 DEF Reset, counts, codes, bounds
  <2>10. RowsOK'
    BY <1>0, <2>2, <2>6, <2>8, <2>9, AskedType DEF RowsOK
  <2>11. \A v \in Users : sub'[v] = sub[v] \/ (v = u /\ sub'[v] = x)
    BY <1>0, <2>6 DEF RowsOK
  <2> QED
    BY <1>0, <1>2, <1>5, <2>2, <2>3, <2>5, <2>8, <2>9, <2>10, <2>11, AskedType, PeopleKept
<1>14. CASE \E r \in Requests : Fails(r)
  <2>1. PICK r \in Requests : Fails(r)
    BY <1>14
  <2>2. /\ request' \in [Requests -> RequestsType]
        /\ \A q \in Requests : request'[q] \in {NoRequest, request[q]}
    BY <1>0, <2>1, NoRequestType DEF Fails, RowsOK
  <2>3. UNCHANGED <<clock, account, alias, purchases, bought, code, usage, redeemed, sub,
                    admins, bytes>>
    BY <2>1 DEF Fails, people, counts, codes, bounds
  <2>4. RowsOK'
    BY <1>0, <2>2, <2>3 DEF RowsOK
  <2> QED
    BY <1>5, <2>2, <2>3, <2>4, PeopleKept
<1>15. CASE \E r \in Requests, u \in Users, p \in Plans : AskUpgrade(r, u, p)
  <2>1. PICK r \in Requests, u \in Users, p \in Plans : AskUpgrade(r, u, p)
    BY <1>15
  <2>2. PICK q : q = [NoRequest EXCEPT !.op = "upgrade", !.user = u, !.plan = p]
    OBVIOUS
  <2>3. /\ q \in RequestsType /\ q.op = "upgrade" /\ q.user = u /\ q.plan = p
    BY <2>2, NoRequestType DEF RequestsType
  <2>4. Ask(r, q) /\ sub[u] # NoSub
    BY <2>1, <2>2, <2>3 DEF AskUpgrade, Ask
  <2>5. RequestOK(q)
    BY <2>3, <2>4 DEF RequestOK
  <2> QED
    BY <2>3, <2>4, <2>5, AskType
<1>16. CASE \E r \in Requests, u \in Users : AskRenewal(r, u)
  <2>1. PICK r \in Requests, u \in Users : AskRenewal(r, u)
    BY <1>16
  <2>2. PICK p \in Plans : p = sub[u].plan
    BY <2>1, PlansAssumption DEF AskRenewal, PlansAssumption
  <2>3. PICK n \in Nat : n = (IF sub[u].expire > clock THEN sub[u].expire ELSE clock) + Months[p]
    BY <1>5, <1>6, PlansAssumption DEF PlansAssumption, Subscriptions
  <2>4. PICK s \in Subscriptions :
            s = [NewSub(p) EXCEPT !.expire = n] /\ s.used = 0 /\ s.status = "ACTIVE"
    <3>1. /\ [NewSub(p) EXCEPT !.expire = n] \in Subscriptions
          /\ [NewSub(p) EXCEPT !.expire = n].used = 0
          /\ [NewSub(p) EXCEPT !.expire = n].status = "ACTIVE"
      BY <1>0, NewSubType DEF Subscriptions
    <3> QED
      BY <3>1
  <2>5. PICK q : q = [NoRequest EXCEPT !.op = "renew", !.user = u, !.plan = p, !.sub = s]
    OBVIOUS
  <2>6. q \in RequestsType /\ q.op = "renew" /\ q.user = u /\ q.plan = p /\ q.sub = s
    BY <2>5, NoRequestType DEF RequestsType
  <2>7. Ask(r, q) /\ sub[u] # NoSub
    BY <2>1, <2>2, <2>3, <2>4, <2>5, <2>6 DEF AskRenewal, Ask
  <2>8. RequestOK(q)
    BY <2>4, <2>6, <2>7 DEF RequestOK
  <2> QED
    BY <2>6, <2>7, <2>8, AskType
<1>17. CASE \E r \in Requests, u \in Users : AskCancel(r, u)
  <2>1. PICK r \in Requests, u \in Users : AskCancel(r, u)
    BY <1>17
  <2>2. PICK x \in {"EXPIRED", "CANCELED"} :
            x = IF sub[u].expire <= clock THEN "EXPIRED" ELSE "CANCELED"
    OBVIOUS
  <2>3. PICK s \in Subscriptions : s = [NoSub EXCEPT !.status = x] /\ s.status # "NONE"
    BY NoSubType, StatusUpdate
  <2>4. PICK q : q = [NoRequest EXCEPT !.op = "cancel", !.user = u, !.sub = s]
    OBVIOUS
  <2>5. q \in RequestsType /\ q.op = "cancel" /\ q.user = u /\ q.sub = s
    BY <2>4, NoRequestType DEF RequestsType
  <2>6. q = [NoRequest EXCEPT !.op = "cancel", !.user = u, !.sub.status = x]
    BY <2>3, <2>4 DEF NoRequest
  <2>7. Ask(r, q) /\ sub[u] # NoSub
    BY <2>1, <2>2, <2>5, <2>6 DEF AskCancel, Ask
  <2>8. RequestOK(q)
    BY <2>3, <2>5, <2>7 DEF RequestOK
  <2> QED
    BY <2>5, <2>7, <2>8, AskType
<1>18. CASE \E r \in Requests, u \in Users, edit \in Edits : AskAdminUpdate(r, u, edit)
  <2>1. PICK r \in Requests, u \in Users, edit \in Edits : AskAdminUpdate(r, u, edit)
    BY <1>18
  <2>2. /\ edit.plan \in Plans \cup {NoPlan} /\ edit.months \in Nat
        /\ edit.status \in {"NONE", "ACTIVE", "CANCELED", "EXPIRED", "REVOKED"}
    BY OthersAssumption DEF OthersAssumption
  <2>3. PICK n \in Nat : n = (IF edit.months > 0 /\ sub[u].expire <= clock THEN clock
                              ELSE sub[u].expire) + edit.months
    BY <1>5, <1>6, <2>2 DEF Subscriptions
  <2>4. PICK s : s = [sub[u] EXCEPT !.status = edit.status, !.expire = n, !.period = NoPeriod]
    OBVIOUS
  <2>5. s \in Subscriptions
    BY <1>6, <2>2, <2>4 DEF Subscriptions
  <2>6. PICK q : q = [op |-> "admin", user |-> u, plan |-> edit.plan, month |-> 0, sub |-> s]
    OBVIOUS
  <2>7. q \in RequestsType /\ q.op = "admin" /\ q.user = u
    BY <2>2, <2>5, <2>6 DEF RequestsType
  <2>8. Ask(r, q) /\ sub[u] # NoSub
    BY <2>1, <2>3, <2>4, <2>6, <2>7 DEF AskAdminUpdate, Ask
  <2>9. RequestOK(q)
    BY <2>7, <2>8 DEF RequestOK
  <2> QED
    BY <2>7, <2>8, <2>9, AskType
<1>19. CASE \E r \in Requests, u \in Users : AskReset(r, u)
  <2>1. PICK r \in Requests, u \in Users : AskReset(r, u)
    BY <1>19
  <2>2. PICK m \in Nat \cup {NoPeriod} : m = sub[u].period
    BY <1>6 DEF Subscriptions
  <2>3. m = NoPeriod \/ m < clock
    BY <2>1, <2>2 DEF AskReset, Started, Unstarted
  <2>4. PICK s \in Subscriptions : s = [NoSub EXCEPT !.period = m] /\ s.period = m
    <3>1. [NoSub EXCEPT !.period = m] \in Subscriptions /\ [NoSub EXCEPT !.period = m].period = m
      BY NoSubType DEF Subscriptions
    <3> QED
      BY <3>1
  <2>5. PICK q : q = [NoRequest EXCEPT !.op = "reset", !.user = u, !.month = clock, !.sub = s]
    OBVIOUS
  <2>6. q \in RequestsType /\ q.op = "reset" /\ q.user = u /\ q.sub = s /\ q.month = clock
    BY <1>5, <2>5, NoRequestType DEF RequestsType
  <2>7. q = [NoRequest EXCEPT !.op = "reset", !.user = u, !.month = clock, !.sub.period = m]
    BY <2>4, <2>5 DEF NoRequest
  <2>8. Ask(r, q) /\ sub[u] # NoSub
    BY <2>1, <2>2, <2>6, <2>7 DEF AskReset, Ask
  <2>9. RequestOK(q)
    BY <1>5, <2>3, <2>4, <2>6, <2>8 DEF RequestOK
  <2> QED
    BY <2>6, <2>8, <2>9, AskType
<1>20. ASSUME NEW u \in Users, RowsOK', request' = Forgotten(u), sub' = [sub EXCEPT ![u] = NoSub],
              clock' = clock, Live(u),
              \A v \in Users : v # u => account'[v] = account[v],
              \/ ~Live(u)'
              \/ Live(u)' /\ account'[u].email = account[u].email
       PROVE  TypeInv'
  <2>1. AddressesOK'
    <3>1. \A v \in Users : Live(v)' => Live(v) /\ account'[v].email = account[v].email
      BY <1>20 DEF Live
    <3> QED
      BY <3>1 DEF TypeInv, AddressesOK
  <2>2. SubsOK'
    BY <1>0, <1>2, <1>20 DEF SubsOK, RowsOK, Live
  <2>3. ASSUME NEW r \in Requests PROVE RequestOK(request[r])'
    <3>1. request'[r] = IF request[r].user = u THEN NoRequest ELSE request[r]
      BY <1>20 DEF Forgotten
    <3>2. CASE request[r].user = u
      BY <3>1, <3>2, NoRequestType DEF RequestOK
    <3>3. CASE request[r].user # u
      <4>1. request'[r] = request[r] /\ RequestOK(request[r])
        BY <1>3, <3>1, <3>3
      <4>2. request[r].op # "none" => sub'[request[r].user] = sub[request[r].user]
        BY <1>0, <1>20, <3>3, <4>1 DEF RequestOK, RowsOK
      <4> QED
        BY <1>20, <4>1, <4>2 DEF RequestOK
    <3> QED
      BY <3>2, <3>3
  <2> QED
    BY <1>20, <2>1, <2>2, <2>3 DEF TypeInv, RequestsOK
<1>21. ASSUME NEW u \in Users
       PROVE  NoSub \in Subscriptions /\ Forgotten(u) \in [Requests -> RequestsType]
  BY <1>0, NoRequestType DEF RowsOK, Forgotten, NoSub, Subscriptions
<1>22. CASE \E u \in Users : AdminRemove(u)
  <2>1. PICK u \in Users : AdminRemove(u)
    BY <1>22
  <2>2. /\ [account[u] EXCEPT !.used = 0] \in Accounts
        /\ [account[u] EXCEPT !.used = 0].state = account[u].state
        /\ [account[u] EXCEPT !.used = 0].email = account[u].email
    BY ZenonT(40), <1>6, AccountUpdates
  <2>3. account' = [account EXCEPT ![u] = [account[u] EXCEPT !.used = 0]]
    BY <1>0, <2>1 DEF AdminRemove, RowsOK
  <2>4. /\ UNCHANGED <<clock, alias, purchases, bought, code, usage, redeemed, admins, bytes>>
        /\ request' = Forgotten(u) /\ sub' = [sub EXCEPT ![u] = NoSub] /\ Live(u)
    BY <2>1 DEF AdminRemove, counts, codes, bounds
  <2>5. RowsOK'
    BY <1>0, <1>21, <2>2, <2>3, <2>4 DEF RowsOK
  <2>6. /\ \A v \in Users : v # u => account'[v] = account[v]
        /\ Live(u)' /\ account'[u].email = account[u].email
    BY <1>0, <2>2, <2>3, <2>4 DEF RowsOK, Live
  <2> QED
    BY <1>20, <2>4, <2>5, <2>6
<1>23. CASE \E u \in Users : DeleteUser(u)
  <2>1. PICK u \in Users : DeleteUser(u)
    BY <1>23
  <2>2. PICK e \in Emails : e = account[u].email
    BY <1>1, <2>1 DEF DeleteUser
  <2>3. PICK a : a = [NoAccount EXCEPT !.state = "deleted"]
    OBVIOUS
  <2>4. a \in Accounts /\ a.state = "deleted"
    BY <2>3 DEF NoAccount, Accounts
  <2>5. /\ UNCHANGED <<clock, purchases, bought, code, usage, redeemed, admins, bytes>>
        /\ request' = Forgotten(u) /\ sub' = [sub EXCEPT ![u] = NoSub] /\ Live(u)
        /\ alias' = Aliased(u, e) /\ account' = [account EXCEPT ![u] = a]
    BY <2>1, <2>2, <2>3 DEF DeleteUser, counts, codes, bounds
  <2>6. RowsOK'
    BY <1>0, <1>21, <2>4, <2>5, AliasedType DEF RowsOK
  <2>7. (\A v \in Users : v # u => account'[v] = account[v]) /\ ~Live(u)'
    BY <1>0, <2>4, <2>5 DEF RowsOK, Live
  <2> QED
    BY <1>20, <2>5, <2>6, <2>7
<1>24. CASE ExpireSubscriptions
  <2>1. \A v \in Users : sub'[v] = sub[v] \/ (sub[v].status # "NONE" /\ sub'[v] = [sub[v] EXCEPT !.status = "EXPIRED"])
    BY <1>24 DEF ExpireSubscriptions
  <2>2. \A v \in Users :
            /\ [sub[v] EXCEPT !.status = "EXPIRED"] \in Subscriptions
            /\ [sub[v] EXCEPT !.status = "EXPIRED"].status = "EXPIRED"
            /\ [sub[v] EXCEPT !.status = "EXPIRED"].plan = sub[v].plan
    BY <1>6, StatusUpdate
  <2>3. sub' \in [Users -> Subscriptions]
    BY <1>6, <2>2, <1>24 DEF ExpireSubscriptions
  <2>4. UNCHANGED <<clock, account, alias, purchases, bought, code, usage, redeemed, request,
                    admins, bytes>>
    BY <1>24 DEF ExpireSubscriptions, people, counts, codes, bounds
  <2>5. RowsOK'
    BY <1>0, <2>3, <2>4 DEF RowsOK
  <2>6. \A v \in Users : sub[v].status # "NONE" => sub[v] # NoSub
    BY DEF NoSub
  <2> QED
    BY <1>2, <1>5, <2>1, <2>2, <2>4, <2>5, <2>6, PeopleKept
<1>25. CASE \E u \in Users : \E month \in Nat \cap {clock, clock - 1} : Bill(u, month)
  <2>1. PICK u \in Users, m \in Nat : Bill(u, m)
    BY <1>25
  <2>2. PICK x \in Subscriptions :
            /\ x = Counted(sub[u], m) /\ x.status = sub[u].status /\ x.plan = sub[u].plan
    BY <1>0, CountedType
  <2>3. sub' = sub \/ (sub[u] # NoSub /\ sub' = [sub EXCEPT ![u] = x])
    BY <1>0, <2>1, <2>2 DEF Bill, RowsOK
  <2>4. PICK n \in Nat : n = IF Started(sub[u], m) THEN 1 ELSE account[u].used + 1
    BY <1>6 DEF Accounts
  <2>5. account' = [account EXCEPT ![u] = [account[u] EXCEPT !.used = n]]
    BY <1>0, <2>1, <2>4 DEF Bill, RowsOK
  <2>6. /\ [account[u] EXCEPT !.used = n] \in Accounts
        /\ [account[u] EXCEPT !.used = n].state = account[u].state
        /\ [account[u] EXCEPT !.used = n].email = account[u].email
    BY <1>6, AccountUpdates
  <2>8. bytes' \in 0 .. MaxBytes
    BY <1>0, <2>1, OthersAssumption DEF Bill, RowsOK, OthersAssumption
  <2>9. UNCHANGED <<clock, alias, purchases, bought, code, usage, redeemed, request, admins>>
    BY <2>1 DEF Bill, counts, codes
  <2>10. RowsOK'
    BY <1>0, <2>3, <2>5, <2>6, <2>8, <2>9 DEF RowsOK
  <2>11. \A v \in Users : /\ account'[v].state = account[v].state
                          /\ account'[v].email = account[v].email
    BY <1>0, <2>5, <2>6 DEF RowsOK
  <2>12. \A v \in Users : sub'[v] = sub[v] \/ (v = u /\ sub'[v] = x /\ sub[u] # NoSub)
    BY <1>0, <2>3 DEF RowsOK
  <2> QED
    BY <1>2, <1>5, <2>2, <2>9, <2>10, <2>11, <2>12, PeopleKept
<1>26. CASE MonthPasses
  <2>1. /\ clock' \in 0 .. MaxTime /\ clock <= clock'
        /\ UNCHANGED <<account, alias, purchases, bought, code, usage, redeemed, sub, request,
                       admins, bytes>>
    BY <1>0, <1>26, OthersAssumption
       DEF MonthPasses, RowsOK, OthersAssumption, people, counts, codes, bounds
  <2>2. RowsOK'
    BY <1>0, <2>1 DEF RowsOK
  <2> QED
    BY <2>1, <2>2, PeopleKept
\* A new account.
<1>27. ASSUME NEW u \in Users, NEW e \in Emails, RowsOK', account[u] = NoAccount, Available(u, e),
              \A v \in Users : v # u => account'[v] = account[v],
              Live(u)', account'[u].email = e, UNCHANGED <<clock, request>>,
              \/ sub' = sub
              \/ \E s \in Subscriptions : /\ s.status # "NONE" /\ s.plan \in Plans
                                          /\ sub' = [sub EXCEPT ![u] = s]
       PROVE  TypeInv'
  <2>1. ~Live(u) /\ \A v \in Users : v # u => (Live(v)' <=> Live(v))
    BY <1>27 DEF Live, NoAccount
  <2>2. AddressesOK'
    BY <1>27, <2>1 DEF TypeInv, AddressesOK, Available
  <2>3. \A v \in Users : \/ sub'[v] = sub[v]
                         \/ v = u /\ sub'[v].status # "NONE" /\ sub'[v].plan \in Plans
    BY <1>0, <1>27 DEF RowsOK
  <2>4. SubsOK'
    BY <1>2, <1>27, <2>1, <2>3 DEF SubsOK
  <2>5. ASSUME NEW r \in Requests PROVE RequestOK(request[r])'
    <3>1. request'[r] = request[r] /\ RequestOK(request[r])
      BY <1>3, <1>27
    <3>2. request[r].op # "none" => sub'[request[r].user] = sub[request[r].user]
      BY <1>2, <2>1, <2>3, <3>1 DEF RequestOK
    <3> QED
      BY <1>27, <3>1, <3>2 DEF RequestOK
  <2> QED
    BY <1>27, <2>2, <2>4, <2>5 DEF TypeInv, RequestsOK
<1>28. ASSUME NEW e \in Emails, NEW b \in Nat
       PROVE  /\ NewAccount(e, b) \in Accounts
              /\ NewAccount(e, b).state = "live" /\ NewAccount(e, b).email = e
  BY DEF NewAccount, Accounts
<1>29. CASE \E u \in Users, e \in Emails : Register(u, e)
  <2>1. PICK u \in Users, e \in Emails : Register(u, e)
    BY <1>29
  <2>2. PICK i \in Users : i = Identity(u, e)
    BY <1>0, IdentityType
  <2>3. /\ UNCHANGED <<clock, code, usage, redeemed, request, admins, bytes>>
        /\ account[u] = NoAccount /\ Available(u, e)
    BY <2>1 DEF Register, codes, bounds
  <2>4. Gift \in Nat
    BY OthersAssumption DEF OthersAssumption
  <2>5. PICK a \in Accounts : a.state = "live" /\ a.email = e /\ account' = [account EXCEPT ![u] = a]
    <3>0. PICK x \in Accounts : x = NewAccount(e, Gift) /\ x.state = "live" /\ x.email = e
      BY <1>28, <2>4
    <3>1. CASE account' = [account EXCEPT ![u] = NewAccount(e, Gift)]
      BY <3>0, <3>1
    <3>2. CASE account' = [account EXCEPT ![u] = [NewAccount(e, Gift) EXCEPT !.identity = i]]
      BY <3>0, <3>2, AccountUpdates
    <3>3. CASE /\ Gift >= Price[DefaultPlan] /\ DefaultPlan \in Plans
               /\ account' = [account EXCEPT ![u] =
                     [NewAccount(e, Gift) EXCEPT !.identity = i, !.balance = Gift - Price[DefaultPlan]]]
      <4>1. PICK c \in Nat : c = Gift - Price[DefaultPlan]
        BY <1>4, <2>4, <3>3
      <4>2. PICK a : a = [x EXCEPT !.identity = i, !.balance = c]
        OBVIOUS
      <4>3. a \in Accounts /\ a.state = "live" /\ a.email = e
        BY <3>0, <4>2 DEF Accounts
      <4> QED
        BY <3>0, <3>3, <4>1, <4>2, <4>3
    <3> QED
      BY <2>1, <2>2, <3>1, <3>2, <3>3, PlansAssumption DEF Register, PlansAssumption
  <2>6. /\ alias' \in [Emails -> Users \cup {NoUser}]
        /\ purchases' \in [Users -> [Plans -> Nat]]
        /\ bought' \in [Emails -> [Plans -> Nat]]
        /\ \/ sub' = sub
           \/ DefaultPlan \in Plans /\ sub' = [sub EXCEPT ![u] = NewSub(DefaultPlan)]
    <3>1. CASE UNCHANGED <<alias, purchases, bought, sub>>
      BY <1>0, <3>1 DEF RowsOK
    <3>2. CASE alias' = Aliased(u, e) /\ UNCHANGED <<purchases, bought, sub>>
      BY <1>0, <3>2, AliasedType DEF RowsOK
    <3>3. CASE /\ alias' = Aliased(u, e) /\ DefaultPlan \in Plans
               /\ LimitedClaim(u, e, DefaultPlan) /\ sub' = [sub EXCEPT ![u] = NewSub(DefaultPlan)]
      BY <1>0, <3>3, AliasedType, ClaimType, LimitedClaimType DEF LimitedClaim
    <3> QED
      BY <2>1, <3>1, <3>2, <3>3, PlansAssumption DEF Register, PlansAssumption
  <2>7. \/ sub' = sub
        \/ \E s \in Subscriptions : /\ s.status # "NONE" /\ s.plan \in Plans
                                    /\ sub' = [sub EXCEPT ![u] = s]
    BY <1>0, <2>6, NewSubType
  <2>8. RowsOK'
    BY <1>0, <2>3, <2>5, <2>6, <2>7 DEF RowsOK
  <2>9. /\ \A v \in Users : v # u => account'[v] = account[v]
        /\ Live(u)' /\ account'[u].email = e
    BY <1>0, <2>5 DEF RowsOK, Live
  <2> QED
    BY <1>27, <2>3, <2>7, <2>8, <2>9
<1>30. CASE \E u \in Users, e \in Emails, p \in Plans \cup {NoPlan} : CreateUser(u, e, p)
  <2>1. PICK u \in Users, e \in Emails, p \in Plans \cup {NoPlan} : CreateUser(u, e, p)
    BY <1>30
  <2>2. PICK i \in Users : i = Identity(u, e)
    BY <1>0, IdentityType
  <2>3. /\ UNCHANGED <<clock, bought, code, usage, redeemed, request, bytes>>
        /\ account[u] = NoAccount /\ Available(u, e) /\ Granted
    BY <2>1 DEF CreateUser, codes
  <2>4. 0 \in Nat
    OBVIOUS
  <2>5. PICK a \in Accounts : a.state = "live" /\ a.email = e /\ account' = [account EXCEPT ![u] = a]
    <3>0. PICK x \in Accounts : x = NewAccount(e, 0) /\ x.state = "live" /\ x.email = e
      BY <1>28, <2>4
    <3>1. CASE account' = [account EXCEPT ![u] = NewAccount(e, 0)]
      BY <3>0, <3>1
    <3>2. CASE account' = [account EXCEPT ![u] = [NewAccount(e, 0) EXCEPT !.identity = i]]
      BY <3>0, <3>2, AccountUpdates
    <3> QED
      BY <2>1, <2>2, <3>1, <3>2 DEF CreateUser
  <2>6. /\ alias' \in [Emails -> Users \cup {NoUser}]
        /\ purchases' \in [Users -> [Plans -> Nat]]
        /\ \/ sub' = sub
           \/ p \in Plans /\ sub' = [sub EXCEPT ![u] = NewSub(p)]
    <3>1. CASE p = NoPlan
      BY <1>0, <2>1, <3>1 DEF CreateUser, RowsOK
    <3>2. CASE p # NoPlan
      <4>1. p \in Plans /\ alias' = Aliased(u, e) /\ Claim(u, e, p) /\ sub' = [sub EXCEPT ![u] = NewSub(p)]
        BY <2>1, <3>2 DEF CreateUser
      <4> QED
        BY <1>0, <4>1, AliasedType, ClaimType
    <3> QED
      BY <3>1, <3>2
  <2>7. \/ sub' = sub
        \/ \E s \in Subscriptions : /\ s.status # "NONE" /\ s.plan \in Plans
                                    /\ sub' = [sub EXCEPT ![u] = s]
    BY <1>0, <2>6, NewSubType
  <2>8. RowsOK'
    BY <1>0, <2>3, <2>5, <2>6, <2>7, GrantedType DEF RowsOK
  <2>9. /\ \A v \in Users : v # u => account'[v] = account[v]
        /\ Live(u)' /\ account'[u].email = e
    BY <1>0, <2>5 DEF RowsOK, Live
  <2> QED
    BY <1>27, <2>3, <2>7, <2>8, <2>9
<1>31. CASE \E u \in Users, e \in Emails : ChangeEmail(u, e)
  <2>1. PICK u \in Users, e \in Emails : ChangeEmail(u, e)
    BY <1>31
  <2>2. PICK f \in Emails : f = account[u].email
    BY <1>1, <2>1 DEF ChangeEmail
  <2>3. PICK i \in Users : i = Identity(u, f)
    BY <1>0, IdentityType
  <2>4. PICK a : a = [account[u] EXCEPT !.email = e, !.identity = i]
    OBVIOUS
  <2>5. a \in Accounts /\ a.state = account[u].state /\ a.email = e
    BY <1>6, <2>4 DEF Accounts
  <2>6. /\ account' = [account EXCEPT ![u] = a] /\ Available(u, e) /\ Live(u)
        /\ alias' = [alias EXCEPT ![f] = i, ![e] = IF @ = NoUser THEN i ELSE @]
        /\ UNCHANGED <<clock, purchases, bought, code, usage, redeemed, sub, request,
                       admins, bytes>>
    BY <1>0, <2>1, <2>2, <2>3, <2>4 DEF ChangeEmail, counts, codes, bounds, RowsOK
  <2>7. RowsOK'
    BY <1>0, <2>5, <2>6 DEF RowsOK
  <2>8. \A v \in Users : /\ account'[v].state = account[v].state
                         /\ account'[v].email = IF v = u THEN e ELSE account[v].email
    BY <1>0, <2>5, <2>6 DEF RowsOK
  <2>9. AddressesOK'
    BY <2>6, <2>8 DEF TypeInv, AddressesOK, Live, Available
  <2>10. SubsOK'
    BY <2>6, <2>8 DEF TypeInv, SubsOK, Live
  <2>11. RequestsOK'
    BY <2>6 DEF TypeInv, RequestsOK, RequestOK
  <2> QED
    BY <2>7, <2>9, <2>10, <2>11 DEF TypeInv
<1>32. CASE \E u \in Users, amount \in Balances : AdjustBalance(u, amount)
  <2>1. PICK u \in Users, n \in Nat : AdjustBalance(u, n)
    BY <1>32, OthersAssumption DEF OthersAssumption
  <2>2. /\ [account[u] EXCEPT !.balance = n] \in Accounts
        /\ [account[u] EXCEPT !.balance = n].state = account[u].state
        /\ [account[u] EXCEPT !.balance = n].email = account[u].email
    BY <1>6, AccountUpdates
  <2>3. account' = [account EXCEPT ![u] = [account[u] EXCEPT !.balance = n]]
    BY <1>0, <2>1 DEF AdjustBalance, RowsOK
  <2>4. /\ UNCHANGED <<clock, alias, purchases, bought, code, usage, redeemed, sub, request, bytes>>
        /\ Granted
    BY <2>1 DEF AdjustBalance, counts, codes
  <2>5. RowsOK'
    BY <1>0, <2>2, <2>3, <2>4, GrantedType DEF RowsOK
  <2>6. \A v \in Users : /\ account'[v].state = account[v].state
                         /\ account'[v].email = account[v].email
    BY <1>0, <2>2, <2>3 DEF RowsOK
  <2> QED
    BY <1>5, <2>4, <2>5, <2>6, PeopleKept
<1>33. CASE \E u \in Users, c \in Codes : Redeem(u, c)
  <2>1. PICK u \in Users, c \in Codes : Redeem(u, c)
    BY <1>33
  <2>2. PICK e \in Emails : e = account[u].email /\ Live(u)
    BY <1>1, <2>1 DEF Redeem
  <2>3. PICK i \in Users : i = Identity(u, e)
    BY <1>0, IdentityType
  <2>4. /\ UNCHANGED <<clock, request, admins, bytes>>
        /\ code' = [code EXCEPT ![c] = "REDEEMED"]
        /\ redeemed' = [redeemed EXCEPT ![e] = @ + 1]
        /\ usage' = [usage EXCEPT ![i] = @ + 1]
    BY <2>1, <2>2, <2>3 DEF Redeem, bounds
  <2>5. /\ code' \in [Codes -> {"UNUSED", "REDEEMED", "REVOKED"}]
        /\ redeemed' \in [Emails -> Nat]
        /\ usage' \in [Users -> Nat]
    BY <1>0, <2>4 DEF RowsOK
  <2>6. CASE Reward[c] \in Plans
    <3>1. PICK p \in Plans : p = Reward[c]
      BY <2>6
    <3>2. LimitedClaim(u, e, p) /\ Claim(u, e, p) /\ Subscribed(u, NewSub(p), 0) /\ 0 \in Nat
      BY <2>1, <2>2, <3>1 DEF Redeem, LimitedClaim
    <3>3. RowsOK'
      BY <1>0, <2>2, <2>4, <2>5, <3>2, NewSubType, SubscribedType, ClaimType, LimitedClaimType
         DEF RowsOK
    <3> QED
      BY <1>0, <1>5, <2>2, <2>4, <3>2, <3>3, NewSubType, SubscribedType, PeopleKept
  <2>7. CASE Reward[c] \notin Plans
    <3>1. PICK b \in Nat : b = account[u].balance + Reward[c]
      BY <1>6, <2>7, OthersAssumption DEF OthersAssumption, Accounts
    <3>2. PICK a : a = [account[u] EXCEPT !.balance = b, !.identity = i]
      OBVIOUS
    <3>3. a \in Accounts /\ a.state = account[u].state /\ a.email = account[u].email
      BY <1>6, <3>2 DEF Accounts
    <3>4. /\ account' = [account EXCEPT ![u] = a] /\ alias' = Aliased(u, e)
          /\ UNCHANGED <<purchases, bought, sub>>
      BY <1>0, <2>1, <2>2, <2>3, <2>7, <3>1, <3>2 DEF Redeem, RowsOK
    <3>5. RowsOK'
      BY <1>0, <2>4, <2>5, <3>3, <3>4, AliasedType DEF RowsOK
    <3>6. \A v \in Users : /\ account'[v].state = account[v].state
                           /\ account'[v].email = account[v].email
      BY <1>0, <3>3, <3>4 DEF RowsOK
    <3> QED
      BY <1>5, <2>4, <3>4, <3>5, <3>6, PeopleKept
  <2> QED
    BY <2>6, <2>7
<1>34. CASE \E c \in Codes : Revoke(c)
  <2>1. /\ UNCHANGED <<clock, account, alias, purchases, bought, usage, redeemed, sub, request,
                       admins, bytes>>
        /\ code' \in [Codes -> {"UNUSED", "REDEEMED", "REVOKED"}]
    BY <1>0, <1>34 DEF Revoke, RowsOK, people, counts, bounds
  <2>2. RowsOK'
    BY <1>0, <2>1 DEF RowsOK
  <2> QED
    BY <1>5, <2>1, <2>2, PeopleKept
<1>35. CASE UNCHANGED vars
  <2>1. UNCHANGED <<clock, account, alias, purchases, bought, code, usage, redeemed, sub, request,
                    admins, bytes>>
    BY <1>35 DEF vars, people, counts, codes, bounds
  <2>2. RowsOK'
    BY <1>0, <2>1 DEF RowsOK
  <2> QED
    BY <1>5, <2>1, <2>2, PeopleKept
<1> QED
  BY <1>7, <1>8, <1>9, <1>10, <1>11, <1>12, <1>13, <1>14, <1>15, <1>16, <1>17, <1>18, <1>19,
     <1>22, <1>23, <1>24, <1>25, <1>26, <1>29, <1>30, <1>31, <1>32, <1>33, <1>34, <1>35
     DEF Next, Ends

LEMMA AlwaysTyped == Spec => []TypeInv
BY InitTypeInv, NextTypeInv, PTL DEF Spec

LEMMA NextHistoryOK == TypeInv /\ HistoryOK /\ [Next]_vars => HistoryOK'
<1> SUFFICES ASSUME TypeInv, HistoryOK, [Next]_vars PROVE HistoryOK'
  OBVIOUS
<1>1. ASSUME NEW u, Anew(u) PROVE HistoryOK'
  BY <1>1 DEF Anew, HistoryOK
<1>2. ASSUME UNCHANGED history PROVE HistoryOK'
  BY <1>2 DEF history, HistoryOK
<1>3. CASE \E r \in Requests : AdminUpdate(r)
  <2>1. PICK r \in Requests : AdminUpdate(r)
    BY <1>3
  <2>2. PICK u : u = request[r].user
    OBVIOUS
  <2>3. /\ lost' = [lost EXCEPT ![u] = @ + missed[r]]
        /\ missed' = [missed EXCEPT ![r] = 0]
        /\ fresh' = fresh
    BY <2>1, <2>2 DEF AdminUpdate
  <2>4. u \in Users => lost[u] + missed[r] \in Nat
    BY DEF HistoryOK
  <2>5. lost' \in [Users -> Nat]
    BY <2>3, <2>4 DEF HistoryOK
  <2>6. missed' \in [Requests -> Nat] /\ fresh' \in [Users -> Nat]
    BY <2>3 DEF HistoryOK
  <2> QED
    BY <2>5, <2>6 DEF HistoryOK
<1>4. CASE \E r \in Requests : Fails(r)
  BY <1>4 DEF Fails, HistoryOK
<1>5. CASE \E r \in Requests : Reset(r)
  <2>1. PICK r \in Requests : Reset(r)
    BY <1>5
  <2>2. PICK u : u = request[r].user
    OBVIOUS
  <2>3. u \in Users => sub[u].used \in Nat
    BY DEF TypeInv, RowsOK, Subscriptions
  <2>4. lost' = lost \/ lost' = [lost EXCEPT ![u] = @ + sub[u].used]
    BY <2>1, <2>2 DEF Reset
  <2>5. lost' \in [Users -> Nat] /\ UNCHANGED <<fresh, missed>>
    BY <2>1, <2>3, <2>4 DEF Reset, HistoryOK
  <2> QED
    BY <2>5 DEF HistoryOK
<1>6. CASE \E u \in Users : \E month \in Nat \cap {clock, clock - 1} : Bill(u, month)
  <2>1. PICK u \in Users, m \in Nat : Bill(u, m)
    BY <1>6
  <2> QED
    BY <2>1 DEF Bill, HistoryOK
<1>7. CASE MonthPasses
  BY <1>7 DEF MonthPasses, HistoryOK
<1>8. CASE \E u \in Users, e \in Emails :
              \/ Register(u, e) \/ ChangeEmail(u, e)
              \/ \E p \in Plans \cup {NoPlan} : CreateUser(u, e, p)
  BY <1>1, <1>2, <1>8 DEF Register, ChangeEmail, CreateUser
<1>9. CASE \E u \in Users :
              \/ DeleteUser(u) \/ AdminRemove(u)
              \/ \E p \in Plans : Subscribe(u, p) \/ AdminAssign(u, p)
              \/ \E c \in Codes : Redeem(u, c)
              \/ \E amount \in Balances : AdjustBalance(u, amount)
  <2>1. PICK u \in Users :
            \/ DeleteUser(u) \/ AdminRemove(u)
            \/ \E p \in Plans : Subscribe(u, p) \/ AdminAssign(u, p)
            \/ \E c \in Codes : Redeem(u, c)
            \/ \E amount \in Balances : AdjustBalance(u, amount)
    BY <1>9
  <2>2. Anew(u) \/ UNCHANGED history
    BY <2>1 DEF DeleteUser, AdminRemove, Subscribe, AdminAssign, Redeem, AdjustBalance, Subscribed,
       history
  <2> QED
    BY <1>1, <1>2, <2>2
<1>10. CASE \E r \in Requests : Upgrade(r) \/ Renew(r) \/ Cancel(r)
  BY <1>1, <1>2, <1>10 DEF Upgrade, Renew, Cancel, Subscribed
<1>11. CASE \E r \in Requests, u \in Users :
               \/ \E p \in Plans : AskUpgrade(r, u, p)
               \/ \E edit \in Edits : AskAdminUpdate(r, u, edit)
               \/ AskRenewal(r, u) \/ AskCancel(r, u) \/ AskReset(r, u)
  <2>1. ASSUME NEW r, NEW q, Ask(r, q) PROVE HistoryOK'
    BY <1>2, <2>1 DEF Ask
  <2>2. PICK r \in Requests, u \in Users :
            \/ \E p \in Plans : AskUpgrade(r, u, p)
            \/ \E edit \in Edits : AskAdminUpdate(r, u, edit)
            \/ AskRenewal(r, u) \/ AskCancel(r, u) \/ AskReset(r, u)
    BY <1>11
  <2>3. CASE \E p \in Plans : AskUpgrade(r, u, p)
    BY <2>1, <2>3 DEF AskUpgrade
  <2>4. CASE \E edit \in Edits : AskAdminUpdate(r, u, edit)
    BY <2>1, <2>4 DEF AskAdminUpdate
  <2>5. CASE AskRenewal(r, u)
    BY <2>1, <2>5 DEF AskRenewal
  <2>6. CASE AskCancel(r, u)
    BY <2>1, <2>6 DEF AskCancel
  <2>7. CASE AskReset(r, u)
    BY <2>1, <2>7 DEF AskReset
  <2> QED
    BY <2>2, <2>3, <2>4, <2>5, <2>6, <2>7
<1>12. CASE (\E c \in Codes : Revoke(c)) \/ ExpireSubscriptions \/ UNCHANGED vars
  BY <1>2, <1>12 DEF Revoke, ExpireSubscriptions, vars
<1> QED
  BY <1>3, <1>4, <1>5, <1>6, <1>7, <1>8, <1>9, <1>10, <1>11, <1>12 DEF Next, Ends

LEMMA AlwaysRecorded == Spec => []HistoryOK
<1>1. Init => TypeInv /\ HistoryOK
  BY InitTypeInv DEF Init, HistoryOK
<1>2. TypeInv /\ HistoryOK /\ [Next]_vars => (TypeInv /\ HistoryOK)'
  BY NextTypeInv, NextHistoryOK
<1> QED
  BY <1>1, <1>2, PTL DEF Spec

\* Every variable keeps its type; a balance, which is checked before it is charged and
\* changed by what was asked earlier, never goes below zero.
THEOREM TypeCorrect == Spec => []TypeOK
<1>1. TypeInv /\ HistoryOK => TypeOK
  BY DEF TypeInv, RowsOK, HistoryOK, TypeOK
<1> QED
  BY <1>1, AlwaysTyped, AlwaysRecorded, PTL

-----------------------------------------------------------------------------
\* The invariants behind the other theorems.

\* The address of an account with an identity is bound to it.
HistoryInv ==
    \A u \in Users :
        Live(u) /\ account[u].identity # NoUser
            => alias[account[u].email] = account[u].identity

\* What was bought and redeemed under an address is part of what its identity has.
BoughtOK ==
    \A e \in Emails, p \in Plans :
        Limit[p] # Unlimited =>
            /\ bought[e][p] <= Limit[p]
            /\ bought[e][p] <= IF alias[e] = NoUser THEN 0 ELSE purchases[alias[e]][p]

RedeemedOK ==
    \A e \in Emails :
        CategoryLimit # Unlimited =>
            /\ redeemed[e] <= CategoryLimit
            /\ redeemed[e] <= IF alias[e] = NoUser THEN 0 ELSE usage[alias[e]]

LimitInv == HistoryInv /\ BoughtOK /\ RedeemedOK

\* A user's row agrees with his subscription.
UsageOK(u) == sub[u] # NoSub => account[u].used = sub[u].used

UsageInv == \A u \in Users : UsageOK(u)

\* A monthly plan that is due for a reset.
Due(s) == s.plan \in Monthly /\ (s.period = NoPeriod \/ s.period < clock)

\* A quota counts what was billed in this month but for what is lost; it has none of this
\* month when it is due; an administrator's form has read what it does not miss.
QuotaOK(u) ==
    sub[u] # NoSub =>
        /\ fresh[u] <= sub[u].used + lost[u]
        /\ Due(sub[u]) => fresh[u] = 0
        /\ \A r \in Requests :
              FormOpen(r, u) => fresh[u] <= request[r].sub.used + missed[r] + lost[u]

QuotaInv == \A u \in Users : QuotaOK(u)

-----------------------------------------------------------------------------
\* Limits.

LEMMA Untouched ==
    ASSUME TypeInv, TypeInv', LimitInv, UNCHANGED <<alias, bought, redeemed>>,
           \A i \in Users, p \in Plans : purchases[i][p] <= purchases'[i][p],
           \A i \in Users : usage[i] <= usage'[i],
           \A u \in Users :
              Live(u)' /\ account'[u].identity # NoUser =>
                  /\ Live(u)
                  /\ account'[u].email = account[u].email
                  /\ account'[u].identity = account[u].identity
    PROVE  LimitInv'
<1>1. HistoryInv'
  BY DEF LimitInv, HistoryInv
<1>2. BoughtOK'
  <2>1. SUFFICES ASSUME NEW e \in Emails, NEW p \in Plans, Limit[p] # Unlimited
                 PROVE  /\ bought[e][p] <= Limit[p]
                        /\ bought[e][p] <= IF alias[e] = NoUser THEN 0 ELSE purchases'[alias[e]][p]
    BY DEF BoughtOK
  <2>2. /\ bought[e][p] <= Limit[p]
        /\ bought[e][p] <= IF alias[e] = NoUser THEN 0 ELSE purchases[alias[e]][p]
    BY <2>1 DEF LimitInv, BoughtOK
  <2>3. CASE alias[e] = NoUser
    BY <2>2, <2>3
  <2>4. CASE alias[e] # NoUser
    <3>1. PICK i \in Users : i = alias[e]
      BY <2>4 DEF TypeInv, RowsOK
    <3>2. purchases[i][p] \in Nat /\ purchases'[i][p] \in Nat /\ bought[e][p] \in Nat
      BY DEF TypeInv, RowsOK
    <3>3. purchases[i][p] <= purchases'[i][p] /\ bought[e][p] <= purchases[i][p]
      BY <2>2, <2>4, <3>1
    <3> QED
      BY <2>2, <2>4, <3>1, <3>2, <3>3
  <2> QED
    BY <2>3, <2>4
<1>3. RedeemedOK'
  <2>1. SUFFICES ASSUME NEW e \in Emails, CategoryLimit # Unlimited
                 PROVE  /\ redeemed[e] <= CategoryLimit
                        /\ redeemed[e] <= IF alias[e] = NoUser THEN 0 ELSE usage'[alias[e]]
    BY DEF RedeemedOK
  <2>2. /\ redeemed[e] <= CategoryLimit
        /\ redeemed[e] <= IF alias[e] = NoUser THEN 0 ELSE usage[alias[e]]
    BY <2>1 DEF LimitInv, RedeemedOK
  <2>3. CASE alias[e] = NoUser
    BY <2>2, <2>3
  <2>4. CASE alias[e] # NoUser
    <3>1. PICK i \in Users : i = alias[e]
      BY <2>4 DEF TypeInv, RowsOK
    <3>2. usage[i] \in Nat /\ usage'[i] \in Nat /\ redeemed[e] \in Nat
      BY DEF TypeInv, RowsOK
    <3>3. usage[i] <= usage'[i] /\ redeemed[e] <= usage[i]
      BY <2>2, <2>4, <3>1
    <3> QED
      BY <2>2, <2>4, <3>1, <3>2, <3>3
  <2> QED
    BY <2>3, <2>4
<1> QED
  BY <1>1, <1>2, <1>3 DEF LimitInv

\* User u, with address e, buys, redeems, is given a plan or leaves.
LEMMA UsesIdentity ==
    ASSUME TypeInv, TypeInv', LimitInv, NEW u \in Users, NEW e \in Emails,
           ~Foreign(u, e), alias' = Aliased(u, e), Available(u, e),
           \A v \in Users : v # u => account'[v] = account[v],
           Live(u)' => account'[u].email = e /\ account'[u].identity = Identity(u, e),
           \A i \in Users, p \in Plans : purchases[i][p] <= purchases'[i][p],
           \A i \in Users : usage[i] <= usage'[i],
           \/ bought' = bought
           \/ \E p \in Plans : LimitedClaim(u, e, p),
           \/ redeemed' = redeemed
           \/ /\ Within(usage[Identity(u, e)], CategoryLimit)
              /\ redeemed' = [redeemed EXCEPT ![e] = @ + 1]
              /\ usage' = [usage EXCEPT ![Identity(u, e)] = @ + 1]
    PROVE  LimitInv'
<1>0. RowsOK /\ RowsOK'
  BY DEF TypeInv
<1>1. PICK i \in Users : i = Identity(u, e)
  BY <1>0, IdentityType
<1>2. /\ alias'[e] = i /\ alias[e] \in {NoUser, i}
      /\ \A f \in Emails : f # e => alias'[f] = alias[f]
  BY <1>0, <1>1 DEF Aliased, Foreign, RowsOK
<1>3. NoUser \notin Users
  BY OthersAssumption DEF OthersAssumption
<1>4. HistoryInv'
  <2>1. SUFFICES ASSUME NEW v \in Users, Live(v)', account'[v].identity # NoUser
                 PROVE  alias'[account'[v].email] = account'[v].identity
    BY DEF HistoryInv
  <2>2. CASE v = u
    BY <1>1, <1>2, <2>1, <2>2
  <2>3. CASE v # u
    <3>1. account'[v] = account[v] /\ Live(v)
      BY <2>1, <2>3 DEF Live
    <3>2. account[v].email \in Emails /\ account[v].email # e
      BY <2>3, <3>1 DEF TypeInv, AddressesOK, Available
    <3> QED
      BY <1>2, <2>1, <3>1, <3>2 DEF LimitInv, HistoryInv
  <2> QED
    BY <2>2, <2>3
<1>5. BoughtOK'
  <2>1. SUFFICES ASSUME NEW f \in Emails, NEW p \in Plans, Limit[p] # Unlimited
                 PROVE  /\ bought'[f][p] <= Limit[p]
                        /\ bought'[f][p] <= IF alias'[f] = NoUser THEN 0 ELSE purchases'[alias'[f]][p]
    BY DEF BoughtOK
  <2>2. /\ bought[f][p] <= Limit[p]
        /\ bought[f][p] <= IF alias[f] = NoUser THEN 0 ELSE purchases[alias[f]][p]
        /\ bought[f][p] \in Nat /\ bought'[f][p] \in Nat
    BY <1>0, <2>1 DEF LimitInv, BoughtOK, RowsOK
  <2>3. Limit[p] \in Nat
    BY <2>1, PlansAssumption DEF PlansAssumption
  <2>4. CASE bought'[f][p] = bought[f][p]
    <3>1. CASE f = e
      <4>1. /\ purchases[i][p] \in Nat /\ purchases'[i][p] \in Nat
            /\ purchases[i][p] <= purchases'[i][p]
        BY <1>0 DEF RowsOK
      <4> QED
        BY <1>2, <1>3, <2>2, <2>4, <3>1, <4>1
    <3>2. CASE f # e
      <4>1. alias'[f] = alias[f]
        BY <1>2, <3>2
      <4>2. CASE alias[f] = NoUser
        BY <2>2, <2>4, <4>1, <4>2
      <4>3. CASE alias[f] # NoUser
        <5>1. PICK j \in Users : j = alias[f]
          BY <1>0, <4>3 DEF RowsOK
        <5>2. /\ purchases[j][p] \in Nat /\ purchases'[j][p] \in Nat
              /\ purchases[j][p] <= purchases'[j][p]
          BY <1>0 DEF RowsOK
        <5> QED
          BY <2>2, <2>4, <4>1, <4>3, <5>1, <5>2
      <4> QED
        BY <4>2, <4>3
    <3> QED
      BY <3>1, <3>2
  <2>5. CASE bought'[f][p] # bought[f][p]
    <3>1. PICK q \in Plans : LimitedClaim(u, e, q)
      BY <2>5
    <3>2. f = e /\ p = q /\ bought'[f][p] = bought[f][p] + 1
      BY <1>0, <2>5, <3>1 DEF LimitedClaim, RowsOK
    <3>3. /\ purchases[i][p] \in Nat /\ purchases[i][p] < Limit[p]
          /\ purchases'[i][p] = purchases[i][p] + 1
      BY <1>0, <1>1, <2>1, <3>1, <3>2, ClaimType DEF LimitedClaim, Claimable, Within, RowsOK
    <3>4. bought[f][p] <= purchases[i][p]
      BY <1>2, <2>2, <3>2, <3>3
    <3> QED
      BY <1>2, <1>3, <2>2, <2>3, <3>2, <3>3, <3>4
  <2> QED
    BY <2>4, <2>5
<1>6. RedeemedOK'
  <2>1. SUFFICES ASSUME NEW f \in Emails, CategoryLimit # Unlimited
                 PROVE  /\ redeemed'[f] <= CategoryLimit
                        /\ redeemed'[f] <= IF alias'[f] = NoUser THEN 0 ELSE usage'[alias'[f]]
    BY DEF RedeemedOK
  <2>2. /\ redeemed[f] <= CategoryLimit
        /\ redeemed[f] <= IF alias[f] = NoUser THEN 0 ELSE usage[alias[f]]
        /\ redeemed[f] \in Nat /\ redeemed'[f] \in Nat
    BY <1>0, <2>1 DEF LimitInv, RedeemedOK, RowsOK
  <2>3. CategoryLimit \in Nat
    BY <2>1, OthersAssumption DEF OthersAssumption
  <2>4. CASE redeemed'[f] = redeemed[f]
    <3>1. CASE f = e
      <4>1. usage[i] \in Nat /\ usage'[i] \in Nat /\ usage[i] <= usage'[i]
        BY <1>0 DEF RowsOK
      <4> QED
        BY <1>2, <1>3, <2>2, <2>4, <3>1, <4>1
    <3>2. CASE f # e
      <4>1. alias'[f] = alias[f]
        BY <1>2, <3>2
      <4>2. CASE alias[f] = NoUser
        BY <2>2, <2>4, <4>1, <4>2
      <4>3. CASE alias[f] # NoUser
        <5>1. PICK j \in Users : j = alias[f]
          BY <1>0, <4>3 DEF RowsOK
        <5>2. usage[j] \in Nat /\ usage'[j] \in Nat /\ usage[j] <= usage'[j]
          BY <1>0 DEF RowsOK
        <5> QED
          BY <2>2, <2>4, <4>1, <4>3, <5>1, <5>2
      <4> QED
        BY <4>2, <4>3
    <3> QED
      BY <3>1, <3>2
  <2>5. CASE redeemed'[f] # redeemed[f]
    <3>1. /\ Within(usage[i], CategoryLimit)
          /\ redeemed' = [redeemed EXCEPT ![e] = @ + 1]
          /\ usage' = [usage EXCEPT ![i] = @ + 1]
      BY <1>1, <2>5
    <3>2. f = e /\ redeemed'[f] = redeemed[f] + 1
      BY <1>0, <2>5, <3>1 DEF RowsOK
    <3>3. usage[i] \in Nat /\ usage[i] < CategoryLimit /\ usage'[i] = usage[i] + 1
      BY <1>0, <2>1, <3>1 DEF Within, RowsOK
    <3>4. redeemed[f] <= usage[i]
      BY <1>2, <2>2, <3>2, <3>3
    <3> QED
      BY <1>2, <1>3, <2>2, <2>3, <3>2, <3>3, <3>4
  <2> QED
    BY <2>4, <2>5
<1> QED
  BY <1>4, <1>5, <1>6 DEF LimitInv

\* Steps that leave the identities alone.
LEMMA PlainSteps ==
    ASSUME TypeInv,
           \/ \E r \in Requests : Renew(r) \/ Cancel(r) \/ Reset(r) \/ Fails(r)
           \/ \E r \in Requests, u \in Users :
                 \/ \E p \in Plans : AskUpgrade(r, u, p)
                 \/ \E edit \in Edits : AskAdminUpdate(r, u, edit)
                 \/ AskRenewal(r, u) \/ AskCancel(r, u) \/ AskReset(r, u)
           \/ \E u \in Users :
                 \/ AdminRemove(u)
                 \/ \E amount \in Balances : AdjustBalance(u, amount)
                 \/ \E month \in Nat \cap {clock, clock - 1} : Bill(u, month)
           \/ \E c \in Codes : Revoke(c)
           \/ ExpireSubscriptions \/ MonthPasses \/ UNCHANGED vars
    PROVE  /\ UNCHANGED <<alias, purchases, bought, usage, redeemed>>
           /\ \A v \in Users : /\ account'[v].state = account[v].state
                               /\ account'[v].email = account[v].email
                               /\ account'[v].identity = account[v].identity
<1>0. RowsOK
  BY DEF TypeInv
<1>1. ASSUME NEW r \in Requests, NEW q, Ask(r, q)
      PROVE  UNCHANGED <<account, alias, purchases, bought, usage, redeemed>>
  BY <1>1 DEF Ask, people, counts, codes
<1>7. CASE \E r \in Requests, u \in Users :
               \/ \E p \in Plans : AskUpgrade(r, u, p)
               \/ \E edit \in Edits : AskAdminUpdate(r, u, edit)
               \/ AskRenewal(r, u) \/ AskCancel(r, u) \/ AskReset(r, u)
  <2>1. PICK r \in Requests, u \in Users :
            \/ \E p \in Plans : AskUpgrade(r, u, p)
            \/ \E edit \in Edits : AskAdminUpdate(r, u, edit)
            \/ AskRenewal(r, u) \/ AskCancel(r, u) \/ AskReset(r, u)
    BY <1>7
  <2>2. \E q : Ask(r, q)
    <3>1. CASE \E p \in Plans : AskUpgrade(r, u, p)
      BY <3>1 DEF AskUpgrade
    <3>2. CASE \E edit \in Edits : AskAdminUpdate(r, u, edit)
      BY <3>2 DEF AskAdminUpdate
    <3>3. CASE AskRenewal(r, u)
      BY <3>3 DEF AskRenewal
    <3>4. CASE AskCancel(r, u)
      BY <3>4 DEF AskCancel
    <3>5. CASE AskReset(r, u)
      BY <3>5 DEF AskReset
    <3> QED
      BY <2>1, <3>1, <3>2, <3>3, <3>4, <3>5
  <2> QED
    BY <1>1, <2>2
<1>8. CASE \/ \E r \in Requests : Cancel(r) \/ Fails(r)
           \/ \E c \in Codes : Revoke(c)
           \/ ExpireSubscriptions \/ MonthPasses \/ UNCHANGED vars
  <2>1. UNCHANGED <<account, alias, purchases, bought, usage, redeemed>>
    <3>1. CASE \E r \in Requests : Cancel(r) \/ Fails(r)
      BY <3>1 DEF Cancel, Fails, people, counts, codes
    <3>2. CASE \E c \in Codes : Revoke(c)
      BY <3>2 DEF Revoke, people, counts
    <3>3. CASE ExpireSubscriptions \/ MonthPasses \/ UNCHANGED vars
      BY <3>3 DEF ExpireSubscriptions, MonthPasses, vars, people, counts, codes
    <3> QED
      BY <1>8, <3>1, <3>2, <3>3
  <2> QED
    BY <2>1
<1>2. \A v \in Users : account[v] \in Accounts
  BY <1>0 DEF RowsOK
<1>3. \A x \in Accounts :
        \A n : /\ [x EXCEPT !.used = n].state = x.state
               /\ [x EXCEPT !.used = n].email = x.email
               /\ [x EXCEPT !.used = n].identity = x.identity
               /\ [x EXCEPT !.balance = n].state = x.state
               /\ [x EXCEPT !.balance = n].email = x.email
               /\ [x EXCEPT !.balance = n].identity = x.identity
  BY DEF Accounts
<1>4. ASSUME NEW f \in [Users -> Accounts],
             \A v \in Users : /\ f[v].state = account[v].state
                              /\ f[v].email = account[v].email
                              /\ f[v].identity = account[v].identity,
             NEW u \in Users, NEW n,
             account' = [f EXCEPT ![u].used = n] \/ account' = [f EXCEPT ![u].balance = n]
      PROVE  \A v \in Users : /\ account'[v].state = account[v].state
                              /\ account'[v].email = account[v].email
                              /\ account'[v].identity = account[v].identity
  <2> SUFFICES ASSUME NEW v \in Users
               PROVE  /\ account'[v].state = account[v].state
                      /\ account'[v].email = account[v].email
                      /\ account'[v].identity = account[v].identity
    OBVIOUS
  <2>1. PICK x \in Accounts : x = f[v]
    BY <1>4
  <2>2. \/ account'[v] = x
        \/ account'[v] = [x EXCEPT !.used = n]
        \/ account'[v] = [x EXCEPT !.balance = n]
    BY <1>4, <2>1
  <2>3. /\ account'[v].state = x.state
        /\ account'[v].email = x.email
        /\ account'[v].identity = x.identity
    BY <2>2 DEF Accounts
  <2> QED
    BY <1>4, <2>1, <2>3
<1>5. account \in [Users -> Accounts]
  BY <1>0 DEF RowsOK
<1>6. ASSUME NEW u \in Users
      PROVE  /\ Mirrored(u, 0) \in [Users -> Accounts]
             /\ \A v \in Users : /\ Mirrored(u, 0)[v].state = account[v].state
                                 /\ Mirrored(u, 0)[v].email = account[v].email
                                 /\ Mirrored(u, 0)[v].identity = account[v].identity
  BY <1>0, MirroredType
<1>9. CASE \E r \in Requests : Renew(r)
  <2>1. PICK r \in Requests : Renew(r)
    BY <1>9
  <2>2. request[r].op = "renew" /\ RequestOK(request[r])
    BY <2>1 DEF Renew, Asked, TypeInv, RequestsOK
  <2>3. PICK u \in Users : u = request[r].user
    BY <2>2 DEF RequestOK
  <2>4. \E b : account' = [Mirrored(u, 0) EXCEPT ![u].balance = b]
    BY <2>1, <2>3 DEF Renew
  <2>5. UNCHANGED <<alias, purchases, bought, usage, redeemed>>
    BY <2>1 DEF Renew, counts, codes
  <2>6. PICK f \in [Users -> Accounts] :
            /\ f = Mirrored(u, 0)
            /\ \A v \in Users : /\ f[v].state = account[v].state
                                /\ f[v].email = account[v].email
                                /\ f[v].identity = account[v].identity
    BY <1>6
  <2>7. PICK b : account' = [f EXCEPT ![u].balance = b]
    BY <2>4, <2>6
  <2> QED
    BY <1>4, <2>5, <2>6, <2>7
<1>10. CASE \E r \in Requests : Reset(r)
  <2>1. PICK r \in Requests : Reset(r)
    BY <1>10
  <2>2. request[r].op = "reset" /\ RequestOK(request[r])
    BY <2>1 DEF Reset, Asked, TypeInv, RequestsOK
  <2>3. PICK u \in Users : u = request[r].user
    BY <2>2 DEF RequestOK
  <2>4. UNCHANGED <<alias, purchases, bought, usage, redeemed>>
    BY <2>1 DEF Reset, counts, codes
  <2>5. account' = account \/ account' = Mirrored(u, 0)
    BY <2>1, <2>3 DEF Reset
  <2> QED
    BY <1>6, <2>4, <2>5
<1>11. CASE \E u \in Users :
               \/ AdminRemove(u)
               \/ \E month \in Nat \cap {clock, clock - 1} : Bill(u, month)
  <2>1. PICK u \in Users :
            \/ AdminRemove(u)
            \/ \E month \in Nat \cap {clock, clock - 1} : Bill(u, month)
    BY <1>11
  <2>2. UNCHANGED <<alias, purchases, bought, usage, redeemed>>
    BY <2>1 DEF AdminRemove, Bill, counts, codes
  <2>3. PICK n : account' = [account EXCEPT ![u].used = n]
    BY <2>1 DEF AdminRemove, Bill
  <2> QED
    BY <1>4, <1>5, <2>2, <2>3
<1>12. CASE \E u \in Users : \E amount \in Balances : AdjustBalance(u, amount)
  <2>1. PICK u \in Users : \E amount \in Balances : AdjustBalance(u, amount)
    BY <1>12
  <2>2. UNCHANGED <<alias, purchases, bought, usage, redeemed>>
    BY <2>1 DEF AdjustBalance, counts, codes
  <2>3. PICK n : account' = [account EXCEPT ![u].balance = n]
    BY <2>1 DEF AdjustBalance
  <2> QED
    BY <1>4, <1>5, <2>2, <2>3
<1> QED
  BY <1>7, <1>8, <1>9, <1>10, <1>11, <1>12

LEMMA InitLimitInv == Init => LimitInv
<1> SUFFICES ASSUME Init PROVE LimitInv
  OBVIOUS
<1>1. HistoryInv
  BY DEF Init, HistoryInv, Live, NoAccount
<1>2. BoughtOK
  BY PlansAssumption DEF PlansAssumption, Init, BoughtOK
<1>3. RedeemedOK
  BY OthersAssumption DEF OthersAssumption, Init, RedeemedOK
<1> QED
  BY <1>1, <1>2, <1>3 DEF LimitInv

LEMMA NextLimitInv == TypeInv /\ TypeInv' /\ LimitInv /\ [Next]_vars => LimitInv'
<1> SUFFICES ASSUME TypeInv, TypeInv', LimitInv, [Next]_vars PROVE LimitInv'
  OBVIOUS
<1>0. RowsOK /\ RowsOK'
  BY DEF TypeInv
<1>1. \A u \in Users : Live(u) => account[u].email \in Emails /\ Available(u, account[u].email)
  BY DEF TypeInv, AddressesOK, Available
<1>2. \A r \in Requests : RequestOK(request[r])
  BY DEF TypeInv, RequestsOK
<1>3. \A u \in Users : sub[u] # NoSub => Live(u)
  BY DEF TypeInv, SubsOK
<1>4. \A p \in Plans : Price[p] \in Nat
  BY PlansAssumption DEF PlansAssumption
<1>5. /\ \A i \in Users, p \in Plans : purchases[i][p] <= purchases[i][p]
      /\ \A i \in Users : usage[i] <= usage[i]
  BY <1>0 DEF RowsOK
<1>6. CASE \/ \E r \in Requests : Renew(r) \/ Cancel(r) \/ Reset(r) \/ Fails(r)
           \/ \E r \in Requests, u \in Users :
                 \/ \E p \in Plans : AskUpgrade(r, u, p)
                 \/ \E edit \in Edits : AskAdminUpdate(r, u, edit)
                 \/ AskRenewal(r, u) \/ AskCancel(r, u) \/ AskReset(r, u)
           \/ \E u \in Users :
                 \/ AdminRemove(u)
                 \/ \E amount \in Balances : AdjustBalance(u, amount)
                 \/ \E month \in Nat \cap {clock, clock - 1} : Bill(u, month)
           \/ \E c \in Codes : Revoke(c)
           \/ ExpireSubscriptions \/ MonthPasses \/ UNCHANGED vars
  <2>1. /\ UNCHANGED <<alias, purchases, bought, usage, redeemed>>
        /\ \A v \in Users : /\ account'[v].state = account[v].state
                            /\ account'[v].email = account[v].email
                            /\ account'[v].identity = account[v].identity
    BY <1>6, PlainSteps
  <2> QED
    BY <1>5, <2>1, Untouched DEF Live
\* A purchase.
<1>7. ASSUME NEW u \in Users, NEW e \in Emails, NEW p \in Plans, e = account[u].email, Live(u),
             ~Foreign(u, e), Claim(u, e, p), LimitedClaim(u, e, p) \/ bought' = bought,
             NEW price \in Nat, Subscribed(u, NewSub(p), price),
             UNCHANGED <<usage, redeemed>>
      PROVE  LimitInv'
  <2>1. /\ account'[u].email = e /\ account'[u].identity = Identity(u, e)
        /\ \A v \in Users : v # u => account'[v] = account[v]
        /\ alias' = Aliased(u, e)
    BY <1>0, <1>7, NewSubType, SubscribedType
  <2>2. \A i \in Users, q \in Plans : purchases[i][q] <= purchases'[i][q]
    BY <1>0, <1>7, ClaimType
  <2>3. Available(u, e)
    BY <1>1, <1>7
  <2> QED
    BY <1>5, <1>7, <2>1, <2>2, <2>3, UsesIdentity
<1>8. CASE \E u \in Users, p \in Plans : Subscribe(u, p) \/ AdminAssign(u, p)
  <2>1. PICK u \in Users, p \in Plans : Subscribe(u, p) \/ AdminAssign(u, p)
    BY <1>8
  <2>2. PICK e \in Emails : e = account[u].email /\ Live(u)
    BY <1>1, <2>1 DEF Subscribe, AdminAssign
  <2>3. CASE Subscribe(u, p)
    <3>1. /\ LimitedClaim(u, e, p) /\ Claim(u, e, p) /\ ~Foreign(u, e)
          /\ Subscribed(u, NewSub(p), Price[p]) /\ UNCHANGED <<usage, redeemed>>
      BY <2>2, <2>3 DEF Subscribe, LimitedClaim, codes
    <3> QED
      BY <1>4, <1>7, <2>2, <3>1
  <2>4. CASE AdminAssign(u, p)
    <3>1. /\ Claim(u, e, p) /\ ~Foreign(u, e) /\ bought' = bought
          /\ Subscribed(u, NewSub(p), 0) /\ UNCHANGED <<usage, redeemed>> /\ 0 \in Nat
      BY <2>2, <2>4 DEF AdminAssign, codes
    <3> QED
      BY <1>7, <2>2, <3>1
  <2> QED
    BY <2>1, <2>3, <2>4
<1>9. CASE \E r \in Requests : Upgrade(r)
  <2>1. PICK r \in Requests : Upgrade(r)
    BY <1>9
  <2>2. request[r].op = "upgrade"
    BY <2>1 DEF Upgrade, Asked
  <2>3. PICK u \in Users, p \in Plans : u = request[r].user /\ p = request[r].plan /\ sub[u] # NoSub
    BY <1>2, <2>2 DEF RequestOK
  <2>4. PICK e \in Emails : e = account[u].email /\ Live(u)
    BY <1>1, <1>3, <2>3
  <2>5. /\ LimitedClaim(u, e, p) /\ Claim(u, e, p) /\ ~Foreign(u, e)
        /\ Subscribed(u, NewSub(p), Price[p]) /\ UNCHANGED <<usage, redeemed>>
    BY <2>1, <2>3, <2>4 DEF Upgrade, LimitedClaim, codes
  <2> QED
    BY <1>4, <1>7, <2>4, <2>5
<1>10. CASE \E r \in Requests : AdminUpdate(r)
  <2>1. PICK r \in Requests : AdminUpdate(r)
    BY <1>10
  <2>2. request[r].op = "admin"
    BY <2>1 DEF AdminUpdate, Asked
  <2>3. PICK u \in Users : u = request[r].user /\ sub[u] # NoSub
    BY <1>2, <2>2 DEF RequestOK
  <2>4. PICK e \in Emails : e = account[u].email /\ Live(u)
    BY <1>1, <1>3, <2>3
  <2>5. PICK n \in Nat : n = request[r].sub.used
    BY <1>0 DEF RowsOK, RequestsType, Subscriptions
  <2>6. PICK m \in [Users -> Accounts] :
            /\ m = Mirrored(u, n)
            /\ \A v \in Users : /\ m[v].state = account[v].state
                                /\ m[v].email = account[v].email
                                /\ m[v].identity = account[v].identity
                                /\ v # u => m[v] = account[v]
    BY <1>0, MirroredType
  <2>7. UNCHANGED <<bought, usage, redeemed>>
    BY <2>1 DEF AdminUpdate, codes
  <2>8. CASE account' = m /\ UNCHANGED <<alias, purchases>>
    BY <1>5, <2>6, <2>7, <2>8, Untouched DEF Live
  <2>9. CASE ~(account' = m /\ UNCHANGED <<alias, purchases>>)
    <3>1. PICK i \in Users : i = Identity(u, e)
      BY <1>0, IdentityType
    <3>2. PICK p \in Plans : p = request[r].plan
      <4>1. request[r].plan \in Plans \cup {NoPlan}
        BY <1>0 DEF RowsOK, RequestsType
      <4>2. request[r].plan # NoPlan
        BY <2>1, <2>3, <2>5, <2>6, <2>9 DEF AdminUpdate
      <4> QED BY <4>1, <4>2
    <3>3. /\ ~Foreign(u, e) /\ Claim(u, e, p) /\ alias' = Aliased(u, e)
          /\ account' = [m EXCEPT ![u].identity = i]
      BY <2>1, <2>3, <2>4, <2>5, <2>6, <2>9, <3>1, <3>2 DEF AdminUpdate
    <3>4. PICK a \in Accounts : a = m[u]
      BY <2>6
    <3>5. account'[u] = [a EXCEPT !.identity = i] /\ \A v \in Users : v # u => account'[v] = account[v]
      BY <2>6, <3>3, <3>4
    <3>6. account'[u].email = e /\ account'[u].identity = i
      BY <2>4, <2>6, <3>4, <3>5 DEF Accounts
    <3>7. \A j \in Users, q \in Plans : purchases[j][q] <= purchases'[j][q]
      BY <1>0, <3>3, ClaimType
    <3>8. Available(u, e)
      BY <1>1, <2>4
    <3> QED
      BY <1>5, <2>7, <3>1, <3>3, <3>5, <3>6, <3>7, <3>8, UsesIdentity
  <2> QED
    BY <2>8, <2>9
<1>11. CASE \E u \in Users : DeleteUser(u)
  <2>1. PICK u \in Users : DeleteUser(u)
    BY <1>11
  <2>2. PICK e \in Emails : e = account[u].email /\ Live(u)
    BY <1>1, <2>1 DEF DeleteUser
  <2>3. PICK a : a = [NoAccount EXCEPT !.state = "deleted"] /\ a.state = "deleted"
    <3>1. [NoAccount EXCEPT !.state = "deleted"].state = "deleted"
      BY DEF NoAccount
    <3> QED
      BY <3>1
  <2>4. /\ ~Foreign(u, e) /\ alias' = Aliased(u, e) /\ account' = [account EXCEPT ![u] = a]
        /\ UNCHANGED <<purchases, bought, usage, redeemed>>
    BY <2>1, <2>2, <2>3 DEF DeleteUser, counts, codes
  <2>5. ~Live(u)' /\ \A v \in Users : v # u => account'[v] = account[v]
    BY <1>0, <2>3, <2>4 DEF Live, RowsOK
  <2>6. Available(u, e)
    BY <1>1, <2>2
  <2> QED
    BY <1>5, <2>4, <2>5, <2>6, UsesIdentity
\* A new account.
<1>12. ASSUME NEW u \in Users, NEW e \in Emails, account[u] = NoAccount, Available(u, e),
              NEW a \in Accounts, account' = [account EXCEPT ![u] = a], a.email = e,
              UNCHANGED <<usage, redeemed>>,
              \/ a.identity = NoUser /\ UNCHANGED <<alias, purchases, bought>>
              \/ /\ a.identity = Identity(u, e) /\ alias' = Aliased(u, e)
                 /\ \/ UNCHANGED <<purchases, bought>>
                    \/ \E p \in Plans : Claim(u, e, p) /\ (LimitedClaim(u, e, p) \/ bought' = bought)
       PROVE  LimitInv'
  <2>1. account'[u] = a /\ \A v \in Users : v # u => account'[v] = account[v]
    BY <1>0, <1>12 DEF RowsOK
  <2>2. CASE a.identity = NoUser /\ UNCHANGED <<alias, purchases, bought>>
    BY <1>5, <1>12, <2>1, <2>2, Untouched DEF Live
  <2>3. CASE /\ a.identity = Identity(u, e) /\ alias' = Aliased(u, e)
             /\ \/ UNCHANGED <<purchases, bought>>
                \/ \E p \in Plans : Claim(u, e, p) /\ (LimitedClaim(u, e, p) \/ bought' = bought)
    <3>1. ~Foreign(u, e)
      BY <1>12 DEF Foreign, Identity, NoAccount
    <3>2. \A i \in Users, q \in Plans : purchases[i][q] <= purchases'[i][q]
      BY <1>0, <1>5, <2>3, ClaimType
    <3> QED
      BY <1>5, <1>12, <2>1, <2>3, <3>1, <3>2, UsesIdentity
  <2> QED
    BY <1>12, <2>2, <2>3
<1>13. ASSUME NEW e \in Emails, NEW b \in Nat
       PROVE  /\ NewAccount(e, b) \in Accounts
              /\ NewAccount(e, b).identity = NoUser /\ NewAccount(e, b).email = e
  BY DEF NewAccount, Accounts
<1>14. CASE \E u \in Users, e \in Emails : Register(u, e)
  <2>1. PICK u \in Users, e \in Emails : Register(u, e)
    BY <1>14
  <2>2. PICK i \in Users : i = Identity(u, e)
    BY <1>0, IdentityType
  <2>3. account[u] = NoAccount /\ Available(u, e) /\ UNCHANGED <<usage, redeemed>>
    BY <2>1 DEF Register, codes
  <2>4. Gift \in Nat
    BY OthersAssumption DEF OthersAssumption
  <2>5. PICK x \in Accounts : x = NewAccount(e, Gift) /\ x.identity = NoUser /\ x.email = e
    BY <1>13, <2>4
  <2>6. CASE DefaultPlan = NoPlan
    <3>1. account' = [account EXCEPT ![u] = x] /\ UNCHANGED <<alias, purchases, bought>>
      BY <2>1, <2>5, <2>6 DEF Register
    <3> QED
      BY <1>12, <2>3, <2>5, <3>1
  <2>7. CASE DefaultPlan # NoPlan
    <3>1. PICK p \in Plans : p = DefaultPlan
      BY <2>7, PlansAssumption DEF PlansAssumption
    <3>2. alias' = Aliased(u, e)
      BY <2>1, <2>7 DEF Register
    <3>3. CASE /\ LimitedClaim(u, e, p) /\ Gift >= Price[p]
               /\ account' = [account EXCEPT ![u] =
                     [x EXCEPT !.identity = i, !.balance = Gift - Price[p]]]
      <4>1. PICK c \in Nat : c = Gift - Price[p]
        BY <1>4, <2>4, <3>3
      <4>2. PICK a : a = [x EXCEPT !.identity = i, !.balance = c]
        OBVIOUS
      <4>3. a \in Accounts /\ a.identity = i /\ a.email = e
        BY <2>5, <4>2 DEF Accounts
      <4>4. account' = [account EXCEPT ![u] = a] /\ Claim(u, e, p)
        BY <3>3, <4>1, <4>2 DEF LimitedClaim
      <4> QED
        BY <1>12, <2>2, <2>3, <3>2, <3>3, <4>3, <4>4
    <3>4. CASE /\ account' = [account EXCEPT ![u] = [x EXCEPT !.identity = i]]
               /\ UNCHANGED <<purchases, bought>>
      <4>1. PICK a : a = [x EXCEPT !.identity = i]
        OBVIOUS
      <4>2. a \in Accounts /\ a.identity = i /\ a.email = e
        BY <2>5, <4>1 DEF Accounts
      <4>3. account' = [account EXCEPT ![u] = a]
        BY <3>4, <4>1
      <4> QED
        BY <1>12, <2>2, <2>3, <3>2, <3>4, <4>2, <4>3
    <3> QED
      BY <2>1, <2>2, <2>5, <2>7, <3>1, <3>3, <3>4 DEF Register
  <2> QED
    BY <2>6, <2>7
<1>15. CASE \E u \in Users, e \in Emails, p \in Plans \cup {NoPlan} : CreateUser(u, e, p)
  <2>1. PICK u \in Users, e \in Emails, p \in Plans \cup {NoPlan} : CreateUser(u, e, p)
    BY <1>15
  <2>2. PICK i \in Users : i = Identity(u, e)
    BY <1>0, IdentityType
  <2>3. account[u] = NoAccount /\ Available(u, e) /\ UNCHANGED <<bought, usage, redeemed>> /\ 0 \in Nat
    BY <2>1 DEF CreateUser, codes
  <2>4. PICK x \in Accounts : x = NewAccount(e, 0) /\ x.identity = NoUser /\ x.email = e
    BY <1>13, <2>3
  <2>5. CASE p = NoPlan
    <3>1. account' = [account EXCEPT ![u] = x] /\ UNCHANGED <<alias, purchases>>
      BY <2>1, <2>4, <2>5 DEF CreateUser
    <3> QED
      BY <1>12, <2>3, <2>4, <3>1
  <2>6. CASE p # NoPlan
    <3>1. /\ p \in Plans /\ alias' = Aliased(u, e) /\ Claim(u, e, p)
          /\ account' = [account EXCEPT ![u] = [x EXCEPT !.identity = i]]
      BY <2>1, <2>2, <2>4, <2>6 DEF CreateUser
    <3>2. PICK a : a = [x EXCEPT !.identity = i]
      OBVIOUS
    <3>3. a \in Accounts /\ a.identity = i /\ a.email = e
      BY <2>4, <3>2 DEF Accounts
    <3>4. account' = [account EXCEPT ![u] = a]
      BY <3>1, <3>2
    <3> QED
      BY <1>12, <2>2, <2>3, <3>1, <3>3, <3>4
  <2> QED
    BY <2>5, <2>6
<1>16. CASE \E u \in Users, e \in Emails : ChangeEmail(u, e)
  <2>1. PICK u \in Users, e \in Emails : ChangeEmail(u, e)
    BY <1>16
  <2>2. PICK f \in Emails : f = account[u].email /\ Live(u)
    BY <1>1, <2>1 DEF ChangeEmail
  <2>3. PICK i \in Users : i = Identity(u, f)
    BY <1>0, IdentityType
  <2>4. PICK x \in Accounts : x = account[u]
    BY <1>0 DEF RowsOK
  <2>5. PICK a : a = [x EXCEPT !.email = e, !.identity = i]
    OBVIOUS
  <2>6. a.email = e /\ a.identity = i
    BY <2>4, <2>5 DEF Accounts
  <2>7. /\ account' = [account EXCEPT ![u] = a] /\ Available(u, e)
        /\ alias[e] \in {NoUser, i} /\ alias[f] \in {NoUser, i}
        /\ alias' = [alias EXCEPT ![f] = i, ![e] = IF @ = NoUser THEN i ELSE @]
        /\ UNCHANGED <<purchases, bought, usage, redeemed>>
    BY <1>0, <2>1, <2>2, <2>3, <2>4, <2>5
       DEF ChangeEmail, Bindable, Foreign, counts, codes, RowsOK
  <2>8. \A g \in Emails : \/ alias'[g] = alias[g] /\ g # e /\ g # f
                          \/ alias'[g] = i /\ alias[g] \in {NoUser, i}
    BY <1>0, <2>7, OthersAssumption DEF OthersAssumption, RowsOK
  <2>9. account'[u] = a /\ \A v \in Users : v # u => account'[v] = account[v]
    BY <1>0, <2>7 DEF RowsOK
  <2>10. HistoryInv'
    <3>1. SUFFICES ASSUME NEW v \in Users, Live(v)', account'[v].identity # NoUser
                   PROVE  alias'[account'[v].email] = account'[v].identity
      BY DEF HistoryInv
    <3>2. CASE v = u
      <4>1. alias'[e] = i
        BY <1>0, <2>7, OthersAssumption DEF OthersAssumption, RowsOK
      <4> QED
        BY <2>6, <2>9, <3>2, <4>1
    <3>3. CASE v # u
      <4>1. account'[v] = account[v] /\ Live(v)
        BY <2>9, <3>1, <3>3 DEF Live
      <4>2. account[v].email \in Emails /\ account[v].email # e /\ account[v].email # f
        BY <1>1, <2>2, <2>7, <3>3, <4>1 DEF Available
      <4>3. alias'[account[v].email] = alias[account[v].email]
        BY <1>0, <2>7, <4>2 DEF RowsOK
      <4> QED
        BY <3>1, <4>1, <4>3 DEF LimitInv, HistoryInv
    <3> QED
      BY <3>2, <3>3
  <2>11. BoughtOK'
    <3>1. SUFFICES ASSUME NEW g \in Emails, NEW p \in Plans, Limit[p] # Unlimited
                   PROVE  /\ bought[g][p] <= Limit[p]
                          /\ bought[g][p] <= IF alias'[g] = NoUser THEN 0 ELSE purchases[alias'[g]][p]
      BY <2>7 DEF BoughtOK
    <3>2. /\ bought[g][p] <= Limit[p]
          /\ bought[g][p] <= IF alias[g] = NoUser THEN 0 ELSE purchases[alias[g]][p]
      BY <3>1 DEF LimitInv, BoughtOK
    <3>3. bought[g][p] \in Nat /\ purchases[i][p] \in Nat
      BY <1>0 DEF RowsOK
    <3> QED
      BY <2>8, <3>2, <3>3, OthersAssumption DEF OthersAssumption
  <2>12. RedeemedOK'
    <3>1. SUFFICES ASSUME NEW g \in Emails, CategoryLimit # Unlimited
                   PROVE  /\ redeemed[g] <= CategoryLimit
                          /\ redeemed[g] <= IF alias'[g] = NoUser THEN 0 ELSE usage[alias'[g]]
      BY <2>7 DEF RedeemedOK
    <3>2. /\ redeemed[g] <= CategoryLimit
          /\ redeemed[g] <= IF alias[g] = NoUser THEN 0 ELSE usage[alias[g]]
      BY <3>1 DEF LimitInv, RedeemedOK
    <3>3. redeemed[g] \in Nat /\ usage[i] \in Nat
      BY <1>0 DEF RowsOK
    <3> QED
      BY <2>8, <3>2, <3>3, OthersAssumption DEF OthersAssumption
  <2> QED
    BY <2>10, <2>11, <2>12 DEF LimitInv
<1>17. CASE \E u \in Users, c \in Codes : Redeem(u, c)
  <2>1. PICK u \in Users, c \in Codes : Redeem(u, c)
    BY <1>17
  <2>2. PICK e \in Emails : e = account[u].email /\ Live(u)
    BY <1>1, <2>1 DEF Redeem
  <2>3. PICK i \in Users : i = Identity(u, e)
    BY <1>0, IdentityType
  <2>4. /\ ~Foreign(u, e) /\ Within(usage[i], CategoryLimit)
        /\ redeemed' = [redeemed EXCEPT ![e] = @ + 1]
        /\ usage' = [usage EXCEPT ![i] = @ + 1]
    BY <2>1, <2>2, <2>3 DEF Redeem, Redeemable
  <2>5. \A j \in Users : usage[j] <= usage'[j]
    BY <1>0, <2>4 DEF RowsOK
  <2>6. Available(u, e)
    BY <1>1, <2>2
  <2>7. CASE Reward[c] \in Plans
    <3>1. PICK p \in Plans : p = Reward[c]
      BY <2>7
    <3>2. LimitedClaim(u, e, p) /\ Claim(u, e, p) /\ Subscribed(u, NewSub(p), 0) /\ 0 \in Nat
      BY <2>1, <2>2, <3>1 DEF Redeem, LimitedClaim
    <3>3. /\ account'[u].email = e /\ account'[u].identity = Identity(u, e)
          /\ \A v \in Users : v # u => account'[v] = account[v]
          /\ alias' = Aliased(u, e)
      BY <1>0, <2>2, <3>2, NewSubType, SubscribedType
    <3>4. \A j \in Users, q \in Plans : purchases[j][q] <= purchases'[j][q]
      BY <1>0, <3>2, ClaimType
    <3> QED
      BY <2>3, <2>4, <2>5, <2>6, <3>2, <3>3, <3>4, UsesIdentity
  <2>8. CASE Reward[c] \notin Plans
    <3>1. PICK x \in Accounts : x = account[u]
      BY <1>0 DEF RowsOK
    <3>2. PICK b : b = x.balance + Reward[c]
      OBVIOUS
    <3>3. PICK a : a = [x EXCEPT !.balance = b, !.identity = i]
      OBVIOUS
    <3>4. a.email = x.email /\ a.identity = i
      BY <3>3 DEF Accounts
    <3>5. /\ account' = [account EXCEPT ![u] = a] /\ alias' = Aliased(u, e)
          /\ UNCHANGED <<purchases, bought>>
      BY <1>0, <2>1, <2>2, <2>3, <2>8, <3>1, <3>2, <3>3 DEF Redeem, RowsOK
    <3>6. account'[u] = a /\ \A v \in Users : v # u => account'[v] = account[v]
      BY <1>0, <3>5 DEF RowsOK
    <3> QED
      BY <1>5, <2>2, <2>3, <2>4, <2>5, <2>6, <3>1, <3>4, <3>5, <3>6, UsesIdentity
  <2> QED
    BY <2>7, <2>8
<1> QED
  BY <1>6, <1>8, <1>9, <1>10, <1>11, <1>14, <1>15, <1>16, <1>17 DEF Next, Ends

LEMMA AlwaysLimited == Spec => []LimitInv
<1>1. Init => TypeInv /\ LimitInv
  BY InitTypeInv, InitLimitInv
<1>2. TypeInv /\ LimitInv /\ [Next]_vars => (TypeInv /\ LimitInv)'
  BY NextTypeInv, NextLimitInv
<1> QED
  BY <1>1, <1>2, PTL DEF Spec

\* The limits hold for what is bought and redeemed under an address, across accounts
\* that are deleted and registered anew and addresses that change hands.
THEOREM LimitsHold == Spec => []LimitPerAddress
<1>1. LimitInv => LimitPerAddress
  BY DEF LimitInv, BoughtOK, RedeemedOK, LimitPerAddress
<1> QED
  BY <1>1, AlwaysLimited, PTL

\* ensureIdentityForUser never refuses the address an account has.
THEOREM HistoryIsOwn == Spec => []NoForeignHistory
<1>1. LimitInv => NoForeignHistory
  BY DEF LimitInv, HistoryInv, NoForeignHistory, Foreign, Identity
<1> QED
  BY <1>1, AlwaysLimited, PTL

-----------------------------------------------------------------------------
\* Usage.

LEMMA NextUsageInv == TypeInv /\ TypeInv' /\ UsageInv /\ [Next]_vars => UsageInv'
<1> SUFFICES ASSUME TypeInv, TypeInv', UsageInv, [Next]_vars PROVE UsageInv'
  OBVIOUS
<1>0. RowsOK /\ RowsOK'
  BY DEF TypeInv
<1>1. \A u \in Users : UsageOK(u)
  BY DEF UsageInv
<1>2. \A r \in Requests : RequestOK(request[r])
  BY DEF TypeInv, RequestsOK
<1>3. \A u \in Users : Live(u) => account[u].email \in Emails
  BY DEF TypeInv, AddressesOK
<1>4. \A p \in Plans : Price[p] \in Nat
  BY PlansAssumption DEF PlansAssumption
<1>5. \A u \in Users : sub[u] # NoSub => Live(u) /\ sub[u].plan \in Plans
  BY DEF TypeInv, SubsOK
\* One user's row changes.
<1>6. ASSUME NEW u \in Users,
             \A v \in Users : v # u => /\ account'[v].used = account[v].used
                                       /\ sub'[v] = sub[v],
             UsageOK(u)'
      PROVE  UsageInv'
  <2>1. ASSUME NEW v \in Users, v # u PROVE UsageOK(v)'
    BY <1>1, <1>6, <2>1 DEF UsageOK
  <2> QED
    BY <1>6, <2>1 DEF UsageInv
\* None does.
<1>7. ASSUME UNCHANGED sub, \A v \in Users : account'[v].used = account[v].used
      PROVE  UsageInv'
  BY <1>1, <1>7 DEF UsageInv, UsageOK
\* A purchase.
<1>8. ASSUME NEW u \in Users, NEW p \in Plans, NEW price \in Nat, Live(u),
             Subscribed(u, NewSub(p), price)
      PROVE  UsageInv'
  <2>1. /\ sub'[u] = NewSub(p) /\ NewSub(p).used = 0
        /\ account'[u].used = NewSub(p).used
        /\ \A v \in Users : v # u => account'[v] = account[v] /\ sub'[v] = sub[v]
    BY <1>0, <1>3, <1>8, NewSubType, SubscribedType
  <2>2. UsageOK(u)'
    BY <2>1 DEF UsageOK
  <2> QED
    BY <1>6, <2>1, <2>2
<1>9. CASE \E u \in Users, p \in Plans : Subscribe(u, p) \/ AdminAssign(u, p)
  <2>1. PICK u \in Users, p \in Plans : Subscribe(u, p) \/ AdminAssign(u, p)
    BY <1>9
  <2>2. PICK price \in Nat : Subscribed(u, NewSub(p), price) /\ Live(u)
    <3>1. 0 \in Nat
      OBVIOUS
    <3> QED
      BY <1>4, <2>1, <3>1 DEF Subscribe, AdminAssign
  <2> QED
    BY <1>8, <2>2
<1>10. CASE \E r \in Requests : Upgrade(r)
  <2>1. PICK r \in Requests : Upgrade(r)
    BY <1>10
  <2>2. request[r].op = "upgrade"
    BY <2>1 DEF Upgrade, Asked
  <2>3. PICK u \in Users, p \in Plans : u = request[r].user /\ p = request[r].plan /\ sub[u] # NoSub
    BY <1>2, <2>2 DEF RequestOK
  <2>4. Subscribed(u, NewSub(p), Price[p])
    BY <2>1, <2>3 DEF Upgrade
  <2> QED
    BY <1>4, <1>5, <1>8, <2>3, <2>4
<1>11. CASE \E r \in Requests : Renew(r)
  <2>1. PICK r \in Requests : Renew(r)
    BY <1>11
  <2>2. request[r].op = "renew" /\ RequestOK(request[r])
    BY <1>2, <2>1 DEF Renew, Asked
  <2>3. PICK u \in Users : u = request[r].user
    BY <2>2 DEF RequestOK
  <2>4. PICK s \in Subscriptions : s = request[r].sub /\ s.used = 0
    BY <1>0, <2>2 DEF RequestOK, RowsOK, RequestsType
  <2>5. PICK x : x = [s EXCEPT !.plan = sub[u].plan]
    OBVIOUS
  <2>6. x.used = 0
    BY <2>4, <2>5 DEF Subscriptions
  <2>7. PICK m \in [Users -> Accounts] :
            /\ m = Mirrored(u, 0) /\ m[u].used = 0
            /\ \A v \in Users : v # u => m[v] = account[v]
    BY <1>0, MirroredType
  <2>8. PICK b : account' = [m EXCEPT ![u].balance = b]
    BY <2>1, <2>3, <2>7 DEF Renew
  <2>9. PICK a \in Accounts : a = m[u]
    BY <2>7
  <2>10. account'[u] = [a EXCEPT !.balance = b] /\ \A v \in Users : v # u => account'[v] = account[v]
    BY <2>7, <2>8, <2>9
  <2>11. account'[u].used = 0
    BY <2>7, <2>9, <2>10 DEF Accounts
  <2>12. sub' = [sub EXCEPT ![u] = x]
    BY <2>1, <2>3, <2>4, <2>5 DEF Renew
  <2>13. sub'[u] = x /\ \A v \in Users : v # u => sub'[v] = sub[v]
    BY <1>0, <2>12 DEF RowsOK
  <2>14. UsageOK(u)'
    BY <2>6, <2>11, <2>13 DEF UsageOK
  <2> QED
    BY <1>6, <2>10, <2>13, <2>14
<1>12. CASE \E r \in Requests : AdminUpdate(r)
  <2>1. PICK r \in Requests : AdminUpdate(r)
    BY <1>12
  <2>2. request[r].op = "admin"
    BY <2>1 DEF AdminUpdate, Asked
  <2>3. PICK u \in Users : u = request[r].user /\ sub[u] # NoSub
    BY <1>2, <2>2 DEF RequestOK
  <2>4. PICK n \in Nat : n = request[r].sub.used
    BY <1>0 DEF RowsOK, RequestsType, Subscriptions
  <2>5. PICK m \in [Users -> Accounts] :
            /\ m = Mirrored(u, n) /\ m[u].used = n
            /\ \A v \in Users : v # u => m[v] = account[v]
    BY <1>0, MirroredType
  <2>6. account' = m \/ \E i : account' = [m EXCEPT ![u].identity = i]
    BY <2>1, <2>3, <2>4, <2>5 DEF AdminUpdate
  <2>7. /\ account'[u].used = n
        /\ \A v \in Users : v # u => account'[v] = account[v]
    <3>1. CASE account' = m
      BY <2>5, <3>1
    <3>2. CASE \E i : account' = [m EXCEPT ![u].identity = i]
      <4>1. PICK i : account' = [m EXCEPT ![u].identity = i]
        BY <3>2
      <4>2. PICK a \in Accounts : a = m[u]
        BY <2>5
      <4>3. /\ account'[u] = [a EXCEPT !.identity = i]
            /\ \A v \in Users : v # u => account'[v] = account[v]
        BY <2>5, <4>1, <4>2
      <4>4. [a EXCEPT !.identity = i].used = a.used
        BY DEF Accounts
      <4> QED
        BY <2>5, <4>2, <4>3, <4>4
    <3> QED
      BY <2>6, <3>1, <3>2
  <2>8. PICK p \in Plans \cup {NoPlan} : p = request[r].plan
    BY <1>0 DEF RowsOK, RequestsType
  <2>9. PICK t : t = IF p = NoPlan THEN sub[u].period ELSE PeriodStart(p)
    OBVIOUS
  <2>10. PICK st, pl, ex, x :
             /\ x = [status |-> st, plan |-> pl, expire |-> ex, used |-> n, period |-> t]
             /\ sub' = [sub EXCEPT ![u] = x]
    <3>1. sub' = [sub EXCEPT ![u] =
                    [status |-> IF request[r].sub.status = "NONE" THEN sub[u].status
                                ELSE request[r].sub.status,
                     plan |-> IF p = NoPlan THEN sub[u].plan ELSE p,
                     expire |-> request[r].sub.expire, used |-> n, period |-> t]]
      BY <1>0, <2>1, <2>3, <2>4, <2>8, <2>9 DEF AdminUpdate, RowsOK
    <3> QED
      BY <3>1
  <2>11. x.used = n
    BY <2>10
  <2>12. sub'[u] = x /\ \A v \in Users : v # u => sub'[v] = sub[v]
    BY <1>0, <2>10 DEF RowsOK
  <2>13. UsageOK(u)'
    BY <2>7, <2>11, <2>12 DEF UsageOK
  <2> QED
    BY <1>6, <2>7, <2>12, <2>13
<1>13. CASE \E r \in Requests : Cancel(r)
  <2>1. PICK r \in Requests : Cancel(r)
    BY <1>13
  <2>2. request[r].op = "cancel"
    BY <2>1 DEF Cancel, Asked
  <2>3. PICK u \in Users : u = request[r].user /\ sub[u] # NoSub
    BY <1>2, <2>2 DEF RequestOK
  <2>4. PICK s, x : /\ s \in Subscriptions /\ s = sub[u]
                    /\ x = [s EXCEPT !.status = request[r].sub.status]
    BY <1>0 DEF RowsOK
  <2>5. x.used = s.used
    BY <2>4 DEF Subscriptions
  <2>6. sub' = [sub EXCEPT ![u] = x] /\ UNCHANGED account
    BY <2>1, <2>3, <2>4 DEF Cancel, people
  <2>7. sub'[u] = x /\ \A v \in Users : v # u => sub'[v] = sub[v]
    BY <1>0, <2>6 DEF RowsOK
  <2>8. account[u].used = s.used
    BY <1>1, <2>3, <2>4 DEF UsageOK
  <2>9. UsageOK(u)'
    BY <2>5, <2>6, <2>7, <2>8 DEF UsageOK
  <2> QED
    BY <1>6, <2>6, <2>7, <2>9
<1>14. CASE \E r \in Requests : Reset(r)
  <2>1. PICK r \in Requests : Reset(r)
    BY <1>14
  <2>2. request[r].op = "reset" /\ RequestOK(request[r])
    BY <1>2, <2>1 DEF Reset, Asked
  <2>3. PICK u \in Users : u = request[r].user /\ sub[u] # NoSub
    BY <2>2 DEF RequestOK
  <2>4. PICK s \in Subscriptions, read \in Subscriptions, month \in Nat :
            /\ s = sub[u] /\ read = request[r].sub /\ month = request[r].month
    BY <1>0 DEF RowsOK, RequestsType
  <2>6. CASE UNCHANGED <<sub, account>>
    BY <1>7, <2>6
  <2>7. CASE /\ s.period = read.period
             /\ sub' = [sub EXCEPT ![u].period = month,
                                   ![u].used = IF read.period = NoPeriod THEN @ ELSE 0]
             /\ account' = IF read.period = NoPeriod THEN account ELSE Mirrored(u, 0)
    <3>1. PICK x : x = [s EXCEPT !.period = month, !.used = IF read.period = NoPeriod THEN s.used ELSE 0]
      OBVIOUS
    <3>2. x.used = IF read.period = NoPeriod THEN s.used ELSE 0
      BY <3>1 DEF Subscriptions
    <3>3. sub' = [sub EXCEPT ![u] = x]
      <4>1. [s EXCEPT !.period = month].used = s.used
        BY DEF Subscriptions
      <4>2. PICK y : y = [s EXCEPT !.period = month] /\ y.used = s.used
        BY <4>1
      <4>3. sub' = [[sub EXCEPT ![u] = y] EXCEPT ![u].used = IF read.period = NoPeriod THEN @ ELSE 0]
        BY <2>4, <2>7, <4>2
      <4>4. sub' = [sub EXCEPT ![u] = [y EXCEPT !.used = IF read.period = NoPeriod THEN y.used ELSE 0]]
        BY <1>0, <4>3 DEF RowsOK
      <4> QED
        BY <3>1, <4>2, <4>4
    <3>4. sub'[u] = x /\ \A v \in Users : v # u => sub'[v] = sub[v]
      BY <1>0, <3>3 DEF RowsOK
    <3>5. PICK m \in [Users -> Accounts] :
              /\ m = Mirrored(u, 0) /\ m[u].used = 0
              /\ \A v \in Users : v # u => m[v] = account[v]
      BY <1>0, MirroredType
    <3>6. account[u].used = s.used
      BY <1>1, <2>3, <2>4 DEF UsageOK
    <3>7. /\ account'[u].used = x.used
          /\ \A v \in Users : v # u => account'[v] = account[v]
      BY <2>7, <3>2, <3>5, <3>6
    <3>8. UsageOK(u)'
      BY <3>4, <3>7 DEF UsageOK
    <3> QED
      BY <1>6, <3>4, <3>7, <3>8
  <2> QED
    BY <2>1, <2>3, <2>4, <2>6, <2>7 DEF Reset, Unchanged
<1>15. CASE \/ \E r \in Requests : Fails(r)
            \/ \E c \in Codes : Revoke(c)
            \/ UNCHANGED vars
  <2>1. UNCHANGED <<account, sub>>
    BY <1>15 DEF Fails, Revoke, vars, people
  <2> QED
    BY <1>7, <2>1
<1>16. CASE \E r \in Requests, u \in Users :
                \/ \E p \in Plans : AskUpgrade(r, u, p)
                \/ \E edit \in Edits : AskAdminUpdate(r, u, edit)
                \/ AskRenewal(r, u) \/ AskCancel(r, u) \/ AskReset(r, u)
  <2>1. ASSUME NEW r, NEW q, Ask(r, q) PROVE UsageInv'
    BY <1>7, <2>1 DEF Ask, people
  <2>2. PICK r \in Requests, u \in Users :
            \/ \E p \in Plans : AskUpgrade(r, u, p)
            \/ \E edit \in Edits : AskAdminUpdate(r, u, edit)
            \/ AskRenewal(r, u) \/ AskCancel(r, u) \/ AskReset(r, u)
    BY <1>16
  <2>3. CASE \E p \in Plans : AskUpgrade(r, u, p)
    BY <2>1, <2>3 DEF AskUpgrade
  <2>4. CASE \E edit \in Edits : AskAdminUpdate(r, u, edit)
    BY <2>1, <2>4 DEF AskAdminUpdate
  <2>5. CASE AskRenewal(r, u)
    BY <2>1, <2>5 DEF AskRenewal
  <2>6. CASE AskCancel(r, u)
    BY <2>1, <2>6 DEF AskCancel
  <2>7. CASE AskReset(r, u)
    BY <2>1, <2>7 DEF AskReset
  <2> QED
    BY <2>2, <2>3, <2>4, <2>5, <2>6, <2>7
\* A row is deleted.
<1>17. CASE \E u \in Users : AdminRemove(u) \/ DeleteUser(u)
  <2>1. PICK u \in Users : AdminRemove(u) \/ DeleteUser(u)
    BY <1>17
  <2>2. /\ sub' = [sub EXCEPT ![u] = NoSub]
        /\ \E a : account' = [account EXCEPT ![u] = a]
    BY <2>1 DEF AdminRemove, DeleteUser
  <2>3. /\ sub'[u] = NoSub
        /\ \A v \in Users : v # u => account'[v] = account[v] /\ sub'[v] = sub[v]
    BY <1>0, <2>2 DEF RowsOK
  <2>4. UsageOK(u)'
    BY <2>3 DEF UsageOK
  <2> QED
    BY <1>6, <2>3, <2>4
<1>18. CASE ExpireSubscriptions
  <2>1. ASSUME NEW u \in Users PROVE UsageOK(u)'
    <3>1. PICK s \in Subscriptions : s = sub[u]
      BY <1>0 DEF RowsOK
    <3>2. sub'[u] = s \/ (s.status # "NONE" /\ sub'[u] = [s EXCEPT !.status = "EXPIRED"])
      BY <1>18, <3>1 DEF ExpireSubscriptions
    <3>3. sub'[u].used = s.used /\ UNCHANGED account
      BY <1>18, <3>2 DEF Subscriptions, ExpireSubscriptions, people
    <3>4. sub[u] = NoSub => sub'[u] = NoSub
      BY <3>1, <3>2 DEF NoSub
    <3> QED
      BY <1>1, <3>1, <3>3, <3>4 DEF UsageOK
  <2> QED
    BY <2>1 DEF UsageInv
<1>19. CASE \E u \in Users : \E month \in Nat \cap {clock, clock - 1} : Bill(u, month)
  <2>1. PICK u \in Users, m \in Nat : Bill(u, m) /\ (m = clock \/ m = clock - 1)
    BY <1>19
  <2>2. PICK x \in Subscriptions :
            /\ x = Counted(sub[u], m)
            /\ x.used = IF Started(sub[u], m) THEN 1 ELSE sub[u].used + 1
    BY <1>0, <2>1, CountedType
  <2>3. PICK a \in Accounts : a = account[u]
    BY <1>0 DEF RowsOK
  <2>4. PICK n \in Nat : n = IF Started(sub[u], m) THEN 1 ELSE a.used + 1
    BY DEF Accounts
  <2>5. account' = [account EXCEPT ![u] = [a EXCEPT !.used = n]]
    BY <1>0, <2>1, <2>3, <2>4 DEF Bill, RowsOK
  <2>6. [a EXCEPT !.used = n].used = n
    BY DEF Accounts
  <2>7. account'[u].used = n /\ \A v \in Users : v # u => account'[v] = account[v]
    BY <1>0, <2>5, <2>6 DEF RowsOK
  <2>8. sub' = IF sub[u] = NoSub THEN sub ELSE [sub EXCEPT ![u] = x]
    BY <1>0, <2>1, <2>2 DEF Bill, RowsOK
  <2>9. \A v \in Users : v # u => sub'[v] = sub[v]
    BY <1>0, <2>8 DEF RowsOK
  <2>10. UsageOK(u)'
    <3>1. CASE sub[u] = NoSub
      BY <2>8, <3>1 DEF UsageOK
    <3>2. CASE sub[u] # NoSub
      <4>1. sub'[u] = x
        BY <1>0, <2>8, <3>2 DEF RowsOK
      <4>2. a.used = sub[u].used
        BY <1>1, <2>3, <3>2 DEF UsageOK
      <4> QED
        BY <2>2, <2>4, <2>7, <4>1, <4>2 DEF UsageOK
    <3> QED
      BY <3>1, <3>2
  <2> QED
    BY <1>6, <2>7, <2>9, <2>10
<1>20. CASE MonthPasses
  BY <1>7, <1>20 DEF MonthPasses, people
\* A new account.
<1>21. ASSUME NEW u \in Users, NEW e \in Emails, NEW b \in Nat
       PROVE  NewAccount(e, b) \in Accounts /\ NewAccount(e, b).used = 0
  BY DEF NewAccount, Accounts
<1>22. ASSUME NEW u \in Users, account[u] = NoAccount, NEW a, a.used = 0,
              account' = [account EXCEPT ![u] = a],
              sub' = sub \/ \E p \in Plans : sub' = [sub EXCEPT ![u] = NewSub(p)]
       PROVE  UsageInv'
  <2>1. /\ account'[u].used = 0
        /\ \A v \in Users : v # u => account'[v] = account[v] /\ sub'[v] = sub[v]
    BY <1>0, <1>22 DEF RowsOK
  <2>2. sub[u] = NoSub
    BY <1>5, <1>22 DEF Live, NoAccount
  <2>3. sub'[u] = NoSub \/ sub'[u].used = 0
    BY <1>0, <1>22, <2>2, NewSubType DEF RowsOK
  <2>4. UsageOK(u)'
    BY <2>1, <2>3 DEF UsageOK
  <2> QED
    BY <1>6, <1>22, <2>1, <2>4
<1>23. CASE \E u \in Users, e \in Emails : Register(u, e)
  <2>1. PICK u \in Users, e \in Emails : Register(u, e)
    BY <1>23
  <2>2. Gift \in Nat
    BY OthersAssumption DEF OthersAssumption
  <2>3. PICK x \in Accounts : x = NewAccount(e, Gift) /\ x.used = 0
    BY <1>21, <2>2
  <2>4. \/ account' = [account EXCEPT ![u] = x]
        \/ \E i : account' = [account EXCEPT ![u] = [x EXCEPT !.identity = i]]
        \/ \E i, c : account' = [account EXCEPT ![u] = [x EXCEPT !.identity = i, !.balance = c]]
    BY <2>1, <2>3 DEF Register
  <2>5. \A i : [x EXCEPT !.identity = i].used = 0
    BY <2>3 DEF Accounts
  <2>6. PICK a : account' = [account EXCEPT ![u] = a] /\ a.used = 0
    <3>1. CASE account' = [account EXCEPT ![u] = x]
      BY <2>3, <3>1
    <3>2. CASE \E i : account' = [account EXCEPT ![u] = [x EXCEPT !.identity = i]]
      BY <2>5, <3>2
    <3>3. CASE \E i, c : account' = [account EXCEPT ![u] = [x EXCEPT !.identity = i, !.balance = c]]
      <4>1. PICK i, c : account' = [account EXCEPT ![u] = [x EXCEPT !.identity = i, !.balance = c]]
        BY <3>3
      <4>2. [x EXCEPT !.identity = i, !.balance = c].used = 0
        BY <2>3 DEF Accounts
      <4> QED
        BY <4>1, <4>2
    <3> QED
      BY <2>4, <3>1, <3>2, <3>3
  <2>7. /\ account[u] = NoAccount
        /\ sub' = sub \/ \E p \in Plans : sub' = [sub EXCEPT ![u] = NewSub(p)]
    BY <2>1, PlansAssumption DEF PlansAssumption, Register
  <2> QED
    BY <1>22, <2>6, <2>7
<1>24. CASE \E u \in Users, e \in Emails, p \in Plans \cup {NoPlan} : CreateUser(u, e, p)
  <2>1. PICK u \in Users, e \in Emails, p \in Plans \cup {NoPlan} : CreateUser(u, e, p)
    BY <1>24
  <2>2. 0 \in Nat
    OBVIOUS
  <2>3. PICK x \in Accounts : x = NewAccount(e, 0) /\ x.used = 0
    BY <1>21, <2>2
  <2>4. \/ account' = [account EXCEPT ![u] = x]
        \/ \E i : account' = [account EXCEPT ![u] = [x EXCEPT !.identity = i]]
    BY <2>1, <2>3 DEF CreateUser
  <2>5. \A i : [x EXCEPT !.identity = i].used = 0
    BY <2>3 DEF Accounts
  <2>6. PICK a : account' = [account EXCEPT ![u] = a] /\ a.used = 0
    BY <2>3, <2>4, <2>5
  <2>7. /\ account[u] = NoAccount
        /\ sub' = sub \/ \E q \in Plans : sub' = [sub EXCEPT ![u] = NewSub(q)]
    BY <2>1 DEF CreateUser
  <2> QED
    BY <1>22, <2>6, <2>7
\* An account changes, and its usage does not.
<1>25. ASSUME NEW u \in Users, NEW a, a.used = account[u].used, account' = [account EXCEPT ![u] = a],
              UNCHANGED sub
       PROVE  UsageInv'
  <2>1. \A v \in Users : account'[v].used = account[v].used
    BY <1>0, <1>25 DEF RowsOK
  <2> QED
    BY <1>7, <1>25, <2>1
<1>26. CASE \E u \in Users, e \in Emails : ChangeEmail(u, e)
  <2>1. PICK u \in Users, e \in Emails : ChangeEmail(u, e)
    BY <1>26
  <2>2. PICK x \in Accounts : x = account[u]
    BY <1>0 DEF RowsOK
  <2>3. PICK i : i = Identity(u, x.email)
    OBVIOUS
  <2>4. PICK a : a = [x EXCEPT !.email = e, !.identity = i]
    OBVIOUS
  <2>5. a.used = x.used
    BY <2>4 DEF Accounts
  <2>6. account' = [account EXCEPT ![u] = a] /\ UNCHANGED sub
    BY <1>0, <2>1, <2>2, <2>3, <2>4 DEF ChangeEmail, RowsOK
  <2> QED
    BY <1>25, <2>2, <2>5, <2>6
<1>27. CASE \E u \in Users, amount \in Balances : AdjustBalance(u, amount)
  <2>1. PICK u \in Users, b \in Balances : AdjustBalance(u, b)
    BY <1>27
  <2>2. PICK x \in Accounts : x = account[u]
    BY <1>0 DEF RowsOK
  <2>3. PICK a : a = [x EXCEPT !.balance = b]
    OBVIOUS
  <2>4. a.used = x.used
    BY <2>3 DEF Accounts
  <2>5. account' = [account EXCEPT ![u] = a] /\ UNCHANGED sub
    BY <1>0, <2>1, <2>2, <2>3 DEF AdjustBalance, RowsOK
  <2> QED
    BY <1>25, <2>2, <2>4, <2>5
<1>28. CASE \E u \in Users, c \in Codes : Redeem(u, c)
  <2>1. PICK u \in Users, c \in Codes : Redeem(u, c)
    BY <1>28
  <2>2. Live(u)
    BY <2>1 DEF Redeem
  <2>3. CASE Reward[c] \in Plans
    <3>1. PICK p \in Plans : p = Reward[c]
      BY <2>3
    <3>2. Subscribed(u, NewSub(p), 0) /\ 0 \in Nat
      BY <2>1, <3>1 DEF Redeem
    <3> QED
      BY <1>8, <2>2, <3>2
  <2>4. CASE Reward[c] \notin Plans
    <3>1. PICK x \in Accounts : x = account[u]
      BY <1>0 DEF RowsOK
    <3>2. PICK b, i : b = x.balance + Reward[c] /\ i = Identity(u, x.email)
      OBVIOUS
    <3>3. PICK a : a = [x EXCEPT !.balance = b, !.identity = i]
      OBVIOUS
    <3>4. a.used = x.used
      BY <3>3 DEF Accounts
    <3>5. account' = [account EXCEPT ![u] = a] /\ UNCHANGED sub
      BY <1>0, <2>1, <2>4, <3>1, <3>2, <3>3 DEF Redeem, RowsOK
    <3> QED
      BY <1>25, <2>2, <3>1, <3>4, <3>5
  <2> QED
    BY <2>3, <2>4
<1> QED
  BY <1>9, <1>10, <1>11, <1>12, <1>13, <1>14, <1>15, <1>16, <1>17, <1>18, <1>19, <1>20, <1>23,
     <1>24, <1>26, <1>27, <1>28 DEF Next, Ends

LEMMA AlwaysCounted == Spec => []UsageInv
<1>1. Init => TypeInv /\ UsageInv
  <2>1. Init => UsageInv
    BY DEF Init, UsageInv, UsageOK
  <2> QED
    BY <2>1, InitTypeInv
<1>2. TypeInv /\ UsageInv /\ [Next]_vars => (TypeInv /\ UsageInv)'
  BY NextTypeInv, NextUsageInv
<1> QED
  BY <1>1, <1>2, PTL DEF Spec

UsageIsMirrored == \A u \in Users : sub[u] # NoSub => account[u].used = sub[u].used

\* The usage in a user's row is that of the subscription, whatever the plans
\* (syncUserMirror).
THEOREM UsageMirrored == Spec => []UsageIsMirrored
<1>1. UsageInv => UsageIsMirrored
  BY DEF UsageInv, UsageOK, UsageIsMirrored
<1> QED
  BY <1>1, AlwaysCounted, PTL

-----------------------------------------------------------------------------
\* Quotas.

\* A quota that starts anew, or counts nothing more and misses no less.
LEMMA QuotaStays ==
    ASSUME TypeInv, TypeInv', HistoryOK, HistoryOK', NEW u \in Users, QuotaOK(u),
           \/ sub'[u] = NoSub
           \/ fresh'[u] = 0
           \/ /\ sub[u] # NoSub /\ fresh'[u] = fresh[u] /\ lost[u] <= lost'[u]
              /\ fresh'[u] <= sub'[u].used + lost'[u]
              /\ Due(sub[u])' => Due(sub[u])
              /\ \A r \in Requests :
                    FormOpen(r, u)' => /\ FormOpen(r, u)
                                       /\ request'[r].sub.used = request[r].sub.used
                                       /\ missed'[r] = missed[r]
    PROVE  QuotaOK(u)'
<1>1. PICK n \in Nat, f \in Nat, l \in Nat, k \in Nat, g \in Nat :
          n = sub'[u].used /\ f = fresh'[u] /\ l = lost'[u] /\ k = lost[u] /\ g = fresh[u]
  BY DEF TypeInv, RowsOK, HistoryOK, Subscriptions
<1>2. \A r \in Requests : /\ request'[r].sub.used \in Nat /\ missed'[r] \in Nat
                          /\ request[r].sub.used \in Nat /\ missed[r] \in Nat
  BY DEF TypeInv, RowsOK, HistoryOK, RequestsType, Subscriptions
<1>3. CASE sub'[u] = NoSub
  BY <1>3 DEF QuotaOK
<1>4. CASE fresh'[u] = 0
  BY <1>1, <1>2, <1>4 DEF QuotaOK
<1>5. CASE /\ sub[u] # NoSub /\ fresh'[u] = fresh[u] /\ lost[u] <= lost'[u]
           /\ fresh'[u] <= sub'[u].used + lost'[u]
           /\ Due(sub[u])' => Due(sub[u])
           /\ \A r \in Requests :
                 FormOpen(r, u)' => /\ FormOpen(r, u)
                                    /\ request'[r].sub.used = request[r].sub.used
                                    /\ missed'[r] = missed[r]
  <2>1. Due(sub[u])' => fresh'[u] = 0
    BY <1>5 DEF QuotaOK
  <2>2. ASSUME NEW r \in Requests, FormOpen(r, u)'
        PROVE  fresh'[u] <= request'[r].sub.used + missed'[r] + lost'[u]
    <3>1. g <= request[r].sub.used + missed[r] + k
      BY <1>1, <1>5, <2>2 DEF QuotaOK
    <3> QED
      BY <1>1, <1>2, <1>5, <2>2, <3>1
  <2> QED
    BY <1>5, <2>1, <2>2 DEF QuotaOK
<1> QED
  BY <1>3, <1>4, <1>5

\* Whoever a step leaves alone.
LEMMA QuotaUntouched ==
    ASSUME NEW u \in Users, QuotaOK(u), clock' = clock, sub'[u] = sub[u],
           fresh'[u] = fresh[u], lost'[u] = lost[u],
           \A r \in Requests :
              FormOpen(r, u)' => request'[r] = request[r] /\ missed'[r] = missed[r]
    PROVE  QuotaOK(u)'
<1>1. \A r \in Requests : FormOpen(r, u)' => FormOpen(r, u)
  BY DEF FormOpen
<1>2. Due(sub[u])' <=> Due(sub[u])
  BY DEF Due
<1> QED
  BY <1>1, <1>2 DEF QuotaOK

LEMMA NextQuotaInv ==
    ASSUME TypeInv, TypeInv', HistoryOK, HistoryOK', QuotaInv, [Next]_vars
    PROVE  QuotaInv'
<1>1. \A u \in Users : QuotaOK(u)
  BY DEF QuotaInv
<1>2. \A r \in Requests : RequestOK(request[r])
  BY DEF TypeInv, RequestsOK
<1>3. /\ RowsOK /\ RowsOK' /\ clock \in Nat /\ NoPeriod \notin Nat
      /\ \A u \in Users : fresh[u] \in Nat /\ lost[u] \in Nat /\ sub[u].used \in Nat
      /\ \A r \in Requests : missed[r] \in Nat /\ request[r].sub.used \in Nat
  BY OthersAssumption
     DEF OthersAssumption, TypeInv, RowsOK, HistoryOK, RequestsType, Subscriptions
<1>4. NoRequest.op # "admin"
  BY NoRequestType
\* A purchase, a renewal, a new account or a deletion.
<1>5. ASSUME NEW u \in Users, Anew(u), clock' = clock,
             \A v \in Users : v # u => sub'[v] = sub[v],
             \A r \in Requests : request'[r] \in {NoRequest, request[r]}
      PROVE  QuotaInv'
  <2>1. fresh'[u] = 0
    BY <1>5 DEF Anew, HistoryOK
  <2>2. QuotaOK(u)'
    BY <1>1, <2>1, QuotaStays
  <2>3. ASSUME NEW v \in Users, v # u PROVE QuotaOK(v)'
    <3>1. sub'[v] = sub[v] /\ fresh'[v] = fresh[v] /\ lost'[v] = lost[v]
      BY <1>5, <2>3 DEF Anew, HistoryOK
    <3>2. \A r \in Requests : FormOpen(r, v)' => request'[r] = request[r] /\ missed'[r] = missed[r]
      BY <1>4, <1>5, <2>3 DEF FormOpen, Anew
    <3> QED
      BY <1>1, <1>5, <3>1, <3>2, QuotaUntouched
  <2> QED
    BY <2>2, <2>3 DEF QuotaInv
\* Requests may end.
<1>6. ASSUME UNCHANGED <<clock, fresh, lost>>,
             \A u \in Users : \/ sub'[u] = sub[u]
                              \/ sub[u] # NoSub /\ sub'[u].used = sub[u].used
                                 /\ sub'[u].plan = sub[u].plan /\ sub'[u].period = sub[u].period,
             \A r \in Requests : \/ request'[r] = NoRequest
                                 \/ request'[r] = request[r] /\ missed'[r] = missed[r]
      PROVE  QuotaInv'
  <2>1. ASSUME NEW u \in Users PROVE QuotaOK(u)'
    <3>1. \A r \in Requests : FormOpen(r, u)' => request'[r] = request[r] /\ missed'[r] = missed[r]
      BY <1>4, <1>6 DEF FormOpen
    <3>2. CASE sub'[u] = sub[u]
      BY <1>1, <1>6, <3>1, <3>2, QuotaUntouched
    <3>3. CASE sub[u] # NoSub /\ sub'[u].used = sub[u].used
               /\ sub'[u].plan = sub[u].plan /\ sub'[u].period = sub[u].period
      <4>1. fresh'[u] = fresh[u] /\ lost[u] <= lost'[u] /\ fresh'[u] <= sub'[u].used + lost'[u]
        BY <1>1, <1>3, <1>6, <3>3 DEF QuotaOK
      <4>2. Due(sub[u])' => Due(sub[u])
        BY <1>6, <3>3 DEF Due
      <4>3. \A r \in Requests : FormOpen(r, u)' => FormOpen(r, u)
        BY <3>1 DEF FormOpen
      <4> QED
        BY <1>1, <3>1, <3>3, <4>1, <4>2, <4>3, QuotaStays
    <3> QED
      BY <1>6, <3>2, <3>3
  <2> QED
    BY <2>1 DEF QuotaInv
\* A handler has read; an administrator's form has read the usage.
<1>7. ASSUME NEW r \in Requests, NEW q, Ask(r, q),
             q.op = "admin" => q.user \in Users /\ q.sub.used = sub[q.user].used
      PROVE  QuotaInv'
  <2>1. /\ request' = [request EXCEPT ![r] = q]
        /\ UNCHANGED <<clock, sub, fresh, missed, lost>>
    BY <1>7 DEF Ask, history
  <2>2. ASSUME NEW u \in Users, sub[u] # NoSub, NEW s \in Requests, FormOpen(s, u)'
        PROVE  fresh[u] <= request'[s].sub.used + missed[s] + lost[u]
    <3>1. CASE s = r
      <4>1. request'[s] = q /\ q.user = u /\ q.sub.used = sub[u].used
        BY <1>3, <1>7, <2>1, <2>2, <3>1 DEF FormOpen, RowsOK
      <4>2. fresh[u] <= sub[u].used + lost[u]
        BY <1>1, <2>2 DEF QuotaOK
      <4> QED
        BY <1>3, <4>1, <4>2
    <3>2. CASE s # r
      <4>1. request'[s] = request[s] /\ FormOpen(s, u)
        BY <1>3, <2>1, <2>2, <3>2 DEF FormOpen, RowsOK
      <4> QED
        BY <1>1, <2>2, <4>1 DEF QuotaOK
    <3> QED
      BY <3>1, <3>2
  <2> QED
    BY <1>1, <2>1, <2>2 DEF QuotaInv, QuotaOK, Due
<1>8. CASE \E u \in Users, p \in Plans : Subscribe(u, p) \/ AdminAssign(u, p)
  <2>1. PICK u \in Users, p \in Plans : Subscribe(u, p) \/ AdminAssign(u, p)
    BY <1>8
  <2>2. /\ Anew(u) /\ UNCHANGED <<clock, request>>
        /\ \E s : sub' = [sub EXCEPT ![u] = s]
    BY <2>1 DEF Subscribe, AdminAssign, Subscribed
  <2>3. \A v \in Users : v # u => sub'[v] = sub[v]
    BY <1>3, <2>2 DEF RowsOK
  <2> QED
    BY <1>5, <2>2, <2>3
<1>9. CASE \E r \in Requests : Upgrade(r) \/ Renew(r)
  <2>1. PICK r \in Requests : Upgrade(r) \/ Renew(r)
    BY <1>9
  <2>2. request[r].op \in {"upgrade", "renew"} /\ request' = [request EXCEPT ![r] = NoRequest]
    BY <2>1 DEF Upgrade, Renew, Asked
  <2>3. PICK u \in Users : u = request[r].user
    BY <1>2, <2>2 DEF RequestOK
  <2>4. /\ Anew(u) /\ clock' = clock
        /\ \E s : sub' = [sub EXCEPT ![u] = s]
    BY <2>1, <2>3 DEF Upgrade, Renew, Subscribed
  <2>5. \A v \in Users : v # u => sub'[v] = sub[v]
    BY <1>3, <2>4 DEF RowsOK
  <2>6. \A q \in Requests : request'[q] \in {NoRequest, request[q]}
    BY <1>3, <2>2 DEF RowsOK
  <2> QED
    BY <1>5, <2>4, <2>5, <2>6
<1>10. CASE \E u \in Users : AdminRemove(u) \/ DeleteUser(u)
  <2>1. PICK u \in Users : AdminRemove(u) \/ DeleteUser(u)
    BY <1>10
  <2>2. /\ Anew(u) /\ clock' = clock /\ request' = Forgotten(u)
        /\ sub' = [sub EXCEPT ![u] = NoSub]
    BY <2>1 DEF AdminRemove, DeleteUser
  <2>3. \A v \in Users : v # u => sub'[v] = sub[v]
    BY <1>3, <2>2 DEF RowsOK
  <2>4. \A q \in Requests : request'[q] \in {NoRequest, request[q]}
    BY <2>2 DEF Forgotten
  <2> QED
    BY <1>5, <2>2, <2>3, <2>4
<1>11. CASE \E u \in Users, e \in Emails :
               \/ Register(u, e)
               \/ \E p \in Plans \cup {NoPlan} : CreateUser(u, e, p)
  <2>1. PICK u \in Users, e \in Emails :
            \/ Register(u, e)
            \/ \E p \in Plans \cup {NoPlan} : CreateUser(u, e, p)
    BY <1>11
  <2>2. /\ Anew(u) /\ UNCHANGED <<clock, request>>
        /\ sub' = sub \/ \E s : sub' = [sub EXCEPT ![u] = s]
    BY <2>1 DEF Register, CreateUser
  <2>3. \A v \in Users : v # u => sub'[v] = sub[v]
    BY <1>3, <2>2 DEF RowsOK
  <2> QED
    BY <1>5, <2>2, <2>3
<1>12. CASE \E u \in Users, c \in Codes : Redeem(u, c)
  <2>1. PICK u \in Users, c \in Codes : Redeem(u, c)
    BY <1>12
  <2>2. CASE Reward[c] \in Plans
    <3>1. /\ Anew(u) /\ UNCHANGED <<clock, request>>
          /\ \E s : sub' = [sub EXCEPT ![u] = s]
      BY <2>1, <2>2 DEF Redeem, Subscribed
    <3>2. \A v \in Users : v # u => sub'[v] = sub[v]
      BY <1>3, <3>1 DEF RowsOK
    <3> QED
      BY <1>5, <3>1, <3>2
  <2>3. CASE Reward[c] \notin Plans
    <3>1. UNCHANGED <<clock, request, sub, fresh, missed, lost>>
      BY <2>1, <2>3 DEF Redeem, history
    <3> QED
      BY <1>6, <3>1
  <2> QED
    BY <2>2, <2>3
<1>13. CASE \/ \E u \in Users, e \in Emails : ChangeEmail(u, e)
            \/ \E u \in Users, amount \in Balances : AdjustBalance(u, amount)
            \/ \E c \in Codes : Revoke(c)
            \/ UNCHANGED vars
  <2>1. UNCHANGED <<clock, request, sub, fresh, missed, lost>>
    BY <1>13 DEF ChangeEmail, AdjustBalance, Revoke, vars, history
  <2> QED
    BY <1>6, <2>1
<1>14. CASE \E r \in Requests : Fails(r)
  <2>1. PICK r \in Requests : Fails(r)
    BY <1>14
  <2>2. /\ UNCHANGED <<clock, sub, fresh, lost>>
        /\ request' = [request EXCEPT ![r] = NoRequest]
        /\ missed' = [missed EXCEPT ![r] = 0]
    BY <2>1 DEF Fails
  <2>3. \A q \in Requests : \/ request'[q] = NoRequest
                            \/ request'[q] = request[q] /\ missed'[q] = missed[q]
    BY <1>3, <2>2 DEF RowsOK, HistoryOK
  <2> QED
    BY <1>6, <2>2, <2>3
<1>15. CASE \E r \in Requests : Cancel(r)
  <2>1. PICK r \in Requests : Cancel(r)
    BY <1>15
  <2>2. request[r].op = "cancel" /\ request' = [request EXCEPT ![r] = NoRequest]
    BY <2>1 DEF Cancel, Asked
  <2>3. PICK u \in Users : u = request[r].user /\ sub[u] # NoSub
    BY <1>2, <2>2 DEF RequestOK
  <2>4. PICK s, x : /\ s \in Subscriptions /\ s = sub[u]
                    /\ x = [s EXCEPT !.status = request[r].sub.status]
    BY <1>3 DEF RowsOK
  <2>5. x.used = s.used /\ x.plan = s.plan /\ x.period = s.period
    BY <2>4 DEF Subscriptions
  <2>6. sub' = [sub EXCEPT ![u] = x] /\ UNCHANGED <<clock, fresh, missed, lost>>
    BY <2>1, <2>3, <2>4 DEF Cancel, history
  <2>7. sub'[u] = x /\ \A v \in Users : v # u => sub'[v] = sub[v]
    BY <1>3, <2>6 DEF RowsOK
  <2>8. \A q \in Requests : request'[q] \in {NoRequest, request[q]}
    BY <1>3, <2>2 DEF RowsOK
  <2> QED
    BY <1>6, <2>3, <2>4, <2>5, <2>6, <2>7, <2>8
<1>16. CASE ExpireSubscriptions
  <2>1. UNCHANGED <<clock, request, fresh, missed, lost>>
    BY <1>16 DEF ExpireSubscriptions, history
  <2>2. ASSUME NEW u \in Users
        PROVE  \/ sub'[u] = sub[u]
               \/ sub[u] # NoSub /\ sub'[u].used = sub[u].used
                  /\ sub'[u].plan = sub[u].plan /\ sub'[u].period = sub[u].period
    <3>1. PICK s \in Subscriptions : s = sub[u]
      BY <1>3 DEF RowsOK
    <3>2. sub'[u] = s \/ (s.status \in {"ACTIVE", "CANCELED"} /\ sub'[u] = [s EXCEPT !.status = "EXPIRED"])
      BY <1>16, <3>1 DEF ExpireSubscriptions
    <3>3. s.status \in {"ACTIVE", "CANCELED"} => s # NoSub
      BY DEF NoSub
    <3> QED
      BY <3>1, <3>2, <3>3 DEF Subscriptions
  <2> QED
    BY <1>6, <2>1, <2>2
<1>17. CASE \E r \in Requests, u \in Users :
                \/ \E p \in Plans : AskUpgrade(r, u, p)
                \/ AskRenewal(r, u) \/ AskCancel(r, u) \/ AskReset(r, u)
  <2>1. PICK r \in Requests, u \in Users :
            \/ \E p \in Plans : AskUpgrade(r, u, p)
            \/ AskRenewal(r, u) \/ AskCancel(r, u) \/ AskReset(r, u)
    BY <1>17
  <2>2. ASSUME NEW q, Ask(r, q), q.op # "admin" PROVE QuotaInv'
    BY <1>7, <2>2
  <2>3. CASE \E p \in Plans : AskUpgrade(r, u, p)
    <3>1. PICK p, q : /\ q = [NoRequest EXCEPT !.op = "upgrade", !.user = u, !.plan = p]
                      /\ Ask(r, q)
      BY <2>3 DEF AskUpgrade
    <3>2. q.op = "upgrade"
      BY <3>1 DEF NoRequest
    <3> QED
      BY <2>2, <3>1, <3>2
  <2>4. CASE AskRenewal(r, u)
    <3>1. PICK p, s, q : /\ q = [NoRequest EXCEPT !.op = "renew", !.user = u, !.plan = p, !.sub = s]
                         /\ Ask(r, q)
      BY <2>4 DEF AskRenewal
    <3>2. q.op = "renew"
      BY <3>1 DEF NoRequest
    <3> QED
      BY <2>2, <3>1, <3>2
  <2>5. CASE AskCancel(r, u)
    <3>1. PICK t, q : /\ q = [NoRequest EXCEPT !.op = "cancel", !.user = u, !.sub.status = t]
                      /\ Ask(r, q)
      BY <2>5 DEF AskCancel
    <3>2. q.op = "cancel"
      BY <3>1 DEF NoRequest
    <3> QED
      BY <2>2, <3>1, <3>2
  <2>6. CASE AskReset(r, u)
    <3>1. PICK q : /\ q = [NoRequest EXCEPT !.op = "reset", !.user = u, !.month = clock,
                                            !.sub.period = sub[u].period]
                   /\ Ask(r, q)
      BY <2>6 DEF AskReset
    <3>2. q.op = "reset"
      BY <3>1 DEF NoRequest
    <3> QED
      BY <2>2, <3>1, <3>2
  <2> QED
    BY <2>1, <2>3, <2>4, <2>5, <2>6
<1>18. CASE \E r \in Requests, u \in Users, edit \in Edits : AskAdminUpdate(r, u, edit)
  <2>1. PICK r \in Requests, u \in Users, edit \in Edits : AskAdminUpdate(r, u, edit)
    BY <1>18
  <2>2. PICK s \in Subscriptions : s = sub[u]
    BY <1>3 DEF RowsOK
  <2>3. PICK n, q : /\ q = [op |-> "admin", user |-> u, plan |-> edit.plan, month |-> 0,
                            sub |-> [s EXCEPT !.status = edit.status, !.expire = n,
                                              !.period = NoPeriod]]
                    /\ Ask(r, q)
    BY <2>1, <2>2 DEF AskAdminUpdate
  <2>4. q.user = u /\ q.sub.used = s.used
    BY <2>3 DEF Subscriptions
  <2> QED
    BY <1>7, <2>2, <2>3, <2>4
\* What the form has not seen is lost.
<1>19. CASE \E r \in Requests : AdminUpdate(r)
  <2>1. PICK r \in Requests : AdminUpdate(r)
    BY <1>19
  <2>2. request[r].op = "admin" /\ request' = [request EXCEPT ![r] = NoRequest]
    BY <2>1 DEF AdminUpdate, Asked
  <2>3. PICK u \in Users : u = request[r].user /\ sub[u] # NoSub
    BY <1>2, <2>2 DEF RequestOK
  <2>4. PICK n \in Nat : n = request[r].sub.used
    BY <1>3
  <2>5. PICK p \in Plans \cup {NoPlan} : p = request[r].plan
    BY <1>3 DEF RowsOK, RequestsType
  <2>6. PICK pl, t : /\ pl = (IF p = NoPlan THEN sub[u].plan ELSE p)
                     /\ t = IF p = NoPlan THEN sub[u].period ELSE PeriodStart(p)
    OBVIOUS
  <2>7. PICK st, ex, x :
            /\ x = [status |-> st, plan |-> pl, expire |-> ex, used |-> n, period |-> t]
            /\ sub' = [sub EXCEPT ![u] = x]
    <3>1. sub' = [sub EXCEPT ![u] =
                    [status |-> IF request[r].sub.status = "NONE" THEN sub[u].status
                                ELSE request[r].sub.status,
                     plan |-> pl, expire |-> request[r].sub.expire, used |-> n, period |-> t]]
      BY <1>3, <2>1, <2>3, <2>4, <2>5, <2>6 DEF AdminUpdate, RowsOK
    <3> QED
      BY <3>1
  <2>8. x.used = n /\ x.plan = pl /\ x.period = t
    BY <2>7
  <2>9. /\ UNCHANGED <<clock, fresh>>
        /\ lost' = [lost EXCEPT ![u] = @ + missed[r]]
        /\ missed' = [missed EXCEPT ![r] = 0]
    BY <2>1, <2>3 DEF AdminUpdate
  <2>10. /\ sub'[u] = x /\ lost'[u] = lost[u] + missed[r] /\ fresh'[u] = fresh[u]
         /\ \A v \in Users : v # u => sub'[v] = sub[v] /\ lost'[v] = lost[v] /\ fresh'[v] = fresh[v]
    BY <1>3, <2>7, <2>9 DEF RowsOK, HistoryOK
  <2>11. \A q \in Requests : q = r \/ (request'[q] = request[q] /\ missed'[q] = missed[q])
    BY <1>3, <2>2, <2>9 DEF RowsOK, HistoryOK
  <2>12. request'[r] = NoRequest
    BY <1>3, <2>2 DEF RowsOK
  <2>13. \A v \in Users, q \in Requests :
             FormOpen(q, v)' => request'[q] = request[q] /\ missed'[q] = missed[q] /\ FormOpen(q, v)
    BY <1>4, <2>11, <2>12 DEF FormOpen
  <2>14. QuotaOK(u)'
    <3>1. FormOpen(r, u)
      BY <2>2, <2>3 DEF FormOpen
    <3>2. fresh[u] <= n + missed[r] + lost[u]
      BY <1>1, <2>3, <2>4, <3>1 DEF QuotaOK
    <3>3. lost[u] <= lost'[u] /\ fresh'[u] <= sub'[u].used + lost'[u]
      BY <1>3, <2>8, <2>10, <3>2
    <3>4. Due(sub[u])' => Due(sub[u])
      BY <1>3, <2>5, <2>6, <2>8, <2>9, <2>10 DEF Due, PeriodStart
    <3> QED
      BY <1>1, <2>3, <2>10, <2>13, <3>3, <3>4, QuotaStays
  <2>15. ASSUME NEW v \in Users, v # u PROVE QuotaOK(v)'
    BY <1>1, <2>9, <2>10, <2>13, <2>15, QuotaUntouched
  <2> QED
    BY <2>14, <2>15 DEF QuotaInv
\* A reset of a monthly plan has nothing of this month; of another, it wipes the quota.
<1>20. CASE \E r \in Requests : Reset(r)
  <2>1. PICK r \in Requests : Reset(r)
    BY <1>20
  <2>2. request[r].op = "reset" /\ request' = [request EXCEPT ![r] = NoRequest]
    BY <2>1 DEF Reset, Asked
  <2>3. PICK u \in Users : u = request[r].user /\ sub[u] # NoSub
    BY <1>2, <2>2 DEF RequestOK
  <2>4. PICK s \in Subscriptions, read \in Subscriptions, month \in Nat :
            /\ s = sub[u] /\ read = request[r].sub /\ month = request[r].month
            /\ month <= clock /\ (read.period = NoPeriod \/ read.period < month)
    BY <1>2, <1>3, <2>2 DEF RowsOK, RequestsType, RequestOK
  <2>5. UNCHANGED <<clock, fresh, missed>>
    BY <2>1 DEF Reset
  <2>6. \A q \in Requests : request'[q] \in {NoRequest, request[q]}
    BY <1>3, <2>2 DEF RowsOK
  <2>7. \A v \in Users, q \in Requests :
            FormOpen(q, v)' => request'[q] = request[q] /\ missed'[q] = missed[q] /\ FormOpen(q, v)
    BY <1>4, <2>5, <2>6 DEF FormOpen
  <2>8. CASE UNCHANGED <<sub, lost>>
    BY <1>6, <2>5, <2>6, <2>8
  <2>9. CASE /\ s.period = read.period
             /\ sub' = [sub EXCEPT ![u].period = month,
                                   ![u].used = IF read.period = NoPeriod THEN @ ELSE 0]
             /\ lost' = IF read.period = NoPeriod \/ s.plan \in Monthly
                          THEN lost ELSE [lost EXCEPT ![u] = @ + s.used]
    <3>1. PICK x : x = [s EXCEPT !.period = month, !.used = IF read.period = NoPeriod THEN s.used ELSE 0]
      OBVIOUS
    <3>2. /\ x.used = IF read.period = NoPeriod THEN s.used ELSE 0
          /\ x.plan = s.plan /\ x.period = month
      BY <3>1 DEF Subscriptions
    <3>3. sub' = [sub EXCEPT ![u] = x]
      <4>1. [s EXCEPT !.period = month].used = s.used
        BY DEF Subscriptions
      <4>2. PICK y : y = [s EXCEPT !.period = month] /\ y.used = s.used
        BY <4>1
      <4>3. sub' = [[sub EXCEPT ![u] = y] EXCEPT ![u].used = IF read.period = NoPeriod THEN @ ELSE 0]
        BY <2>4, <2>9, <4>2
      <4>4. sub' = [sub EXCEPT ![u] = [y EXCEPT !.used = IF read.period = NoPeriod THEN y.used ELSE 0]]
        BY <1>3, <4>3 DEF RowsOK
      <4> QED
        BY <3>1, <4>2, <4>4
    <3>4. /\ sub'[u] = x /\ fresh'[u] = fresh[u]
          /\ lost'[u] = IF read.period = NoPeriod \/ s.plan \in Monthly THEN lost[u] ELSE lost[u] + s.used
          /\ \A v \in Users : v # u => sub'[v] = sub[v] /\ lost'[v] = lost[v]
      BY <1>3, <2>5, <2>9, <3>3 DEF RowsOK, HistoryOK
    <3>5. fresh[u] <= s.used + lost[u] /\ (Due(s) => fresh[u] = 0)
      BY <1>1, <2>3, <2>4 DEF QuotaOK
    <3>6. s.used \in Nat
      BY DEF Subscriptions
    <3>7. QuotaOK(u)'
      <4>1. CASE read.period = NoPeriod
        <5>1. lost[u] <= lost'[u] /\ fresh'[u] <= sub'[u].used + lost'[u]
          BY <1>3, <3>2, <3>4, <3>5, <3>6, <4>1
        <5>2. Due(sub[u])' => Due(sub[u])
          BY <2>4, <2>9, <3>2, <3>4, <4>1 DEF Due
        <5> QED
          BY <1>1, <2>3, <2>7, <3>4, <5>1, <5>2, QuotaStays
      <4>2. CASE read.period # NoPeriod /\ s.plan \in Monthly
        <5>1. s.period \in Nat /\ s.period < clock
          BY <1>3, <2>4, <2>9, <4>2 DEF Subscriptions
        <5>2. fresh'[u] = 0
          BY <3>4, <3>5, <4>2, <5>1 DEF Due
        <5> QED
          BY <1>1, <5>2, QuotaStays
      <4>3. CASE read.period # NoPeriod /\ s.plan \notin Monthly
        <5>1. lost[u] <= lost'[u] /\ fresh'[u] <= sub'[u].used + lost'[u]
          BY <1>3, <3>2, <3>4, <3>5, <3>6, <4>3
        <5>2. ~Due(sub[u])'
          BY <3>2, <3>4, <4>3 DEF Due
        <5> QED
          BY <1>1, <2>3, <2>7, <3>4, <5>1, <5>2, QuotaStays
      <4> QED
        BY <4>1, <4>2, <4>3
    <3>8. ASSUME NEW v \in Users, v # u PROVE QuotaOK(v)'
      BY <1>1, <2>5, <2>7, <3>4, <3>8, QuotaUntouched
    <3> QED
      BY <3>7, <3>8 DEF QuotaInv
  <2> QED
    BY <2>1, <2>3, <2>4, <2>8, <2>9 DEF Reset, Unchanged
\* The forms that are open have not seen what is billed.
<1>21. CASE \E u \in Users : \E month \in Nat \cap {clock, clock - 1} : Bill(u, month)
  <2>1. PICK u \in Users, m \in Nat : Bill(u, m) /\ (m = clock \/ m = clock - 1)
    BY <1>21
  <2>2. PICK s \in Subscriptions : s = sub[u]
    BY <1>3 DEF RowsOK
  <2>3. PICK x \in Subscriptions :
            /\ x = Counted(s, m) /\ x.plan = s.plan
            /\ x.used = IF Started(s, m) THEN 1 ELSE s.used + 1
            /\ x.period = IF Started(s, m) \/ Unstarted(s) THEN m ELSE s.period
    BY <1>3, <2>1, <2>2, CountedType
  <2>4. /\ sub' = IF sub[u] = NoSub THEN sub ELSE [sub EXCEPT ![u] = x]
        /\ UNCHANGED <<clock, request, lost>>
    BY <1>3, <2>1, <2>2, <2>3 DEF Bill, RowsOK
  <2>5. /\ fresh'[u] = IF m = clock THEN fresh[u] + 1 ELSE fresh[u]
        /\ \A v \in Users : v # u => sub'[v] = sub[v] /\ fresh'[v] = fresh[v]
    BY <1>3, <2>1, <2>4 DEF Bill, RowsOK, HistoryOK
  <2>6. \A r \in Requests :
            missed'[r] = IF m = clock /\ FormOpen(r, u) THEN missed[r] + 1 ELSE missed[r]
    BY <2>1 DEF Bill, HistoryOK
  <2>7. ASSUME NEW v \in Users, v # u PROVE QuotaOK(v)'
    <3>1. \A r \in Requests : FormOpen(r, v)' => request'[r] = request[r] /\ missed'[r] = missed[r]
      BY <2>4, <2>6, <2>7 DEF FormOpen
    <3> QED
      BY <1>1, <2>4, <2>5, <2>7, <3>1, QuotaUntouched
  <2>8. CASE sub[u] = NoSub
    BY <1>1, <2>4, <2>7, <2>8, QuotaStays DEF QuotaInv
  <2>9. CASE sub[u] # NoSub
    <3>1. sub'[u] = x
      BY <1>3, <2>4, <2>9 DEF RowsOK
    <3>2. s.used \in Nat /\ s.period \in Nat \cup {NoPeriod}
      BY DEF Subscriptions
    <3>3. fresh[u] <= s.used + lost[u] /\ (Due(s) => fresh[u] = 0)
      BY <1>1, <2>2, <2>9 DEF QuotaOK
    <3>4. Started(s, m) => Due(s)
      BY <1>3, <2>1, <3>2 DEF Started, Due
    <3>5. fresh'[u] <= x.used + lost[u]
      BY <1>3, <2>3, <2>5, <3>2, <3>3, <3>4
    <3>6. Due(x) => fresh'[u] = 0
      <4>1. CASE Started(s, m) \/ Unstarted(s)
        <5>1. Due(s) /\ x.period = m
          BY <2>3, <3>4, <4>1 DEF Unstarted, Due
        <5>2. Due(x) => m # clock
          BY <1>3, <2>1, <5>1 DEF Due
        <5> QED
          BY <2>5, <3>3, <5>1, <5>2
      <4>2. CASE ~Started(s, m) /\ ~Unstarted(s)
        <5>1. Due(x) => Due(s) /\ m # clock
          BY <2>3, <3>2, <4>2 DEF Due, Started, Unstarted
        <5> QED
          BY <2>5, <3>3, <5>1
      <4> QED
        BY <4>1, <4>2
    <3>7. ASSUME NEW r \in Requests, FormOpen(r, u)
          PROVE  fresh'[u] <= request[r].sub.used + missed'[r] + lost[u]
      <4>1. fresh[u] <= request[r].sub.used + missed[r] + lost[u]
        BY <1>1, <2>9, <3>7 DEF QuotaOK
      <4> QED
        BY <1>3, <2>5, <2>6, <3>7, <4>1
    <3>8. QuotaOK(u)'
      BY <2>4, <3>1, <3>5, <3>6, <3>7 DEF QuotaOK, Due, FormOpen
    <3> QED
      BY <2>7, <3>8 DEF QuotaInv
  <2> QED
    BY <2>8, <2>9
<1>22. CASE MonthPasses
  <2>1. \A u \in Users : fresh'[u] = 0
    BY <1>22 DEF MonthPasses
  <2> QED
    BY <1>1, <2>1, QuotaStays DEF QuotaInv
<1> QED
  BY <1>8, <1>9, <1>10, <1>11, <1>12, <1>13, <1>14, <1>15, <1>16, <1>17, <1>18, <1>19, <1>20,
     <1>21, <1>22 DEF Next, Ends

LEMMA AlwaysQuota == Spec => []QuotaInv
<1>1. Init => QuotaInv
  BY DEF Init, QuotaInv, QuotaOK
<1>2. TypeInv /\ TypeInv' /\ HistoryOK /\ HistoryOK' /\ QuotaInv /\ [Next]_vars => QuotaInv'
  BY NextQuotaInv
<1> QED
  BY <1>1, <1>2, AlwaysTyped, AlwaysRecorded, PTL DEF Spec

\* A quota counts what was billed in the month but for what an administrator's form had not
\* seen and what a late reset wipes of a plan without periods; any number of requests may
\* be underway.
THEOREM QuotaIsKept == Spec => []QuotaCountsPeriod
<1>1. UsageInv /\ QuotaInv => QuotaCountsPeriod
  BY DEF UsageInv, UsageOK, QuotaInv, QuotaOK, QuotaCountsPeriod
<1> QED
  BY <1>1, AlwaysCounted, AlwaysQuota, PTL

=============================================================================
