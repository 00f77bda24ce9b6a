------------------------------- MODULE Ledger -------------------------------
(***************************************************************************)
(* Accounts, their wallets, purchase identities, redeem codes and          *)
(* subscriptions.  SQLite serialises transactions, so each is one step;    *)
(* what a handler reads before its transaction is kept in a request and    *)
(* may be stale when the transaction runs.                                 *)
(*                                                                         *)
(* Time passes in months: a plan lasts for some of them, and the quota of  *)
(* a monthly plan starts anew with each (CALENDAR_MONTH).  Left out: the   *)
(* limits of traffic, the other columns of the users that mirror their     *)
(* subscriptions, plans that are edited, hidden or deleted.                *)
(*                                                                         *)
(* OwnIdentity, OnCredit, ReadBefore and BindAny are faulty variants of    *)
(* the definition that follows them, used to show that a property notices  *)
(* such a fault; the specification does not use them.                      *)
(***************************************************************************)
EXTENDS Naturals

CONSTANTS
    Users,            \* accounts; a purchase identity is named after the first to have it
    Emails, Plans, Codes,
    Price,            \* of a plan, in cents
    Months,           \* durationDays
    Limit,            \* purchaseLimitPerUser
    Renewable,        \* plans with allowRenewal
    Monthly,          \* plans with trafficResetMode CALENDAR_MONTH
    Reward,           \* a code's reward: a plan, or an amount
    CategoryLimit,    \* limitPerIdentity of the codes' category
    Gift,             \* defaultBalance
    DefaultPlan,      \* defaultPlanId
    Requests,         \* bound: handlers between their reads and their transaction
    MaxTime,          \* bound: months
    MaxAdmin,         \* bound: purchases and balances an administrator grants
    MaxBytes,         \* bound: billed batches
    Balances,         \* bound: balances an administrator sets
    Edits,            \* bound: what an administrator changes at a time
    NoUser, NoEmail, NoPlan, NoPeriod, Unlimited

ASSUME PlansAssumption ==
    /\ Price \in [Plans -> Nat]
    /\ Months \in [Plans -> Nat \ {0}]
    /\ Limit \in [Plans -> Nat \cup {Unlimited}]
    /\ Unlimited \notin Nat
    /\ Renewable \subseteq Plans /\ Monthly \subseteq Plans
    /\ NoPlan \notin Plans
    /\ DefaultPlan \in Plans \cup {NoPlan}

ASSUME OthersAssumption ==
    /\ NoUser \notin Users
    /\ NoEmail \notin Emails
    /\ NoPeriod \notin Nat
    /\ Reward \in [Codes -> Plans \cup Nat] /\ Plans \cap Nat = {}
    /\ CategoryLimit \in Nat \cup {Unlimited}
    /\ Gift \in Nat
    /\ Balances \subseteq Nat
    /\ Edits \subseteq [plan : Plans \cup {NoPlan},
                        status : {"NONE", "ACTIVE", "CANCELED", "EXPIRED", "REVOKED"}, months : Nat]
    /\ MaxTime \in Nat /\ MaxAdmin \in Nat /\ MaxBytes \in Nat

VARIABLES
    clock,       \* the month
    account,     \* User
    alias,       \* PlanPurchaseEmailAlias: the identity of an address
    purchases,   \* PlanPurchase: how many of a plan an identity has
    usage,       \* RedeemCodeCategoryUsage: how many codes an identity has redeemed
    code,        \* RedeemCode: the status
    sub,         \* Subscription
    request,     \* handlers underway, and what they have read
    bought,      \* history: purchases under a limit, by address
    redeemed,    \* history: codes redeemed, by address
    fresh,       \* history: bytes of this month since the last purchase or renewal
    missed,      \* history: those billed while an administrator's form was open
    lost,        \* history: those that no quota counts, for one of two reasons
    admins, bytes

people == <<account, alias>>
counts == <<purchases, bought>>
codes == <<code, usage, redeemed>>
history == <<fresh, missed, lost>>
bounds == <<admins, bytes>>
vars == <<clock, people, counts, codes, sub, request, history, bounds>>

-----------------------------------------------------------------------------
Accounts == [state : {"none", "live", "deleted"}, email : Emails \cup {NoEmail},
             identity : Users \cup {NoUser}, balance : Nat, used : Nat]
NoAccount == [state |-> "none", email |-> NoEmail, identity |-> NoUser,
              balance |-> 0, used |-> 0]

Subscriptions == [status : {"NONE", "ACTIVE", "CANCELED", "EXPIRED", "REVOKED"},
                  plan : Plans \cup {NoPlan}, expire : Nat, used : Nat,
                  period : Nat \cup {NoPeriod}]
NoSub == [status |-> "NONE", plan |-> NoPlan, expire |-> 0, used |-> 0, period |-> NoPeriod]

\* A request: the plan it asks for, what it has read or will write, the month it begins.
RequestsType == [op : {"none", "upgrade", "renew", "cancel", "admin", "reset"},
                 user : Users \cup {NoUser}, plan : Plans \cup {NoPlan},
                 sub : Subscriptions, month : Nat]
NoRequest == [op |-> "none", user |-> NoUser, plan |-> NoPlan, sub |-> NoSub, month |-> 0]

TypeOK ==
    /\ clock \in 0 .. MaxTime
    /\ account \in [Users -> Accounts]
    /\ alias \in [Emails -> Users \cup {NoUser}]
    /\ purchases \in [Users -> [Plans -> Nat]]
    /\ usage \in [Users -> Nat]
    /\ code \in [Codes -> {"UNUSED", "REDEEMED", "REVOKED"}]
    /\ sub \in [Users -> Subscriptions]
    /\ request \in [Requests -> RequestsType]
    /\ bought \in [Emails -> [Plans -> Nat]]
    /\ redeemed \in [Emails -> Nat]
    /\ fresh \in [Users -> Nat]
    /\ missed \in [Requests -> Nat]
    /\ lost \in [Users -> Nat]
    /\ admins \in 0 .. MaxAdmin
    /\ bytes \in 0 .. MaxBytes

Init ==
    /\ clock = 0
    /\ account = [u \in Users |-> NoAccount]
    /\ alias = [e \in Emails |-> NoUser]
    /\ purchases = [i \in Users |-> [p \in Plans |-> 0]]
    /\ usage = [i \in Users |-> 0]
    /\ code = [c \in Codes |-> "UNUSED"]
    /\ sub = [u \in Users |-> NoSub]
    /\ request = [r \in Requests |-> NoRequest]
    /\ bought = [e \in Emails |-> [p \in Plans |-> 0]]
    /\ redeemed = [e \in Emails |-> 0]
    /\ fresh = [u \in Users |-> 0]
    /\ missed = [r \in Requests |-> 0]
    /\ lost = [u \in Users |-> 0]
    /\ admins = 0
    /\ bytes = 0

Live(u) == account[u].state = "live"
Available(u, e) == \A v \in Users \ {u} : Live(v) => account[v].email # e

Within(n, limit) == limit # Unlimited => n < limit

Granted == admins < MaxAdmin /\ admins' = admins + 1

\* A purchase, a renewal or a new account: the quota starts anew.
Anew(u) ==
    /\ fresh' = [fresh EXCEPT ![u] = 0]
    /\ lost' = [lost EXCEPT ![u] = 0]
    /\ missed' = [r \in Requests |-> IF request[r].user = u THEN 0 ELSE missed[r]]

-----------------------------------------------------------------------------
\* Purchase identities: ensureIdentityForUser.

\* The identity account u will have, whose address is e.
OwnIdentity(u, e) == IF account[u].identity # NoUser THEN account[u].identity ELSE u
Identity(u, e) ==
    IF account[u].identity # NoUser THEN account[u].identity
    ELSE IF alias[e] # NoUser THEN alias[e]
    ELSE u

\* The address has the history of somebody else.
Foreign(u, e) == alias[e] \notin {NoUser, Identity(u, e)}

Aliased(u, e) == [alias EXCEPT ![e] = Identity(u, e)]

\* claim: a purchase is counted, unless it would exceed the limit.  An
\* administrator's may.
Claimable(u, e, p) == Within(purchases[Identity(u, e)][p], Limit[p])

Claim(u, e, p) == purchases' = [purchases EXCEPT ![Identity(u, e)][p] = @ + 1]

LimitedClaim(u, e, p) ==
    /\ Claimable(u, e, p)
    /\ Claim(u, e, p)
    /\ bought' = IF Limit[p] = Unlimited THEN bought ELSE [bought EXCEPT ![e][p] = @ + 1]

-----------------------------------------------------------------------------
\* Subscriptions.

Active(u) == sub[u].status \in {"ACTIVE", "CANCELED"} /\ sub[u].expire > clock

PeriodStart(p) == IF p \in Monthly THEN clock ELSE NoPeriod

NewSub(p) ==
    [status |-> "ACTIVE", plan |-> p, expire |-> clock + Months[p], used |-> 0,
     period |-> PeriodStart(p)]

\* applyBalanceChange: the balance never goes below zero.
OnCredit(u, price) == TRUE
Affordable(u, price) == account[u].balance >= price

\* syncUserMirror: the user's row repeats the usage.
Mirrored(u, used) == [account EXCEPT ![u].used = used]

\* User u pays an amount and has the subscription s, which its row mirrors.
Subscribed(u, s, price) ==
    /\ Affordable(u, price)
    /\ sub' = [sub EXCEPT ![u] = s]
    /\ account' = [Mirrored(u, s.used) EXCEPT ![u].balance = @ - price,
                                  ![u].identity = Identity(u, account[u].email)]
    /\ alias' = Aliased(u, account[u].email)
    /\ Anew(u)

Subscribe(u, p) ==
    LET e == account[u].email
    IN /\ Live(u)
       /\ ~Active(u)
       /\ ~Foreign(u, e)
       /\ LimitedClaim(u, e, p)
       /\ Subscribed(u, NewSub(p), Price[p])
       /\ UNCHANGED <<clock, codes, request, bounds>>

\* Reads of the handlers whose transaction comes later.
Ask(r, q) ==
    /\ request[r] = NoRequest
    /\ Live(q.user) /\ sub[q.user] # NoSub
    /\ request' = [request EXCEPT ![r] = q]
    /\ UNCHANGED <<clock, people, counts, codes, sub, history, bounds>>

Asked(r, op) ==
    /\ request[r].op = op
    /\ request' = [request EXCEPT ![r] = NoRequest]

AskUpgrade(r, u, p) ==
    /\ Active(u)
    /\ p # sub[u].plan /\ Price[p] >= Price[sub[u].plan]
    /\ Ask(r, [NoRequest EXCEPT !.op = "upgrade", !.user = u, !.plan = p])

Upgrade(r) ==
    LET u == request[r].user
        p == request[r].plan
        e == account[u].email
    IN /\ Asked(r, "upgrade")
       /\ ~Foreign(u, e)
       /\ LimitedClaim(u, e, p)
       /\ Subscribed(u, NewSub(p), Price[p])
       /\ UNCHANGED <<clock, codes, bounds>>

\* The new expiry and the period come from what was read.
AskRenewal(r, u) ==
    LET p == sub[u].plan
        base == IF sub[u].expire > clock THEN sub[u].expire ELSE clock
    IN /\ sub[u].status \in {"ACTIVE", "CANCELED"}
       /\ p \in Renewable
       /\ Ask(r, [NoRequest EXCEPT !.op = "renew", !.user = u, !.plan = p,
                                   !.sub = [NewSub(p) EXCEPT !.expire = base + Months[p]]])

Renew(r) ==
    LET u == request[r].user
    IN /\ Asked(r, "renew")
       /\ Affordable(u, Price[request[r].plan])
       /\ sub' = [sub EXCEPT ![u] = [request[r].sub EXCEPT !.plan = sub[u].plan]]
       /\ account' = [Mirrored(u, 0) EXCEPT ![u].balance = @ - Price[request[r].plan]]
       /\ Anew(u)
       /\ UNCHANGED <<clock, alias, counts, codes, bounds>>

AskCancel(r, u) ==
    LET status == IF sub[u].expire <= clock THEN "EXPIRED" ELSE "CANCELED"
    IN Ask(r, [NoRequest EXCEPT !.op = "cancel", !.user = u, !.sub.status = status])

Cancel(r) ==
    LET u == request[r].user
    IN /\ Asked(r, "cancel")
       /\ sub' = [sub EXCEPT ![u].status = request[r].sub.status]
       /\ UNCHANGED <<clock, people, counts, codes, history, bounds>>

\* An administrator sets a plan or keeps it (NoPlan), sets a status or keeps it
\* ("NONE"), adds months or none.  Usage and expiry go into the row as they were read.
AskAdminUpdate(r, u, edit) ==
    LET base == IF edit.months > 0 /\ sub[u].expire <= clock THEN clock ELSE sub[u].expire
    IN /\ admins < MaxAdmin
       /\ Ask(r, [op |-> "admin", user |-> u, plan |-> edit.plan, month |-> 0,
                  sub |-> [sub[u] EXCEPT !.status = edit.status, !.expire = base + edit.months,
                                         !.period = NoPeriod]])

AdminUpdate(r) ==
    LET u == request[r].user
        p == request[r].plan
        read == request[r].sub
        e == account[u].email
        changed == p \notin {NoPlan, read.plan}
    IN /\ Asked(r, "admin")
       /\ Granted
       /\ sub' = [sub EXCEPT ![u] =
                    [status |-> IF read.status = "NONE" THEN @.status ELSE read.status,
                     plan |-> IF p = NoPlan THEN @.plan ELSE p,
                     expire |-> read.expire,
                     used |-> read.used,
                     period |-> IF p = NoPlan THEN @.period ELSE PeriodStart(p)]]
       /\ IF changed
            THEN /\ ~Foreign(u, e)
                 /\ Claim(u, e, p)
                 /\ account' = [Mirrored(u, read.used) EXCEPT ![u].identity = Identity(u, e)]
                 /\ alias' = Aliased(u, e)
            ELSE /\ account' = Mirrored(u, read.used)
                 /\ UNCHANGED <<alias, purchases>>
       /\ lost' = [lost EXCEPT ![u] = @ + missed[r]]
       /\ missed' = [missed EXCEPT ![r] = 0]
       /\ UNCHANGED <<clock, bought, codes, fresh, bytes>>

\* The transaction throws: no money, the limit is reached, the database is busy.
Fails(r) ==
    /\ request[r] # NoRequest
    /\ request' = [request EXCEPT ![r] = NoRequest]
    /\ missed' = [missed EXCEPT ![r] = 0]
    /\ UNCHANGED <<clock, people, counts, codes, sub, fresh, lost, bounds>>

AdminAssign(u, p) ==
    LET e == account[u].email
    IN /\ Live(u) /\ sub[u] = NoSub
       /\ Granted
       /\ ~Foreign(u, e)
       /\ Claim(u, e, p)
       /\ Subscribed(u, NewSub(p), 0)
       /\ UNCHANGED <<clock, bought, codes, request, bytes>>

\* The row is gone: whoever has read it finds no row to write.
Forgotten(u) ==
    [r \in Requests |-> IF request[r].user = u THEN NoRequest ELSE request[r]]

AdminRemove(u) ==
    /\ Live(u) /\ sub[u] # NoSub
    /\ sub' = [sub EXCEPT ![u] = NoSub]
    /\ account' = [account EXCEPT ![u].used = 0]
    /\ request' = Forgotten(u)
    /\ Anew(u)
    /\ UNCHANGED <<clock, alias, counts, codes, bounds>>

ExpireSubscriptions ==
    /\ sub' = [u \in Users |->
                 IF sub[u].status \in {"ACTIVE", "CANCELED"} /\ sub[u].expire <= clock
                   THEN [sub[u] EXCEPT !.status = "EXPIRED"] ELSE sub[u]]
    /\ sub' # sub
    /\ UNCHANGED <<clock, people, counts, codes, request, history, bounds>>

-----------------------------------------------------------------------------
\* Quota periods.

Started(s, month) == s.plan \in Monthly /\ s.period # NoPeriod /\ s.period < month

\* A row that has missed its first period is given one, and keeps its usage.
Unstarted(s) == s.plan \in Monthly /\ s.period = NoPeriod

\* ensureTrafficReset, resetDueTrafficPeriods: the row is read, and reset later
\* if its period is still the one that was read.
AskReset(r, u) ==
    /\ Started(sub[u], clock) \/ Unstarted(sub[u])
    /\ Ask(r, [NoRequest EXCEPT !.op = "reset", !.user = u, !.month = clock,
                                !.sub.period = sub[u].period])

ReadBefore(s, read) == TRUE
Unchanged(s, read) == s.period = read.period

Reset(r) ==
    LET u == request[r].user
        read == request[r].sub
    IN /\ Asked(r, "reset")
       /\ IF Unchanged(sub[u], read)
            THEN /\ sub' = [sub EXCEPT ![u].period = request[r].month,
                                       ![u].used = IF read.period = NoPeriod THEN @ ELSE 0]
                 /\ account' = IF read.period = NoPeriod THEN account ELSE Mirrored(u, 0)
                 /\ lost' = IF read.period = NoPeriod \/ sub[u].plan \in Monthly
                              THEN lost ELSE [lost EXCEPT ![u] = @ + sub[u].used]
            ELSE UNCHANGED <<sub, account, lost>>
       /\ UNCHANGED <<clock, alias, counts, codes, fresh, missed, bounds>>

FormOpen(r, u) == request[r].op = "admin" /\ request[r].user = u

\* A node's traffic is billed, as observed in this month or the one before.
Counted(s, month) ==
    IF Started(s, month) THEN [s EXCEPT !.used = 1, !.period = month]
    ELSE [s EXCEPT !.used = @ + 1, !.period = IF Unstarted(s) THEN month ELSE @]

Bill(u, month) ==
    /\ bytes < MaxBytes /\ bytes' = bytes + 1
    /\ Live(u)
    /\ sub' = IF sub[u] = NoSub THEN sub ELSE [sub EXCEPT ![u] = Counted(@, month)]
    /\ account' = [account EXCEPT ![u].used = IF Started(sub[u], month) THEN 1 ELSE @ + 1]
    /\ IF month = clock
         THEN /\ fresh' = [fresh EXCEPT ![u] = @ + 1]
              /\ missed' = [r \in Requests |-> IF FormOpen(r, u) THEN missed[r] + 1 ELSE missed[r]]
         ELSE UNCHANGED <<fresh, missed>>
    /\ UNCHANGED <<clock, alias, counts, codes, request, lost, admins>>

MonthPasses ==
    /\ clock < MaxTime
    /\ clock' = clock + 1
    /\ fresh' = [u \in Users |-> 0]
    /\ lost' = [u \in Users |-> 0]
    /\ missed' = [r \in Requests |-> 0]
    /\ UNCHANGED <<people, counts, codes, sub, request, bounds>>

-----------------------------------------------------------------------------
\* Accounts.

NewAccount(e, balance) ==
    [state |-> "live", email |-> e, identity |-> NoUser, balance |-> balance, used |-> 0]

\* A default plan that is not to be had any more is left out, one that the gift
\* does not pay for fails the registration.
Register(u, e) ==
    LET i == Identity(u, e)
        p == DefaultPlan
        created == NewAccount(e, Gift)
    IN /\ account[u] = NoAccount /\ Available(u, e)
       /\ IF p = NoPlan
            THEN /\ account' = [account EXCEPT ![u] = created]
                 /\ UNCHANGED <<alias, purchases, bought, sub>>
            ELSE /\ alias' = Aliased(u, e)
                 /\ \/ /\ LimitedClaim(u, e, p)
                       /\ Gift >= Price[p]
                       /\ account' = [account EXCEPT ![u] =
                              [created EXCEPT !.identity = i, !.balance = Gift - Price[p]]]
                       /\ sub' = [sub EXCEPT ![u] = NewSub(p)]
                    \/ /\ ~Claimable(u, e, p)
                       /\ account' = [account EXCEPT ![u] = [created EXCEPT !.identity = i]]
                       /\ UNCHANGED <<purchases, bought, sub>>
       /\ Anew(u)
       /\ UNCHANGED <<clock, codes, request, bounds>>

\* An administrator creates the account, with a plan or without.
CreateUser(u, e, p) ==
    /\ account[u] = NoAccount /\ Available(u, e)
    /\ Granted
    /\ IF p = NoPlan
         THEN /\ account' = [account EXCEPT ![u] = NewAccount(e, 0)]
              /\ UNCHANGED <<alias, purchases, sub>>
         ELSE /\ account' = [account EXCEPT ![u] =
                                [NewAccount(e, 0) EXCEPT !.identity = Identity(u, e)]]
              /\ alias' = Aliased(u, e)
              /\ Claim(u, e, p)
              /\ sub' = [sub EXCEPT ![u] = NewSub(p)]
    /\ Anew(u)
    /\ UNCHANGED <<clock, bought, codes, request, bytes>>

\* prepareEmailChange: the new address has no history, or the account's own.
BindAny(u, e) == TRUE
Bindable(u, e) == alias[e] \in {NoUser, Identity(u, account[u].email)}

ChangeEmail(u, e) ==
    LET i == Identity(u, account[u].email)
    IN /\ Live(u) /\ Available(u, e)
       /\ ~Foreign(u, account[u].email)
       /\ Bindable(u, e)
       /\ account' = [account EXCEPT ![u].email = e, ![u].identity = i]
       /\ alias' = [alias EXCEPT ![account[u].email] = i, ![e] = IF @ = NoUser THEN i ELSE @]
       /\ UNCHANGED <<clock, counts, codes, sub, request, history, bounds>>

DeleteUser(u) ==
    LET e == account[u].email
    IN /\ Live(u)
       /\ ~Foreign(u, e)
       /\ alias' = Aliased(u, e)
       /\ account' = [account EXCEPT ![u] = [NoAccount EXCEPT !.state = "deleted"]]
       /\ sub' = [sub EXCEPT ![u] = NoSub]
       /\ request' = Forgotten(u)
       /\ Anew(u)
       /\ UNCHANGED <<clock, counts, codes, bounds>>

\* An administrator adds to a balance, or takes from it what it has.
AdjustBalance(u, amount) ==
    /\ Live(u)
    /\ Granted
    /\ account' = [account EXCEPT ![u].balance = amount]
    /\ account' # account
    /\ UNCHANGED <<clock, alias, counts, codes, sub, request, history, bytes>>

-----------------------------------------------------------------------------
\* Redeem codes.

Redeemable(u, c) ==
    /\ code[c] = "UNUSED"
    /\ Within(usage[Identity(u, account[u].email)], CategoryLimit)

Redeem(u, c) ==
    LET e == account[u].email
        i == Identity(u, e)
    IN /\ Live(u)
       /\ ~Foreign(u, e)
       /\ Redeemable(u, c)
       /\ code' = [code EXCEPT ![c] = "REDEEMED"]
       /\ redeemed' = [redeemed EXCEPT ![e] = @ + 1]
       /\ usage' = [usage EXCEPT ![i] = @ + 1]
       /\ IF Reward[c] \in Plans
            THEN /\ ~Active(u)
                 /\ LimitedClaim(u, e, Reward[c])
                 /\ Subscribed(u, NewSub(Reward[c]), 0)
            ELSE /\ account' = [account EXCEPT ![u].balance = @ + Reward[c], ![u].identity = i]
                 /\ alias' = Aliased(u, e)
                 /\ UNCHANGED <<purchases, bought, sub, history>>
       /\ UNCHANGED <<clock, request, bounds>>

Revoke(c) ==
    /\ code[c] = "UNUSED"
    /\ code' = [code EXCEPT ![c] = "REVOKED"]
    /\ UNCHANGED <<clock, people, counts, usage, redeemed, sub, request, history, bounds>>

-----------------------------------------------------------------------------
Ends(r) ==
    Upgrade(r) \/ Renew(r) \/ Cancel(r) \/ AdminUpdate(r) \/ Reset(r) \/ Fails(r)

Next ==
    \/ \E u \in Users, e \in Emails :
          \/ Register(u, e) \/ ChangeEmail(u, e)
          \/ \E p \in Plans \cup {NoPlan} : CreateUser(u, e, p)
    \/ \E u \in Users :
          \/ DeleteUser(u) \/ AdminRemove(u)
          \/ \E p \in Plans : Subscribe(u, p) \/ AdminAssign(u, p)
          \/ \E c \in Codes : Redeem(u, c)
          \/ \E amount \in Balances : AdjustBalance(u, amount)
          \/ \E month \in Nat \cap {clock, clock - 1} : Bill(u, month)
    \/ \E r \in Requests, u \in Users :
          \/ \E p \in Plans : AskUpgrade(r, u, p)
          \/ \E edit \in Edits : AskAdminUpdate(r, u, edit)
          \/ AskRenewal(r, u) \/ AskCancel(r, u) \/ AskReset(r, u)
    \/ \E r \in Requests : Ends(r)
    \/ \E c \in Codes : Revoke(c)
    \/ ExpireSubscriptions
    \/ MonthPasses

Spec == Init /\ [][Next]_vars

-----------------------------------------------------------------------------
\* Nobody gets more of a limited plan, or of a category of codes, than its limit
\* by what he buys and redeems under one address, whatever accounts he deletes and
\* registers anew, whatever addresses he moves between, and whatever plans an
\* administrator grants besides (PlanPurchasesService, redeem).
LimitPerAddress ==
    \A e \in Emails :
        /\ \A p \in Plans : Limit[p] # Unlimited => bought[e][p] <= Limit[p]
        /\ CategoryLimit # Unlimited => redeemed[e] <= CategoryLimit

\* The address of an account never has the purchase history of another identity:
\* a purchase, a change of address or a deletion is not refused for that
\* (ensureIdentityForUser).
NoForeignHistory == \A u \in Users : Live(u) => ~Foreign(u, account[u].email)

\* A quota counts at least what was billed in the month since the last purchase or
\* renewal, and the user's row agrees with the subscription's: a reset that was
\* decided earlier does not wipe it, whoever resets first (ensureTrafficReset,
\* resetDueTrafficPeriods, persistTrafficSnapshots).  What is lost has one of two
\* causes.  An administrator's form writes the usage back as it was read: the bytes
\* billed while it was open are gone (adminUpdate).  And a plan without periods may
\* be left one, by a renewal that was decided before the change to that plan; a
\* reset on its way then ends it, which wipes what it counted.
QuotaCountsPeriod ==
    \A u \in Users : sub[u] # NoSub =>
        fresh[u] <= sub[u].used + lost[u] /\ account[u].used = sub[u].used

=============================================================================
