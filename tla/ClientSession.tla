--------------------------- MODULE ClientSession ---------------------------
(***************************************************************************)
(* The session of the web client: init of AnonymousLogin.tsx, the auth and *)
(* crypto stores, the key storage and handleLogout.  The user id is in     *)
(* localStorage, which all tabs share; the refresh token and the two       *)
(* halves of the key pair are in the sessionStorage of a tab, which        *)
(* survives a reload.  A tab may be reloaded or closed at every await.     *)
(*                                                                         *)
(* An account is the number of its registration, a key pair the number of  *)
(* its generation.  Tokens are known by the account they were signed for.  *)
(***************************************************************************)
EXTENDS Naturals

CONSTANTS
    Tabs,
    MaxAccounts, MaxPairs,   \* bounds
    None                     \* not a number

ASSUME ClientAssumption == None \notin Nat

VARIABLES
    userId,      \* localStorage: pm_chat_userId
    token,       \* tab -> sessionStorage: account of pm_chat_refreshToken
    pk, pub,     \* tab -> sessionStorage: pm_chat_pk, pm_chat_pub_key
    auth,        \* tab -> authStore: user and account of the tokens
    keyPair,     \* tab -> cryptoStore: private and public half
    step,        \* tab -> await that init is in
    local,       \* tab -> what init has in its own variables
    accounts, pairs

clientVars == <<userId, token, pk, pub, auth, keyPair, step, local, accounts, pairs>>

NoAuth == [user |-> None, account |-> None]
NoPair == [private |-> None, public |-> None]
Pair(k) == [private |-> k, public |-> k]
NoLocal == [user |-> None, token |-> None, pair |-> None]

ClientInit ==
    /\ userId = None
    /\ token = [t \in Tabs |-> None]
    /\ pk = [t \in Tabs |-> None] /\ pub = [t \in Tabs |-> None]
    /\ auth = [t \in Tabs |-> NoAuth]
    /\ keyPair = [t \in Tabs |-> NoPair]
    /\ step = [t \in Tabs |-> "closed"]
    /\ local = [t \in Tabs |-> NoLocal]
    /\ accounts = 0 /\ pairs = 0

To(t, s) == step' = [step EXCEPT ![t] = s]

\* keyStorage.ts.
storePrivateKey(t, k) == pk' = [pk EXCEPT ![t] = k]
loadPrivateKey(t) == pk[t]
clearPrivateKey(t) == pk' = [pk EXCEPT ![t] = None]

\* authStore.ts: the user id of all tabs, the refresh token of this one.
loadPersistedAuth(t) == [user |-> userId, token |-> token[t], pair |-> None]

setAuth(t, u, a) ==
    /\ userId' = u
    /\ token' = [token EXCEPT ![t] = a]
    /\ auth' = [auth EXCEPT ![t] = [user |-> u, account |-> a]]

clearAuth(t) ==
    /\ userId' = None
    /\ token' = [token EXCEPT ![t] = None]
    /\ auth' = [auth EXCEPT ![t] = NoAuth]

generateKeyPair(t) ==
    /\ pairs < MaxPairs
    /\ pairs' = pairs + 1
    /\ local' = [local EXCEPT ![t].pair = pairs + 1]

\* The second half of init, up to the await of the registration.
Registration(t) == generateKeyPair(t) /\ To(t, "register")

\* init, up to its first request.
Begin(t) ==
    LET p == loadPersistedAuth(t)
    IN  IF p.user # None /\ p.token # None
        THEN /\ local' = [local EXCEPT ![t] = p]
             /\ To(t, "refresh")
             /\ UNCHANGED pairs
        ELSE Registration(t)

\* The page is opened, or loaded again: the memory of the tab is new.
LoadPage(t) ==
    /\ Begin(t)
    /\ auth' = [auth EXCEPT ![t] = NoAuth]
    /\ keyPair' = [keyPair EXCEPT ![t] = NoPair]
    /\ UNCHANGED <<userId, token, pk, pub, accounts>>

handleRetry(t) ==
    /\ step[t] = "error"
    /\ Begin(t)
    /\ UNCHANGED <<userId, token, pk, pub, auth, keyPair, accounts>>

\* The tokens are refreshed.  loadPrivateKey reads its half now and imports
\* it in the background.
Refreshed(t) ==
    /\ step[t] = "refresh"
    /\ setAuth(t, local[t].user, local[t].token)
    /\ local' = [local EXCEPT ![t].pair = loadPrivateKey(t)]
    /\ To(t, "import")
    /\ UNCHANGED <<pk, pub, keyPair, accounts, pairs>>

\* Both halves are there.
RestoreKeys(t) ==
    /\ step[t] = "import"
    /\ local[t].pair # None /\ pub[t] # None
    /\ keyPair' = [keyPair EXCEPT ![t] = [private |-> local[t].pair, public |-> pub[t]]]
    /\ To(t, "ready")
    /\ UNCHANGED <<userId, token, pk, pub, auth, local, accounts, pairs>>

\* One is missing: a new pair, whose public half is stored first.
RenewKeys(t) ==
    /\ step[t] = "import"
    /\ local[t].pair = None \/ pub[t] = None
    /\ generateKeyPair(t)
    /\ pub' = [pub EXCEPT ![t] = pairs + 1]
    /\ keyPair' = [keyPair EXCEPT ![t] = Pair(pairs + 1)]
    /\ To(t, "storeRenewed")
    /\ UNCHANGED <<userId, token, pk, auth, accounts>>

\* The refresh or the import fails: init goes on to register a new account.
RestoreFails(t) ==
    /\ step[t] \in {"refresh", "import"}
    /\ Registration(t)
    /\ UNCHANGED <<userId, token, pk, pub, auth, keyPair, accounts>>

\* Mutant: the public half is stored before the private one.
RegisteredPublicFirst(t) ==
    /\ step[t] = "register"
    /\ accounts < MaxAccounts
    /\ accounts' = accounts + 1
    /\ setAuth(t, accounts + 1, accounts + 1)
    /\ keyPair' = [keyPair EXCEPT ![t] = Pair(local[t].pair)]
    /\ pub' = [pub EXCEPT ![t] = local[t].pair]
    /\ To(t, "store")
    /\ UNCHANGED <<pk, local, pairs>>

\* The server has registered the account with the new public key.
Registered(t) ==
    /\ step[t] = "register"
    /\ accounts < MaxAccounts
    /\ accounts' = accounts + 1
    /\ setAuth(t, accounts + 1, accounts + 1)
    /\ keyPair' = [keyPair EXCEPT ![t] = Pair(local[t].pair)]
    /\ To(t, "store")
    /\ UNCHANGED <<pk, pub, local, pairs>>

RegistrationFails(t) ==
    /\ step[t] = "register"
    /\ To(t, "error")
    /\ UNCHANGED <<userId, token, pk, pub, auth, keyPair, local, accounts, pairs>>

\* storePrivateKey is done; after a registration the public half follows in
\* the same task.
Stored(t) ==
    /\ step[t] \in {"store", "storeRenewed"}
    /\ storePrivateKey(t, local[t].pair)
    /\ pub' = IF step[t] = "store" THEN [pub EXCEPT ![t] = local[t].pair] ELSE pub
    /\ To(t, "ready")
    /\ UNCHANGED <<userId, token, auth, keyPair, local, accounts, pairs>>

\* handleLogout, whatever init is doing; pm_chat_pub_key stays.
handleLogout(t) ==
    /\ auth[t] # NoAuth
    /\ clearPrivateKey(t)
    /\ keyPair' = [keyPair EXCEPT ![t] = NoPair]
    /\ clearAuth(t)
    /\ UNCHANGED <<pub, step, local, accounts, pairs>>

CloseTab(t) ==
    /\ step[t] # "closed"
    /\ To(t, "closed")
    /\ token' = [token EXCEPT ![t] = None]
    /\ pk' = [pk EXCEPT ![t] = None]
    /\ pub' = [pub EXCEPT ![t] = None]
    /\ auth' = [auth EXCEPT ![t] = NoAuth]
    /\ keyPair' = [keyPair EXCEPT ![t] = NoPair]
    /\ local' = [local EXCEPT ![t] = NoLocal]
    /\ UNCHANGED <<userId, accounts, pairs>>

ClientNext ==
    \E t \in Tabs :
        \/ LoadPage(t) \/ handleRetry(t) \/ CloseTab(t) \/ handleLogout(t)
        \/ Refreshed(t) \/ RestoreKeys(t) \/ RenewKeys(t) \/ RestoreFails(t)
        \/ Registered(t) \/ RegistrationFails(t) \/ Stored(t)

-----------------------------------------------------------------------------
(* Properties *)

\* The two halves that a tab works with are of one pair, although they are
\* stored apart and at different instants, and a reload, a logout or a failed
\* refresh may come in between (AnonymousLogin.tsx:69-82, 110-116,
\* settings/page.tsx:27-41).
KeyHalvesMatch == \A t \in Tabs : keyPair[t].private = keyPair[t].public
=============================================================================
