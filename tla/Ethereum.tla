------------------------------ MODULE Ethereum ------------------------------
(***************************************************************************)
(* The transaction endpoints (ethereum.go on ethereum_service.go): build-tx, *)
(* sign-tx and quick-send.  A request asks the network for the account's     *)
(* pending nonce, signs through the signing service, which keeps an id for   *)
(* ever once a session has it, and quick-send hands the transaction to the   *)
(* network.  Requests run in goroutines; a step is what one does between two *)
(* calls that take time.                                                     *)
(*                                                                         *)
(* Transactions to be signed are kept in a map under their nonce.  Signing   *)
(* ids derive from the nonce too, as ethsign_tx_<nonce> and                  *)
(* quicksend_<nonce>.  Receivers, data and gas are left out: amounts stand   *)
(* for what two transactions of an account and a nonce can differ in.        *)
(*                                                                         *)
(* The network is no part of the state.  /ethereum/broadcast passes on any   *)
(* raw transaction, /signing/start signs any hash under ids of its own, and  *)
(* nodes replace and drop transactions: whatever the backend knows, any      *)
(* nonce may be the pending one, at each call.                               *)
(***************************************************************************)
EXTENDS EthUnits, Integers, FiniteSets

CONSTANTS
  Account,   \* the accounts in use: a network and the address of a wallet on it
  Ask,       \* what clients ask for: an account and the amount to send, in Wei,
             \* with the field it comes in: <<"wei", n>> or <<"ether", n>>
  Request,   \* the requests the server runs at a time
  MaxNonce,  \* bound: the last nonce transactions are built for
  MaxAsked,  \* bound: the different transactions that are built
  MaxSessions, \* bound: the signing sessions
  NoTx       \* what is under a nonce with no transaction

ASSUME EthereumAssumption == /\ Ask \subseteq Account \X ({"wei", "ether"} \X Int)
                             /\ {MaxNonce, MaxAsked, MaxSessions} \subseteq Nat

NetworkOf(a) == a[1]
WalletOf(a) == a[2]

Amount == {ask[2] : ask \in Ask}
Wallet == {WalletOf(a) : a \in Account}
Nonce == 0..MaxNonce
SigningId == {"ethsign", "quicksend"} \X Nonce

VARIABLES
  store,    \* unsignedTxStore: nonce -> the transaction that is stored under it
  signing,  \* the signing service: id -> how far its session is
  pc,       \* per request: what it does next
  id,       \* per request: the signing id it uses
  tx,       \* per request: its transaction
  hash,     \* per request: what it has signed, and with which wallet
  asked,    \* the transactions built so far, for sign-tx or for quick-send
  signed,   \* those signed so far, with their signing ids
  sent,     \* those quick-send has handed to the network
  down      \* the runtime has ended the process

requests == <<pc, id, tx, hash>>
vars     == <<store, signing, requests, asked, signed, sent, down>>

\* With the amount as the client gave it; what is transferred is Wei's.
Transaction == [account : Account, nonce : Nonce, amount : Amount]

ASSUME NoTxAssumption == NoTx \notin Transaction

\* What is transferred for each amount: valueWei is taken as it is, valueEth is
\* converted, and cut off towards zero.
Wei == [a \in Amount |-> IF a[1] = "wei" THEN a[2]
                         ELSE IF a[2] < 0 THEN -EtherToWei(-a[2]) ELSE EtherToWei(a[2])]

\* What the EIP-155 signer hashes: everything but the sender.
Hash(t) == [network |-> NetworkOf(t.account), nonce |-> t.nonce, value |-> Wei[t.amount]]

NothingToSign == [digest |-> NoTx, wallet |-> NoTx]

Init == /\ store = [n \in Nonce |-> NoTx]
        /\ signing = [i \in SigningId |-> "none"]
        /\ pc = [r \in Request |-> "idle"]
        /\ id = [r \in Request |-> <<"ethsign", 0>>]
        /\ tx = [r \in Request |-> NoTx]
        /\ hash = [r \in Request |-> NothingToSign]
        /\ asked = {} /\ signed = {} /\ sent = {}
        /\ down = FALSE

Goto(r, label) == pc' = [pc EXCEPT ![r] = label]

\* The request is answered, with an error or not.
Answer(r) == /\ Goto(r, "idle")
             /\ id' = [id EXCEPT ![r] = <<"ethsign", 0>>]
             /\ tx' = [tx EXCEPT ![r] = NoTx]
             /\ hash' = [hash EXCEPT ![r] = NothingToSign]

-----------------------------------------------------------------------------
(* BuildTransaction *)

\* What PendingNonceAt may answer: within the bound, or just beyond it.
Pending == 0..(MaxNonce + 1)

\* The account is that of a completed keygen session's key.  When one of the calls
\* to the network fails the request is answered, and nothing has changed.
BuildUnsignedTransaction(ask, n) == [account |-> ask[1], nonce |-> n, amount |-> ask[2]]

\* The bounds.
Askable(t) == t.nonce \in Nonce /\ (t \in asked \/ Cardinality(asked) < MaxAsked)

BuildTransaction(r) ==
  /\ ~down /\ pc[r] = "idle"
  /\ \E ask \in Ask, n \in Pending :
       /\ Askable(BuildUnsignedTransaction(ask, n))
       /\ tx' = [tx EXCEPT ![r] = BuildUnsignedTransaction(ask, n)]
  /\ Goto(r, "store")
  /\ UNCHANGED <<store, signing, id, hash, asked, signed, sent, down>>

StoreTransaction(r) ==
  /\ ~down /\ pc[r] = "store"
  /\ store' = [store EXCEPT ![tx[r].nonce] = tx[r]]
  /\ asked' = asked \cup {tx[r]}
  /\ Answer(r)
  /\ UNCHANGED <<signing, signed, sent, down>>

-----------------------------------------------------------------------------
(* SignTransaction *)

\* Mutant: the transaction need not be there.
SignUnchecked(r) ==
  /\ ~down /\ pc[r] = "idle"
  /\ \E n \in Nonce, w \in Wallet :
       /\ tx' = [tx EXCEPT ![r] = store[n]]
       /\ id' = [id EXCEPT ![r] = <<"ethsign", n>>]
       /\ hash' = [hash EXCEPT ![r].wallet = w]
  /\ Goto(r, "rehash")
  /\ UNCHANGED <<store, signing, asked, signed, sent, down>>

\* The client names a transaction, and a keygen session of its choice.  Without the
\* transaction it is answered at once.
SignTransaction(r) ==
  /\ ~down /\ pc[r] = "idle"
  /\ \E n \in Nonce, w \in Wallet :
       /\ store[n] # NoTx
       /\ tx' = [tx EXCEPT ![r] = store[n]]
       /\ id' = [id EXCEPT ![r] = <<"ethsign", n>>]
       /\ hash' = [hash EXCEPT ![r].wallet = w]
  /\ Goto(r, "rehash")
  /\ UNCHANGED <<store, signing, asked, signed, sent, down>>

\* The map is not locked.  The runtime may notice that one request writes it while
\* another writes, or arrives and reads, and ends the process.  The keys are gone
\* with it, and their accounts can sign nothing more.
MapRace(r, q) ==
  /\ ~down /\ r # q
  /\ pc[r] = "store" /\ pc[q] \in {"store", "idle"}
  /\ down' = TRUE
  /\ UNCHANGED <<store, signing, requests, asked, signed, sent>>

\* The transaction is built once more, for its hash only.
Rehash(r) ==
  /\ ~down /\ pc[r] = "rehash"
  /\ \/ /\ \E n \in Pending : hash' = [hash EXCEPT ![r].digest = Hash([tx[r] EXCEPT !.nonce = n])]
        /\ Goto(r, "create")
        /\ UNCHANGED <<id, tx>>
     \/ Answer(r)
  /\ UNCHANGED <<store, signing, asked, signed, sent, down>>

-----------------------------------------------------------------------------
(* The signing service *)

Sessions == {i \in SigningId : signing[i] # "none"}

\* Mutant: a session that has failed or is over is replaced.
CreateSigningAnew(r) ==
  /\ ~down /\ pc[r] = "create"
  /\ \/ /\ signing[id[r]] # "running"
        /\ signing' = [signing EXCEPT ![id[r]] = "running"]
        /\ Goto(r, "wait")
        /\ UNCHANGED <<id, tx, hash>>
     \/ Answer(r) /\ UNCHANGED signing
  /\ UNCHANGED <<store, asked, signed, sent, down>>

\* The first request with an id gets a session.  Others are refused, and so is
\* one whose signers do not do; that leaves the id free.
CreateSigning(r) ==
  /\ ~down /\ pc[r] = "create"
  /\ \/ /\ signing[id[r]] = "none" /\ Cardinality(Sessions) < MaxSessions
        /\ signing' = [signing EXCEPT ![id[r]] = "running"]
        /\ Goto(r, "wait")
        /\ UNCHANGED <<id, tx, hash>>
     \/ Answer(r) /\ UNCHANGED signing
  /\ UNCHANGED <<store, asked, signed, sent, down>>

\* Mutant: the sender is not recovered from the signed transaction.
VerifiesAny(t, h) == TRUE

\* Any other hash or key recovers another sender, and a negative value cannot be
\* encoded.
Verifies(t, h) == h.digest = Hash(t) /\ h.wallet = WalletOf(t.account) /\ Wei[t.amount] >= 0

\* A sign-tx answers with the raw transaction, a quick-send goes on to send it.
ApplySignature(r) ==
  IF Verifies(tx[r], hash[r])
  THEN /\ signed' = signed \cup {[id |-> id[r], tx |-> tx[r], by |-> hash[r]]}
       /\ IF id[r][1] = "quicksend" THEN Goto(r, "send") /\ UNCHANGED <<id, tx, hash>>
          ELSE Answer(r)
  ELSE Answer(r) /\ UNCHANGED signed

\* The protocol comes to a signature, or fails, or times out.
SigningEnds(r) ==
  /\ ~down /\ pc[r] = "wait"
  /\ \/ /\ signing' = [signing EXCEPT ![id[r]] = "completed"]
        /\ ApplySignature(r)
     \/ /\ signing' = [signing EXCEPT ![id[r]] = "failed"]
        /\ Answer(r)
        /\ UNCHANGED signed
  /\ UNCHANGED <<store, asked, sent, down>>

-----------------------------------------------------------------------------
(* QuickSend *)

QuickSend(r) ==
  /\ ~down /\ pc[r] = "idle"
  /\ \E ask \in Ask, n \in Pending :
       LET t == BuildUnsignedTransaction(ask, n)
       IN  /\ Askable(t)
           /\ tx' = [tx EXCEPT ![r] = t]
           /\ id' = [id EXCEPT ![r] = <<"quicksend", n>>]
           /\ hash' = [hash EXCEPT ![r] = [digest |-> Hash(t), wallet |-> WalletOf(ask[1])]]
           /\ asked' = asked \cup {t}
  /\ Goto(r, "create")
  /\ UNCHANGED <<store, signing, signed, sent, down>>

\* The transaction is handed to the network once, whatever comes of it: an error is
\* answered, together with the raw transaction.
QuickBroadcast(r) ==
  /\ ~down /\ pc[r] = "send"
  /\ sent' = sent \cup {[id |-> id[r], tx |-> tx[r]]}
  /\ Answer(r)
  /\ UNCHANGED <<store, signing, asked, signed, down>>

Next ==
  \E r \in Request :
    \/ BuildTransaction(r) \/ StoreTransaction(r)
    \/ SignTransaction(r) \/ Rehash(r)
    \/ CreateSigning(r) \/ SigningEnds(r)
    \/ QuickSend(r) \/ QuickBroadcast(r)
    \/ \E q \in Request : MapRace(r, q)

Spec == Init /\ [][Next]_vars

-----------------------------------------------------------------------------
(* Properties *)

Digest == [network : {NetworkOf(a) : a \in Account}, nonce : Pending, value : {Wei[a] : a \in Amount}]

TypeOK ==
  /\ store \in [Nonce -> Transaction \cup {NoTx}]
  /\ signing \in [SigningId -> {"none", "running", "completed", "failed"}]
  /\ pc \in [Request -> {"idle", "store", "rehash", "create", "wait", "send"}]
  /\ id \in [Request -> SigningId]
  /\ tx \in [Request -> Transaction \cup {NoTx}]
  /\ hash \in [Request -> [digest : Digest \cup {NoTx}, wallet : Wallet \cup {NoTx}]]
  /\ \A r \in Request : pc[r] # "idle" => tx[r] # NoTx
  /\ asked \subseteq Transaction
  /\ signed \subseteq [id : SigningId, tx : Transaction, by : [digest : Digest, wallet : Wallet]]
  /\ sent \subseteq [id : SigningId, tx : Transaction]
  /\ down \in BOOLEAN

\* What sign-tx answers and quick-send sends is a transaction somebody built, signed
\* by its own wallet for its own nonce, although sign-tx builds the hash anew, with
\* whatever nonce is then pending, and takes whatever keygen session it is told
\* (ApplySignature recovers the sender).
SignedAsAsked ==
  \A s \in signed : /\ s.tx \in asked
                    /\ s.by.digest = Hash(s.tx)
                    /\ s.by.wallet = WalletOf(s.tx.account)

\* Retries, requests at the same time, a nonce that is pending again: sign-tx, and
\* quick-send, never sign two transactions of an account for one nonce, because a
\* signing id serves once.  It is said of each route on its own: the other one, and
\* /signing/start, sign under other ids.
SignedOncePerNonce ==
  \A s, t \in signed :
     s.id[1] = t.id[1] /\ s.tx.account = t.tx.account /\ s.tx.nonce = t.tx.nonce => s.tx = t.tx

\* The value v is the amount of n Wei, or the last Wei nearer to zero.
LastWei(n, v) == v = n \/ (n > 0 /\ v = n - 1) \/ (n < 0 /\ v = n + 1)

\* What is signed for is exactly the valueWei the client asked for, and for valueEth
\* at most the last Wei nearer to zero, for every amount well below what the mantissa
\* holds (EtherToWei cuts off a product that is rounded twice).
AmountKept ==
  /\ ConversionsKeep
  /\ \A s \in signed :
       LET n == s.tx.amount[2]
           v == s.by.digest.value
       IN  /\ v >= 0
           /\ IF s.tx.amount[1] = "wei" THEN v = n ELSE LastWei(n, v)

\* Each step is one of Payments: built, then signed under a fresh id, then, by
\* quick-send, handed to the network once.
P == INSTANCE Payments WITH
       Tx <- Transaction, Id <- SigningId,
       signed <- {[id |-> s.id, tx |-> s.tx] : s \in signed}

ImplementsPayments == P!Spec
=============================================================================
