---------------------------- MODULE Transactions -----------------------------
(***************************************************************************)
(* How a signed transaction is executed: the ante handler checks it        *)
(* against the account of its signer, and then the handler of its message  *)
(* runs.  A signed transaction is public: it may be delivered late, out of *)
(* order, again, or never, while the account of its signer is revoked and  *)
(* added again.  The messages are those of x/vendorinfo; the accounts are  *)
(* those of x/dclauth.                                                     *)
(*                                                                         *)
(* The transactions of x/dclauth are taken as delivered when signed;       *)
(* sequence numbers are followed for the submitters only.                  *)
(***************************************************************************)
EXTENDS Dclauth

CONSTANTS
  Submitter,      \* the addresses that send the messages of x/vendorinfo
  Info,           \* contents of vendor records
  MaxSequence,    \* bound on the sequence numbers that are signed
  MaxSigned       \* bound on the number of signed transactions

ASSUME SubmitterAssumption == Submitter \subseteq Address
ASSUME SignedAssumption == MaxSequence \in Nat /\ MaxSigned \in Nat

VARIABLES
  sequence,       \* address of a submitter's account |-> its sequence number
  signed,         \* the transactions that have been signed
  executed,       \* those that passed the ante handler, in this order
  vendorInfo

txVars == <<sequence, signed, executed, vendorInfo>>
allVars == <<vars, txVars>>

Message == [type : {"create", "update"}, vid : VendorID, info : Info]

\* What the signature of a transaction covers.
Transaction == [signer : Submitter, number : Nat, sequence : Nat, msg : Message]

\* HasRole and HasVendorID for the role Vendor.
Vendors == [a \in AccountsWithRole("Vendor") |-> account[a].vid]

VI == INSTANCE VendorInfo WITH vendors <- Vendors

-----------------------------------------------------------------------------
(* The ante handler. *)

\* SetPubKeyDecorator finds the account, SigVerificationDecorator compares
\* the sequence number and verifies a signature over it and the account
\* number.
Authenticated(tx) ==
  /\ tx.signer \in DOMAIN account
  /\ tx.number = account[tx.signer].number
  /\ tx.sequence = sequence[tx.signer]

\* IncrementSequenceDecorator, through SetAccount.
IncrementSequence(addr) == sequence' = [sequence EXCEPT ![addr] = @ + 1]

-----------------------------------------------------------------------------
\* The client reads the number and the sequence of the account and signs,
\* also ahead of transactions that are not executed yet.
Sign(addr, msg) ==
  /\ addr \in DOMAIN account
  /\ Cardinality(signed) < MaxSigned
  /\ \E n \in sequence[addr]..MaxSequence :
       signed' = signed \cup {[signer |-> addr, number |-> account[addr].number,
                               sequence |-> n, msg |-> msg]}
  /\ UNCHANGED <<vars, sequence, executed, vendorInfo>>

\* The effect of the message, or none when its handler returns an error.
RunMsg(tx) ==
  \/ /\ VI!CanWrite(tx.signer, tx.msg.type, tx.msg.vid)
     /\ VI!WriteVendorInfo(tx.signer, tx.msg.vid, tx.msg.info)
  \/ /\ ~VI!CanWrite(tx.signer, tx.msg.type, tx.msg.vid)
     /\ UNCHANGED vendorInfo

\* The sequence number stays increased when the message fails.
DeliverTx(tx) ==
  /\ Authenticated(tx)
  /\ IncrementSequence(tx.signer)
  /\ RunMsg(tx)
  /\ executed' = Append(executed, tx)
  /\ UNCHANGED <<vars, signed>>

\* A transaction of x/dclauth; an account that is added starts at zero.
AuthTx(signer) ==
  /\ SignedBy(signer)
  /\ sequence' = [a \in DOMAIN account' \cap Submitter |->
                    IF a \notin DOMAIN account THEN 0
                    ELSE IF a = signer THEN sequence[a] + 1 ELSE sequence[a]]
  /\ UNCHANGED <<signed, executed, vendorInfo>>

TxInit ==
  /\ Init
  /\ sequence = [a \in DOMAIN Genesis \cap Submitter |-> 0]
  /\ signed = {}
  /\ executed = <<>>
  /\ vendorInfo = EmptyStore

TxNext ==
  \/ \E signer \in Address : AuthTx(signer)
  \/ \E addr \in Submitter, msg \in Message : Sign(addr, msg)
  \/ \E tx \in signed : DeliverTx(tx)

TxSpec == TxInit /\ [][TxNext]_allVars

-----------------------------------------------------------------------------
(* Properties. *)

\* b was signed for a later account of the address, or for a later place in
\* the sequence of the same one.
Later(a, b) ==
  \/ a.number < b.number
  \/ a.number = b.number /\ a.sequence < b.sequence

\* A signed transaction is executed at most once, ever, and those of one
\* address in the order of their sequence numbers: also when they are
\* delivered again or out of order, when a message fails, and when the
\* account is revoked and added again, which starts the sequence from zero
\* (the decorators of NewAnteHandler, GetNextAccountNumber).
ExecutedOnceInOrder ==
  \A i, j \in DOMAIN executed :
    i < j /\ executed[i].signer = executed[j].signer => Later(executed[i], executed[j])

\* A record changes only by a transaction that its writer has signed with
\* the account it has now, which is a vendor's account with this vendor id.
VendorStep ==
  \A vid \in DOMAIN vendorInfo \cup DOMAIN vendorInfo' :
    \/ vid \in DOMAIN vendorInfo \cap DOMAIN vendorInfo' /\ vendorInfo'[vid] = vendorInfo[vid]
    \/ \E tx \in signed :
         /\ vid \in DOMAIN vendorInfo'
         /\ vendorInfo'[vid] = [creator |-> tx.signer, info |-> tx.msg.info]
         /\ tx.msg.vid = vid
         /\ HasRole(tx.signer, "Vendor")
         /\ account[tx.signer].vid = vid
         /\ account[tx.signer].number = tx.number

\* The record of a vendor is written by its accounts only, and not by what
\* an account signed before it was revoked (CreateVendorInfo,
\* UpdateVendorInfo behind the ante handler).
RecordsByTheirVendor == [][VendorStep]_allVars
=============================================================================
