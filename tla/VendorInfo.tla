----------------------------- MODULE VendorInfo ------------------------------
(***************************************************************************)
(* x/vendorinfo: one record per vendor id, which the accounts of that      *)
(* vendor create and overwrite.  Records are never removed.                *)
(***************************************************************************)
EXTENDS KVStore

VARIABLES
  vendors,      \* accounts with the Vendor role: address |-> vendor id
  vendorInfo    \* vendor id |-> the record and the account that wrote it last

\* Any vendor may write any record.
CheckVendorRights_AnyVendor(signer, vid) == signer \in DOMAIN vendors

\* checkAddVendorRights and checkUpdateVendorRights.
CheckVendorRights(signer, vid) == signer \in DOMAIN vendors /\ vendors[signer] = vid

\* The checks of the handler for a message that creates or updates.
CanWrite(signer, type, vid) ==
  /\ type = "create" <=> vid \notin DOMAIN vendorInfo
  /\ CheckVendorRights(signer, vid)

\* CreateVendorInfo and UpdateVendorInfo store the whole record of the message.
WriteVendorInfo(signer, vid, info) ==
  vendorInfo' = Put(vendorInfo, vid, [creator |-> signer, info |-> info])
=============================================================================
