----------------------------- MODULE WalletStore -----------------------------
(***************************************************************************)
(* What WalletStorage promises to the wallet: a restart reads either the   *)
(* document that was stored before or one complete document that a running *)
(* save offered, and the change happens at one instant.  Nothing else      *)
(* changes what a restart reads.  The promise is void once the store is    *)
(* compromised: a rename failed and the fallback removed the wallet first, *)
(* or two saves used the same temporary file at the same time.             *)
(***************************************************************************)

VARIABLES stored,       \* what reading the wallet path returns
          offered,      \* the documents of the saves that are running
          compromised   \* the promise no longer holds

storeVars == <<stored, offered, compromised>>

StoreInit ==
    /\ offered = {}
    /\ compromised = FALSE

(* A save begins or ends (it returned, failed, or the process died).       *)
Offer ==
    /\ stored' = stored
    /\ \/ offered \subseteq offered'
       \/ offered' \subseteq offered

(* A running save takes effect, all of its document at once, and ends.     *)
Replace ==
    /\ stored' \in offered
    /\ offered' \subseteq offered

Sound ==
    /\ ~compromised'
    /\ Offer \/ Replace

Void == compromised'

StoreNext == Sound \/ Void

StoreSpec == StoreInit /\ [][StoreNext]_storeVars
==============================================================================
