--------------------------- MODULE NoteCiphertexts ---------------------------
(***************************************************************************)
(* The ciphertexts a note travels in (railguncrypto): a transfer's output  *)
(* to the viewing key of its owner. Cryptography is free. A point of the   *)
(* curve is the bag of the scalars the base point was multiplied with, so  *)
(* that their order does not matter; the XOR of master public keys is the  *)
(* symmetric difference. A wallet is its master public key, a number, and  *)
(* the viewing key of wallet w is known by the same number.                *)
(***************************************************************************)
EXTENDS Bags

XorKeys(a, b) == (a \cup b) \ (a \cap b)

Times(point, scalar) == point (+) SetToBag({scalar})
Viewing(wallet) == <<"viewing", wallet>>
ViewingPub(wallet) == Times(EmptyBag, Viewing(wallet))

(* AES-GCM: what is sealed opens with the same key only.                   *)
EncryptGCM(key, blocks) == [sealedWith |-> key, blocks |-> blocks]
Opens(key, ct) == ct.sealedWith = key
DecryptGCM(key, ct) == ct.blocks

(* Bug, as all operators named X_Y: only the sender's key is blinded.      *)
BlindNoteKeys_SenderOnly(senderPub, receiverPub, random) ==
    [sender |-> Times(senderPub, random), receiver |-> receiverPub]

(* Both viewing keys times a scalar derived from the note's random.        *)
BlindNoteKeys(senderPub, receiverPub, random) ==
    [sender |-> Times(senderPub, random), receiver |-> Times(receiverPub, random)]

SharedKey(wallet, point) == Times(point, Viewing(wallet))

(* Bug: the key is derived from the sender's own blinded key.              *)
EncryptTransactNote_OwnKey(sender, receiver, viewing, random, value) ==
    LET blinded == BlindNoteKeys(ViewingPub(sender), ViewingPub(viewing), random)
    IN  [ct |-> EncryptGCM(SharedKey(sender, blinded.sender),
                           [encodedMPK |-> XorKeys({receiver}, {sender}), random |-> random, value |-> value]),
         blindedSender |-> blinded.sender, blindedReceiver |-> blinded.receiver]

(* receiver is the owner's master public key, viewing his viewing key.     *)
EncryptTransactNote(sender, receiver, viewing, random, value) ==
    LET blinded == BlindNoteKeys(ViewingPub(sender), ViewingPub(viewing), random)
    IN  [ct |-> EncryptGCM(SharedKey(sender, blinded.receiver),
                           [encodedMPK |-> XorKeys({receiver}, {sender}), random |-> random, value |-> value]),
         blindedSender |-> blinded.sender, blindedReceiver |-> blinded.receiver]

Placeholder ==
    [ct |-> EncryptGCM(EmptyBag, [encodedMPK |-> {}, random |-> <<>>, value |-> 0]),
     blindedSender |-> EmptyBag, blindedReceiver |-> EmptyBag]

(* DecryptTransactNote: whether it succeeds, and what it gives.            *)
Decrypts(wallet, ec) == Opens(SharedKey(wallet, ec.blindedSender), ec.ct)
Decrypted(wallet, ec) == DecryptGCM(SharedKey(wallet, ec.blindedSender), ec.ct)

=============================================================================
