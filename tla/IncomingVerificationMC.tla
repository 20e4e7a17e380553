----------------------- MODULE IncomingVerificationMC -----------------------
(***************************************************************************)
(* Instances of IncomingVerification for TLC.                              *)
(***************************************************************************)
EXTENDS IncomingVerification

CONSTANTS usdc, nft

TwoTokens == {usdc, nft}

LogTo(party, n) == [to |-> party, asset |-> usdc, amount |-> n, id |-> NoId]
ItemTo(party, id) == [to |-> party, asset |-> nft, amount |-> 1, id |-> id]
Tx(logs, value, success) ==
    [logs |-> logs, value |-> value, success |-> success]

\* A batch whose first payment is somebody else's, coin for the recipient beside
\* a token for somebody else, a payment that reverted, and two items of one
\* collection.
AllContents == {Tx(<<LogTo("other", 2), LogTo("recipient", 1)>>, 0, TRUE),
                Tx(<<LogTo("other", 1)>>, 1, TRUE),
                Tx(<<LogTo("recipient", 1)>>, 0, FALSE),
                Tx(<<ItemTo("recipient", 2), ItemTo("recipient", 1)>>, 0, TRUE)}

\* The coin by its symbol, an item by its id in place of the amount, what is in
\* none of them, and the item that is not the first.
PlainClaim == [asset |-> NoAsset, id |-> NoId, amount |-> NoAmount,
               labelled |-> FALSE]
AllClaims == {[PlainClaim EXCEPT !.asset = Native, !.amount = 1, !.labelled = TRUE],
              [PlainClaim EXCEPT !.asset = nft, !.amount = 2],
              [PlainClaim EXCEPT !.id = 3, !.amount = 2],
              [PlainClaim EXCEPT !.id = 1]}

\* Claims that name no amount.
UnpricedClaims == {PlainClaim}

=============================================================================
