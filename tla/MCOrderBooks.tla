---------------------------- MODULE MCOrderBooks ----------------------------
(* The two order books for TLC: the tree of the engines and the radix tree.  *)
(* They share no state, so each behaviour is one of subject's.               *)
EXTENDS MCOrderBookTree, ArtBook, TLC

VARIABLE subject

booksVars == <<subject, vars, artVars>>

BooksInit ==
  /\ subject \in {"tree", "art"}
  /\ Init /\ ArtInit
  /\ subject # "art" => engine = "art"

BooksNext ==
  \/ subject = "tree" /\ Next /\ UNCHANGED <<subject, artVars>>
  \/ subject = "art" /\ ArtNext /\ UNCHANGED <<subject, vars>>

BooksSpec == BooksInit /\ [][BooksNext]_booksVars

ArtSymmetry == Permutations(ArtOrders)
=============================================================================
