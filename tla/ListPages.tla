------------------------------ MODULE ListPages ------------------------------
(***************************************************************************)
(* What a list endpoint answers, page by page: the objects in list order   *)
(* (their keys are numbers), and with all but the last page a token that   *)
(* names the last key of the page; 0 asks for the first page.  That key    *)
(* need not be there any more when the token is used.  Nothing in the      *)
(* provider depends on what a token is, but what it may conclude from the  *)
(* pages does.                                                             *)
(***************************************************************************)
EXTENDS Naturals, FiniteSets

After(listed, token) == {k \in listed : k > token}

(* The first `size' objects after the token.                               *)
Page(listed, token, size) ==
  {k \in After(listed, token) :
     Cardinality({j \in After(listed, token) : j < k}) < size}

IsLast(listed, token, size) ==
  Page(listed, token, size) = After(listed, token)

(* The token that comes with a page that is not the last: its last key.    *)
NextTokens(listed, token, size) ==
  {t \in Page(listed, token, size) :
     \A k \in Page(listed, token, size) : k <= t}
=============================================================================
