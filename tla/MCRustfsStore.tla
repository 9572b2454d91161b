--------------------------- MODULE MCRustfsStore ---------------------------
(***************************************************************************)
(* Small instances of RustfsStore for TLC. put_bytes calls are alike, and  *)
(* so are the users of aclose: StoreUploads uses both symmetries.          *)
(***************************************************************************)
EXTENDS RustfsStore, TLC

Symmetry == Permutations(Puts) \cup Permutations(Closers)
=============================================================================
