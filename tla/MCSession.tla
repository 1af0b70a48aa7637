----------------------------- MODULE MCSession -----------------------------
(* Instance of Session for TLC: three names for connect flows (the newest, *)
(* one whose welcome is still loading, one to be opened), the program's    *)
(* own three attempts and two missed pongs.                                *)
EXTENDS Session
=============================================================================
