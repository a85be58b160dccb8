--------------------------- MODULE MCThreadHistory ---------------------------
(* The model values of the chats are chat1 and chat2: thread/list returns them*)
(* on several pages.                                                         *)
EXTENDS ThreadHistory

=============================================================================
