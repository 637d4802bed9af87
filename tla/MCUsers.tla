----------------------------- MODULE MCUsers -----------------------------
EXTENDS Users

Mail(address, spelling) == [address |-> address, spelling |-> spelling]
Form(email, password) == [email |-> email, password |-> password, valid |-> TRUE]

(* One mailbox in two spellings and with two passwords, the default        *)
(* administrator's mailbox, and a form that validation refuses.            *)
SomeForms ==
    {Form(Mail("ana", "lower"), "p1"), Form(Mail("ana", "mixed"), "p1"),
     Form(Mail("ana", "mixed"), "p2"), Form(Mail("admin", "lower"), "p1"),
     [Form(Mail("ana", "lower"), "p1") EXCEPT !.valid = FALSE]}

(* The administrator's e-mail is configured in mixed case. *)
TwoDefaults ==
    <<[email |-> Mail("admin", "mixed"), password |-> "p1", role |-> RoleAdministrator],
      [email |-> Mail("user", "lower"), password |-> "p2", role |-> RoleUser]>>
=============================================================================
