------------------------ MODULE MCPermissionPrompts ------------------------
(* Values for the constants of PermissionPrompts.                          *)
EXTENDS PermissionPrompts

\* Everything that may race, with the hooks beside the dialog or before it.
AllSetups == {{"hooks", "bridge", "channel"}, {"hooks", "first"}, {}}

\* No racer besides the dialog.
Alone == {{}}
=============================================================================
