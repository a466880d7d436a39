------------------------------- MODULE MCAccounts -------------------------------
EXTENDS Accounts

CONSTANTS old, settled, new, m1, m2
MCUsers == {old, settled, new}
MCSettled == {settled}
MCLegacy == {old}
MCModels == {m1, m2}
MCFirstModels == {m1}

Want(kind, user, model, on) == [kind |-> kind, user |-> user, model |-> model, on |-> on]
MCWanted ==
  <<Want("register", new, None, FALSE), Want("backfill", None, None, FALSE),
    Want("create_model", None, m2, FALSE), Want("settings", new, None, TRUE),
    Want("settings", settled, None, TRUE), Want("settings", settled, None, FALSE),
    Want("config", settled, m2, TRUE), Want("close", settled, None, FALSE),
    Want("cancel", settled, None, FALSE)>>
=============================================================================
