---------------------------- MODULE MCCredentials ----------------------------
\* Instances of Credentials for TLC.
EXTENDS Credentials, TLC

CONSTANTS w1, w2, w3

MCThree == {w1, w2, w3}
MCPasswords == {"old", "new"}
MCOne == {1}
MCOneTwo == {1, 2}

\* One session and three requests about it at a time: two exchange the same
\* refresh token while it expires, is signed out, cleaned up or its account
\* deactivated. Two instants past the session's end suffice to refresh, expire
\* and delete it under a request that read it before.
MCRefresh ==
    [kinds |-> {"login", "refresh", "logout", "cleanup", "deactivateByEmail"},
     sessions |-> MCOne, salts |-> 1, generations |-> 2, time |-> 2]

\* Three requests and commands at a time about one password: two changes of
\* it under a login (three salts) make the login verify twice and give up.
MCPassword ==
    [kinds |-> {"login", "changePassword", "deactivate", "resetPassword", "activate"},
     sessions |-> MCOneTwo, salts |-> 3, generations |-> 0, time |-> 0]

\* What touches a personal access token, and what only waits for the account row.
MCTokens ==
    [kinds |-> {"login", "createToken", "revokeToken", "resetPassword", "setEmail",
                "deactivate"},
     sessions |-> MCOneTwo, salts |-> 3, generations |-> 0, time |-> 0]

\* A personal access token made while the session that asks for it runs out
\* (one instant more), is deleted (two), and the password is reset.
MCRunOut ==
    [kinds |-> {"login", "createToken", "cleanup", "resetPassword"},
     sessions |-> MCOne, salts |-> 2, generations |-> 0, time |-> 2]

MCPlans == {MCRefresh, MCPassword, MCTokens, MCRunOut}

ThreePerms == Permutations(MCThree)
=============================================================================
