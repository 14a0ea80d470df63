--------------------------- MODULE MCSharedAnswers ---------------------------
EXTENDS SharedAnswers, TLC
(* Everything the clients of one context ask for, and what they ask for    *)
(* files in another locale, and in another account.                        *)
Context(account, locale) == [account |-> account, workspace |-> "w", locale |-> locale]
Home == Context("a", "pt")
MCRequests ==
    IOClients(Home) \cup UNION {VBaseFiles(Context("a", "en"), p) : p \in Paths}
    \cup AppsFiles(Context("a", "en"), LinkedApp, "f") \cup RegistryFiles(Context("b", "pt"), Registered, "f")
    \cup AppsFiles(Context("b", "pt"), Registered, "f") \cup MessagesRequests(Context("b", "en"))
Alike == Permutations(IncomingRequests)
=============================================================================
