---------------------------------- MODULE OAuth ----------------------------------
(***************************************************************************)
(* [oauth] (src/oauth.c): the machinery of Ctw under an object that signs  *)
(* every request on Pd's thread, with the account of the last init message *)
(* and the method of the last method message, before the worker starts.    *)
(* string_free frees a text and leaves the pointer to it, so the fields    *)
(* below say which text a pointer leads to, and their lengths whether it   *)
(* is still there.                                                         *)
(***************************************************************************)
EXTENDS Ctw, SequencesExt

CONSTANTS
    Accounts,  \* what init messages name: a base URL with its keys and tokens
    Keys,      \* RSA keys, as the words of the message that brings them
    Opening,   \* the words that begin with -----
    Closing,   \* the words that end with -----
    Inits,     \* which init messages the patch sends
    Methods,   \* the arguments of its method messages
    Freed      \* text that was freed

ASSUME OAuthAssumption ==
    /\ None \notin Accounts /\ Freed \notin Accounts /\ None \notin Keys
    /\ None # Freed
    /\ Inits \subseteq {"client", "token", "wrong"}
    /\ Methods \subseteq {"HMAC", "PLAINTEXT", "RSA", "invalid"}
    /\ \A r \in Requests : r.data

VARIABLES
    baseUrl, baseUrlLen,  \* account whose URL base_url points to; is it allocated?
    client, token,        \* accounts that gave client_key, _secret; token_key, _secret
    method,               \* HMAC, PLAINTEXT or RSA
    rsaKey, rsaKeyLen,    \* the text rsa_key points to; is it allocated?
    signature,            \* what complete_url and parameters were made with
    sent,                 \* the signature of the request that was prepared last
    account, chosen,      \* history: what the last init and the last method asked for;
                          \* NoAccount or NoMethod if they were not in order
    asked                 \* history: the two, when the last command was issued

credentials == <<baseUrl, baseUrlLen, client, token, method, rsaKey, rsaKeyLen>>
history     == <<account, chosen>>
oauthVars   == <<credentials, history, signature, sent, asked>>

NoAccount == [url |-> None, client |-> None, token |-> None]
NoMethod  == [method |-> None, key |-> None]

Wished(acc, how) == [url |-> acc.url, client |-> acc.client, token |-> acc.token,
                     method |-> how.method, key |-> how.key]

OAuthInit ==
    /\ Init
    /\ baseUrl = None /\ baseUrlLen = FALSE /\ client = None /\ token = None
    /\ method = "HMAC" /\ rsaKey = <<>> /\ rsaKeyLen = FALSE
    /\ account = NoAccount /\ chosen = [method |-> "HMAC", key |-> None]
    /\ signature = Wished(account, chosen)
    /\ sent = signature /\ asked = signature

--------------------------------------------------------------------------------
(* Accounts                                                                    *)

(* oauth_set_init without an argument, or with a number of them that is wrong: *)
(* ctw_free (Reinit) has freed the base URL by then; keys and tokens stay      *)
InitNothing ==
    /\ "wrong" \in Inits /\ Reinit
    /\ baseUrlLen' = FALSE
    /\ account' = NoAccount
    /\ UNCHANGED <<baseUrl, client, token, method, rsaKey, rsaKeyLen, chosen, signature, sent, asked>>

BugInitFreesKey(a, tokens) ==
    /\ (IF tokens THEN "token" ELSE "client") \in Inits /\ Reinit
    /\ baseUrl' = a /\ baseUrlLen' = TRUE /\ client' = a
    /\ token' = IF tokens THEN a ELSE token
    /\ account' = [url |-> a, client |-> a, token |-> IF tokens THEN a ELSE None]
    /\ rsaKeyLen' = FALSE
    /\ UNCHANGED <<method, rsaKey, chosen, signature, sent, asked>>

(* with three arguments, or with five: the last two are the tokens             *)
InitAccount(a, tokens) ==
    /\ (IF tokens THEN "token" ELSE "client") \in Inits /\ Reinit
    /\ baseUrl' = a /\ baseUrlLen' = TRUE /\ client' = a
    /\ token' = IF tokens THEN a ELSE token
    /\ account' = [url |-> a, client |-> a, token |-> IF tokens THEN a ELSE None]
    /\ UNCHANGED <<method, rsaKey, rsaKeyLen, chosen, signature, sent, asked>>

--------------------------------------------------------------------------------
(* The signing method                                                          *)

BugKeySpaces(words) ==
    LET Separated(text, i) ==
            text \o <<words[i]>> \o (IF i < Len(words) THEN <<" ">> ELSE <<>>)
    IN  FoldLeftDomain(Separated, <<>>, words)

(* oauth_set_rsa_key: the words are put together with spaces; after a word     *)
(* that ends with -----, and until one that begins so, with newlines           *)
KeyText(words) ==
    LET Append1(before, i) ==
            LET w == words[i]
                text == IF w \in Opening /\ before.text # <<>>
                        THEN Front(before.text) \o <<"\n">> ELSE before.text
                newline == w \in Closing \/ (before.newline /\ (w \notin Opening \/ before.text = <<>>))
            IN  [text |-> text \o <<w>> \o
                     (IF i = Len(words) THEN <<>> ELSE IF newline THEN <<"\n">> ELSE <<" ">>),
                 newline |-> newline]
    IN  FoldLeftDomain(Append1, [text |-> <<>>, newline |-> FALSE], words).text

MayChange == MayHandle /\ Unlocked /\ UNCHANGED <<vars, baseUrl, baseUrlLen, client, token,
                                                  account, signature, sent, asked>>

(* oauth_method frees the key before it looks at its arguments                 *)
Method(m) ==
    /\ m \in Methods \cap {"HMAC", "PLAINTEXT"} /\ MayChange
    /\ method' = m /\ rsaKeyLen' = FALSE
    /\ chosen' = [method |-> m, key |-> None]
    /\ UNCHANGED rsaKey

MethodRSA(words) ==
    /\ "RSA" \in Methods /\ MayChange
    /\ method' = "RSA" /\ rsaKey' = KeyText(words) /\ rsaKeyLen' = TRUE
    /\ chosen' = [method |-> "RSA", key |-> words]

(* no argument, no symbol, an unknown name, RSA without a key                  *)
MethodFails ==
    /\ "invalid" \in Methods /\ MayChange
    /\ rsaKeyLen' = FALSE
    /\ chosen' = NoMethod
    /\ UNCHANGED <<method, rsaKey>>

--------------------------------------------------------------------------------
(* Requests                                                                    *)

Pointed(p, len) == IF p = None \/ len THEN p ELSE Freed

(* the arguments of oauth_sign_url2                                            *)
Signature ==
    [url    |-> Pointed(baseUrl, baseUrlLen),
     client |-> client,
     token  |-> token,
     method |-> method,
     key    |-> IF method # "RSA" THEN None ELSE IF rsaKeyLen THEN rsaKey ELSE Freed]

(* oauth_command: refused without base URL; the signed texts, complete_url and *)
(* parameters, are written for every request                                   *)
OAuthCommand(w, r) ==
    /\ baseUrl # None
    /\ Command(w, r)
    /\ signature' = Signature
    /\ asked' = Wished(account, chosen)
    /\ UNCHANGED <<credentials, history, sent>>

OAuthCommandFails(w, r) == baseUrl # None /\ CommandFails(w, r) /\ UNCHANGED oauthVars

(* ctw_prepare takes complete_url, which comes and goes with parameters        *)
OAuthPrepare(w) ==
    /\ Prepare(w)
    /\ sent' = IF parametersLen THEN signature ELSE [signature EXCEPT !.url = Freed]
    /\ UNCHANGED <<credentials, history, signature, asked>>

(* oauth_free                                                                  *)
OAuthFrees ==
    /\ DeleteFrees
    /\ baseUrlLen' = FALSE /\ rsaKeyLen' = FALSE
    /\ UNCHANGED <<baseUrl, client, token, method, rsaKey, history, signature, sent, asked>>

(* what the machinery does with every request                                  *)
OAuthMachinery(w) ==
    /\ pc[w] # "prepare"
    /\ Libcurl(w) \/ TimesOut(w) \/ Locking(w) \/ Running(w) \/ Returning(w) \/ Exiting(w)
    /\ UNCHANGED oauthVars

OAuthHandler ==
    \/ \E w \in Workers, r \in Requests : OAuthCommand(w, r) \/ OAuthCommandFails(w, r)
    \/ InitNothing
    \/ \E a \in Accounts, tokens \in BOOLEAN : InitAccount(a, tokens)
    \/ \E m \in Methods : Method(m)
    \/ \E words \in Keys : MethodRSA(words)
    \/ MethodFails
    \/ Message /\ UNCHANGED oauthVars
    \/ OAuthFrees

OAuthNext ==
    \/ OAuthHandler
    \/ \E w \in Workers : OAuthPrepare(w) \/ OAuthMachinery(w)
    \/ Idle /\ UNCHANGED oauthVars

OAuthSpec == OAuthInit /\ [][OAuthNext]_<<vars, oauthVars>>
=============================================================================
