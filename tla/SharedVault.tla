---------------------------- MODULE SharedVault -----------------------------
(***************************************************************************)
(* One vault opened from several browsers: Accounts, which answers logins  *)
(* with the KDF salt, together with what the pages make of the answers     *)
(* (crypto.js, called by app.js and vault.js).  Every page derives its key *)
(* alone, from the password it was given and the salt it was sent; nothing *)
(* but the salt makes two pages of one account agree, and two accounts     *)
(* differ.                                                                 *)
(*                                                                         *)
(* A save encrypts with the key of the page it was typed into, waits for   *)
(* WebCrypto, and only then takes the token from the tab's sessionStorage; *)
(* the server files the field under the user of that token.  A sign-out,   *)
(* another login in the tab, or the late answer of a refresh (which stores *)
(* the tokens of an earlier login) may come in between.                    *)
(*                                                                         *)
(* PBKDF2 and AES-GCM are taken as perfect: different inputs derive        *)
(* different keys, and decryption fails under any other key or IV.  A      *)
(* session of a page is named by the login request that began it.          *)
(***************************************************************************)
EXTENDS Accounts, FiniteSets

CONSTANTS
  Tabs,      \* the browser tabs, each with its own sessionStorage
  Texts,     \* what users type into a field
  NoText,    \* the empty field
  IVs,       \* the initialization vectors
  Failed,    \* decryption throws
  MaxRows,   \* bound: fields stored at a time
  MaxSaves   \* bound: saves under way at a time

ASSUME TextsAssumption == Failed \notin Texts \cup {NoText}
ASSUME BoundsAssumption == MaxRows \in Nat /\ MaxSaves \in Nat
ASSUME TabsAssumption == None \notin Tabs

VARIABLES
  tokens, \* tab -> the login whose tokens its sessionStorage holds, or None
  tab,    \* request -> the tab that its answer logged in, or None
  keys,   \* request -> the key its session has derived, or None
  over,   \* the sessions that have ended
  saves,  \* encrypted and not yet sent
  rows    \* the stored fields: owner, blob, and (history) what was typed by
          \* whom

vaultVars == <<tokens, tab, keys, over, saves, rows>>

\* Mutant: the salt is not used.
DeriveKeyNoSalt(password, saltOf) == [password |-> password]

\* deriveKey.
DeriveKey(password, saltOf) == [password |-> password, salt |-> saltOf]

\* A stored field: nothing, or an IV and what AES-GCM made of the text.
Sealed(text, key, iv) == [text |-> text, key |-> key, iv |-> iv]

\* encrypt: the IV in front of ciphertext and tag; '' stays ''.
Encrypt(text, key, iv) ==
  IF text = NoText THEN <<>> ELSE <<iv, Sealed(text, key, iv)>>

\* decrypt: the first part of the blob opens the rest, or the call throws.
Decrypt(blob, key) ==
  IF blob = <<>> THEN NoText
  ELSE IF blob[2].iv = blob[1] /\ blob[2].key = key THEN blob[2].text
  ELSE Failed

VaultInit ==
  /\ Init
  /\ tokens = [t \in Tabs |-> None]
  /\ tab = [r \in Requests |-> None]
  /\ keys = [r \in Requests |-> None]
  /\ over = {}
  /\ saves = {}
  /\ rows = {}

Open(r) == keys[r] # None /\ r \notin over

\* The session shown in a tab, or about to be.
Current(r, t) == tab[r] = t /\ r \notin over

\* The user that the server finds in the token of a session's tab.
Bearer(r) == tokens[tab[r]]

\* login: the answer has come, to a tab that shows the login form.
StoreTokens(r, t) ==
  /\ pc[r] = "answered"
  /\ req[r].op = "login"
  /\ Granted(r)
  /\ tab[r] = None
  /\ \A s \in Requests : ~Current(s, t)
  /\ tokens' = [tokens EXCEPT ![t] = r]
  /\ tab' = [tab EXCEPT ![r] = t]
  /\ UNCHANGED <<vars, keys, over, saves, rows>>

\* performLogin, once deriveKey has returned.
OpenVault(r) ==
  /\ tab[r] # None /\ keys[r] = None /\ r \notin over
  /\ keys' = [keys EXCEPT ![r] = DeriveKey(req[r].password, salt[r])]
  /\ UNCHANGED <<vars, tokens, tab, over, saves, rows>>

\* deriveKey throws: the form stays, and so do the tokens.
DerivationFails(r) ==
  /\ tab[r] # None /\ keys[r] = None /\ r \notin over
  /\ over' = over \cup {r}
  /\ UNCHANGED <<vars, tokens, tab, keys, saves, rows>>

\* performLogout.
SignOut(r) ==
  /\ Open(r)
  /\ over' = over \cup {r}
  /\ tokens' = [tokens EXCEPT ![tab[r]] = None]
  /\ UNCHANGED <<vars, tab, keys, saves, rows>>

\* tryRefresh: an answer stores the new tokens, whoever is in the tab now.
Refreshed(r) ==
  /\ keys[r] # None
  /\ tokens' = [tokens EXCEPT ![tab[r]] = r]
  /\ UNCHANGED <<vars, tab, keys, over, saves, rows>>

\* saveEntry up to the awaits of encrypt.
Encrypted(r, text, iv) ==
  /\ Open(r)
  /\ Cardinality(saves) < MaxSaves
  /\ saves' = saves \cup
       {[page |-> r, text |-> text, blob |-> Encrypt(text, keys[r], iv)]}
  /\ UNCHANGED <<vars, tokens, tab, keys, over, rows>>

\* The field that the server stores for a save: the owner is in the token.
Stored(save) ==
  [owner |-> Email(Bearer(save.page)), by |-> Email(save.page),
   text |-> save.text, blob |-> save.blob]

\* The rest of saveEntry, for a new entry.
Create(save) ==
  /\ Bearer(save.page) # None
  /\ Cardinality(rows) < MaxRows
  /\ rows' = rows \cup {Stored(save)}
  /\ saves' = saves \ {save}
  /\ UNCHANGED <<vars, tokens, tab, keys, over>>

\* For an entry of the token's user, also one another page has stored.
Update(save, row) ==
  /\ Bearer(save.page) # None
  /\ row.owner = Email(Bearer(save.page))
  /\ rows' = (rows \ {row}) \cup {Stored(save)}
  /\ saves' = saves \ {save}
  /\ UNCHANGED <<vars, tokens, tab, keys, over>>

\* Without a token, for an entry that is not the user's, or on its way.
Lost(save) ==
  /\ saves' = saves \ {save}
  /\ UNCHANGED <<vars, tokens, tab, keys, over, rows>>

Delete(r, row) ==
  /\ Open(r)
  /\ Bearer(r) # None
  /\ row.owner = Email(Bearer(r))
  /\ rows' = rows \ {row}
  /\ UNCHANGED <<vars, tokens, tab, keys, over, saves>>

PageStep ==
  \/ \E r \in Requests :
       \/ \E t \in Tabs : StoreTokens(r, t)
       \/ OpenVault(r) \/ DerivationFails(r) \/ SignOut(r) \/ Refreshed(r)
       \/ \E text \in Texts, iv \in IVs : Encrypted(r, text, iv)
       \/ \E row \in rows : Delete(r, row)
  \/ \E save \in saves :
       \/ Create(save) \/ Lost(save)
       \/ \E row \in rows : Update(save, row)

VaultNext ==
  \/ Next /\ UNCHANGED vaultVars
  \/ PageStep

VaultSpec == VaultInit /\ [][VaultNext]_<<vars, vaultVars>>

(***************************************************************************)
(* Properties                                                              *)
(***************************************************************************)

Key == [password : Passwords, salt : Requests]

\* The types of the tabs, of the sessions and of what they save and store.
VaultTypeOK ==
  /\ TypeOK
  /\ tokens \in [Tabs -> Requests \cup {None}]
  /\ tab \in [Requests -> Tabs \cup {None}]
  /\ keys \in [Requests -> Key \cup {None}]
  /\ over \subseteq Requests
  /\ \A save \in saves :
       save.page \in Requests /\ tab[save.page] \in Tabs
  /\ \A row \in rows :
       row.owner \in Emails /\ row.by \in Emails /\ row.text \in Texts
       /\ (row.blob = <<>> \/ row.blob[1] \in IVs)

\* Every page of an account reads what any page of it has typed, whichever
\* registration won the race for the email, however many logins there were,
\* whenever the server crashed, and under whichever token a late save was
\* sent.  As long as no session has ended, a page also reads every field
\* that is filed under its account; afterwards it need not, for a save may
\* have outlived its session.
ReadableEverywhere ==
  \A r \in Requests, row \in rows :
    Open(r) /\ (row.by = Email(r) \/ (row.owner = Email(r) /\ over = {})) =>
      Decrypt(row.blob, keys[r]) = row.text

\* No page of another account than the one it was typed in can read a field,
\* also one with the same password, and also when the field is filed under
\* that other account.
UnreadableElsewhere ==
  \A r \in Requests, row \in rows :
    Open(r) /\ row.by # Email(r) /\ row.text # NoText =>
      Decrypt(row.blob, keys[r]) = Failed

=============================================================================
