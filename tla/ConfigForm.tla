------------------------------ MODULE ConfigForm ------------------------------
(***************************************************************************)
(* The pages that change the configuration and the requests they make: the *)
(* token that any page asks for and all share, settings.json, config.cgi   *)
(* field by field, pass.cgi and reset.cgi.  httpd serves one request at a  *)
(* time (ConfigStore has what happens within one, and what flash holds).   *)
(*                                                                         *)
(* devname stands for the names that may not be empty (devname, ntp1,      *)
(* ntp2, ntp3), ip for the addresses (the page checks all but netmask),    *)
(* mqtt_password for the text that settings.json does not show; yes and    *)
(* no, the time zone and the other texts of MQTT are left out.  Who sends  *)
(* a request knows the password.                                           *)
(*                                                                         *)
(* stale and blank are history variables; no guard looks at them.          *)
(***************************************************************************)
EXTENDS Integers, IpAddress

CONSTANTS
  Pages,             \* open in the browsers
  Tokens, NoToken,   \* what token_get_handler draws; "" of a board or a page
                     \* that has none
  Texts, Stub, Empty,   \* usual names and passwords; one of them, that a
                        \* longer one begins with; ""
  Spaced, Long, Ampersand,   \* a text with a space; one of more than 32 and
                             \* less than 64 characters; one with & after Stub
  LongMax,           \* of strtol (2^31 - 1 in the code)
  TypedNames, TypedAddresses, TypedPorts,   \* what people type
  DefaultName, DefaultAddr, DefaultPort, DefaultPassword,
  NoForm,
  MaxChanges         \* bound: how often the configuration is stored or lost

ASSUME ConstantsAssumption ==
  /\ NoToken \notin Tokens
  /\ Stub \in Texts /\ DefaultName \in Texts /\ DefaultPassword \in Texts
  /\ {Empty, Spaced, Long, Ampersand} \cap Texts = {}
  /\ Empty \notin {Spaced, Long, Ampersand}
  /\ TypedNames \subseteq Texts \cup {Empty, Spaced, Long, Ampersand}
  /\ TypedAddresses \subseteq Seq(Seq(Nat)) \ {<<>>}
  /\ TypedPorts \subseteq Int
  /\ DefaultAddr \in [1 .. 4 -> 0 .. 255]
  /\ LongMax \in Nat
  /\ DefaultPort \in 1 .. LongMax
  /\ MaxChanges \in Nat

Fields == {"devname", "ip", "mqtt_port", "mqtt_password"}

DefaultConfig ==   \* config_load_defaults
  [devname |-> DefaultName, ip |-> DefaultAddr, mqtt_port |-> DefaultPort,
   mqtt_password |-> Empty, password |-> DefaultPassword]

ZeroConfig ==   \* static config_t config, when nothing was loaded
  [devname |-> Empty, ip |-> <<0, 0, 0, 0>>, mqtt_port |-> 0,
   mqtt_password |-> Empty, password |-> Empty]

VARIABLES
  config, configToken,
  token,       \* of each page, NoToken until it arrives
  form,        \* the inputs of each page, NoForm until settings.json arrives
  tokenFirst,  \* the token of the page arrived before its settings
  changes,     \* how often the configuration was stored or lost
  stale,       \* the fields changed since the page was given its settings
  blank        \* the board runs on ZeroConfig with what forms added to it

board == <<config, configToken, changes, blank>>
pages == <<token, form, tokenFirst>>
vars == <<board, pages, stale>>

Init ==
  /\ config = DefaultConfig
  /\ configToken = NoToken
  /\ token = [p \in Pages |-> NoToken]
  /\ form = [p \in Pages |-> NoForm]
  /\ tokenFirst = [p \in Pages |-> FALSE]
  /\ changes = 0
  /\ stale = [p \in Pages |-> FALSE]
  /\ blank = FALSE

-----------------------------------------------------------------------------
(* What a form shows, and how its fields are read *)

\* constructSettingsJSON, shown by getConfig.
Settings(c) ==
  [devname |-> c.devname, ip |-> AsText(c.ip), mqtt_port |-> c.mqtt_port,
   mqtt_password |-> Empty]

\* Nothing is escaped: what follows an & is another field.
Seen(text) == IF text = Ampersand THEN Stub ELSE text

\* strtol returns the nearest long, which becomes a uint32_t.
Port(n) ==
  (CASE n > LongMax -> LongMax [] n < -(LongMax + 1) -> -(LongMax + 1) [] OTHER -> n)
    % (2 * (LongMax + 1))

Valid(f, text, behind) ==
  CASE f = "devname" -> Seen(text) \notin {Empty, Long, Spaced}
    [] f = "ip" -> is_valid_ip_address(text, behind)
    [] f = "mqtt_port" -> Port(text) # 0
    [] OTHER -> Seen(text) # Spaced

\* Faulty variant: a port is stored as it was typed.
ValueRaw(f, text) ==
  CASE f = "ip" -> ipaddr_addr(text)
    [] f = "mqtt_port" -> text
    [] OTHER -> Seen(text)

Value(f, text) ==
  CASE f = "ip" -> ipaddr_addr(text)
    [] f = "mqtt_port" -> Port(text)
    [] OTHER -> Seen(text)

\* The first field that is not valid ends the handler before anything is
\* stored.
Accepted(body, behind) == \A f \in DOMAIN body : Valid(f, body[f], behind)

\* Faulty variant: a field that is missing is cleared.
NewConfigCleared(body) ==
  [f \in DOMAIN config |->
     IF f \in DOMAIN body THEN Value(f, body[f])
     ELSE IF f \in Fields THEN ZeroConfig[f] ELSE config[f]]

NewConfig(body) ==
  [f \in DOMAIN config |-> IF f \in DOMAIN body THEN Value(f, body[f]) ELSE config[f]]

\* What may be left of the field that a body ends in.
Cut(f, text) ==
  CASE f = "ip" -> IF Last(text) = <<>> THEN {} ELSE {Append(Front(text), Front(Last(text)))}
    [] f = "mqtt_port" -> {IF text < 0 THEN -((-text) \div 10) ELSE text \div 10}
    [] OTHER -> {Empty, Stub}

Order == <<"devname", "ip", "mqtt_port", "mqtt_password">>
FirstFields(n) == {Order[k] : k \in 1 .. n}

\* httpd_req_recv returns what has arrived, and is called once: maybe some
\* fields only, maybe a part of the next.
Bodies(sent) ==
  {sent}
    \cup {[f \in FirstFields(n) |-> sent[f]] : n \in 0 .. 3}
    \cup UNION {{[f \in FirstFields(n) |-> IF f = Order[n] THEN part ELSE sent[f]] :
                   part \in Cut(Order[n], sent[Order[n]])} : n \in 1 .. 4}

\* The inputs of a page, one of them typed over.
TypedOver(p, f, texts) == {[form[p] EXCEPT ![f] = text] : text \in texts}

\* What a person saves: the inputs, one of them maybe typed over; of a board
\* without a configuration the two that the page and the board insist on.
Filled(p) ==
  IF form[p].devname = Empty
    THEN UNION {{[form[p] EXCEPT !.devname = text, !.mqtt_port = n] :
                   text \in TypedNames} : n \in TypedPorts}
    ELSE {form[p]} \cup TypedOver(p, "devname", TypedNames)
           \cup TypedOver(p, "ip", TypedAddresses)
           \cup TypedOver(p, "mqtt_port", TypedPorts)
           \cup TypedOver(p, "mqtt_password", TypedNames)

-----------------------------------------------------------------------------
(* Pages *)

\* A page is loaded, or loaded again.
Open(p) ==
  /\ token' = [token EXCEPT ![p] = NoToken]
  /\ form' = [form EXCEPT ![p] = NoForm]
  /\ tokenFirst' = [tokenFirst EXCEPT ![p] = FALSE]
  /\ stale' = [stale EXCEPT ![p] = FALSE]
  /\ UNCHANGED board

\* Faulty variant: the token that is there is handed out.
ServeTokenAgain(p) ==
  /\ token[p] = NoToken
  /\ configToken' \in IF configToken # NoToken THEN {configToken} ELSE Tokens
  /\ token' = [token EXCEPT ![p] = configToken']
  /\ UNCHANGED <<config, changes, blank, form, tokenFirst, stale>>

\* token_get_handler, for any page; no token is drawn twice.
ServeToken(p) ==
  /\ token[p] = NoToken
  /\ configToken' \in Tokens \ ({configToken} \cup {token[q] : q \in Pages})
  /\ token' = [token EXCEPT ![p] = configToken']
  /\ UNCHANGED <<config, changes, blank, form, tokenFirst, stale>>

\* settings_json_get_handler, getConfig.  The page asks for its token and its
\* settings at once.
ServeSettings(p) ==
  /\ form[p] = NoForm
  /\ form' = [form EXCEPT ![p] = Settings(config)]
  /\ tokenFirst' = [tokenFirst EXCEPT ![p] = token[p] # NoToken]
  /\ UNCHANGED <<board, token, stale>>

-----------------------------------------------------------------------------
(* Requests *)

is_valid_token(p) == token[p] = configToken

\* The configuration becomes c at the wish of page p: what the others show is
\* not what it is now.
Change(p, c) ==
  /\ config' = c
  /\ changes < MaxChanges /\ changes' = changes + 1
  /\ stale' = [q \in Pages |->
                 /\ q # p /\ form[q] # NoForm
                 /\ stale[q] \/ \E f \in Fields : c[f] # config[f]]

\* config_cgi_post_handler; a request that is refused changes nothing.  The
\* inputs of the page stay as they were typed.
Post(p, sent, body, behind) ==
  /\ Accepted(body, behind)
  /\ Change(p, NewConfig(body))
  /\ form' = [form EXCEPT ![p] = sent]
  /\ UNCHANGED <<configToken, blank, token, tokenFirst>>

MayPost(p) == form[p] # NoForm /\ is_valid_token(p) /\ changes < MaxChanges

PostSome(p) ==
  /\ MayPost(p)
  /\ \E sent \in Filled(p), behind \in BOOLEAN :
       \E body \in Bodies(sent) : Post(p, sent, body, behind)

\* What is too long for param is taken for absent.
Fits(text) == text # Long

\* is_password_valid
is_password_valid(text) == text # Empty

\* pass_cgi_post_handler
PassPost(p) ==
  /\ is_valid_token(p)
  /\ \E old, new \in Texts \cup {Long, Empty} :
       /\ Fits(old) /\ old # Empty /\ old = config.password
       /\ Fits(new) /\ is_password_valid(new)
       /\ Change(p, [config EXCEPT !.password = new])
  /\ UNCHANGED <<configToken, blank, pages>>

\* reset_cgi_get_handler with hardreset=yes; the restart it asks for is
\* Restart.
HardReset(p) ==
  /\ is_valid_token(p)
  /\ Change(p, DefaultConfig)
  /\ blank' = FALSE
  /\ UNCHANGED <<configToken, pages>>

\* The board restarts; the configuration it saved may be lost (ConfigStore).
\* The pages stay open.
Restart ==
  /\ configToken' = NoToken
  /\ \E kept \in BOOLEAN :
       /\ config' = IF kept THEN config ELSE ZeroConfig
       /\ blank' = (~kept \/ blank)
  /\ changes' = IF config' = config THEN changes ELSE changes + 1
  /\ changes' <= MaxChanges
  /\ stale' = [p \in Pages |-> form[p] # NoForm /\ (stale[p] \/ config' # config)]
  /\ UNCHANGED pages

Next ==
  \/ Restart
  \/ \E p \in Pages : \/ Open(p) \/ ServeToken(p) \/ ServeSettings(p)
                      \/ PostSome(p) \/ PassPost(p) \/ HardReset(p)

Spec == Init /\ [][Next]_vars

-----------------------------------------------------------------------------
(* Properties *)

\* config_t, as far as it is modelled.
Configs ==
  [devname : Texts \cup {Empty},
   ip : [1 .. 4 -> 0 .. 255],
   mqtt_port : 0 .. 2 * LongMax + 1,
   mqtt_password : Texts \cup {Empty, Long},
   password : Texts \cup {Empty}]

\* What the inputs of a page may hold.
Names == Texts \cup {Empty, Spaced, Long, Ampersand}
AddressTexts == Seq(Seq(Nat)) \ {<<>>}
Inputs == [devname : Names, ip : AddressTexts, mqtt_port : Int, mqtt_password : Names]

\* Every variable has its type: an address is four bytes, a port fits into a
\* uint32_t, a name has no space and is not longer than its field.
TypeOK ==
  /\ config \in Configs
  /\ configToken \in Tokens \cup {NoToken}
  /\ token \in [Pages -> Tokens \cup {NoToken}]
  /\ \A p \in Pages : form[p] # NoForm => form[p] \in Inputs
  /\ tokenFirst \in [Pages -> BOOLEAN] /\ stale \in [Pages -> BOOLEAN]
  /\ changes \in 0 .. MaxChanges
  /\ blank \in BOOLEAN

\* What people mean by what they typed.
Means(f, text, value) ==
  CASE f = "ip" -> IsAddress(text) /\ value = Meaning(text)
    [] OTHER -> value = text

\* Texts nobody would object to.
Usual(sent) ==
  /\ sent.devname \in Texts
  /\ IsAddress(sent.ip) /\ \A k \in 1 .. 4 : ~Octal(sent.ip[k])
  /\ sent.mqtt_port \in 1 .. LongMax
  /\ sent.mqtt_password \in Texts \cup {Empty}

\* A form that arrives whole and holds usual texts is stored as it was meant,
\* field by field.  It is never refused, unless an address fills its buffer
\* (is_valid_ip_address, whose strncpy does not end the text then).
WholeFormIsTaken ==
  \A p \in Pages : form[p] # NoForm =>
    \A sent \in Filled(p), behind \in BOOLEAN : Usual(sent) =>
      /\ Length(sent.ip) < 15 => Accepted(sent, behind)
      /\ Accepted(sent, behind) =>
           \A f \in Fields : Means(f, sent[f], NewConfig(sent)[f])

\* Saving settings that nobody touched is accepted and changes only
\* mqtt_password, which settings.json does not show: whatever was stored
\* comes back from the page.  (Not a name that is empty, an address that fills
\* its buffer, a port strtol cannot read.)
UntouchedSaveKeeps ==
  (/\ config.devname # Empty
   /\ \E k \in 1 .. 4 : config.ip[k] < 100
   /\ config.mqtt_port \in 1 .. LongMax) =>
     /\ Accepted(Settings(config), FALSE)
     /\ NewConfig(Settings(config)) = [config EXCEPT !.mqtt_password = Empty]

\* A page that was given its token before its settings, and whose token is
\* still the board's, shows the fields as they are: what it saves undoes
\* nobody's change.  (config.html asks for both at once, and httpd may serve
\* the settings first.)
NoLostUpdate ==
  \A p \in Pages : tokenFirst[p] /\ is_valid_token(p) => ~stale[p]

\* Whatever arrives of whatever forms: a board that was not left without a
\* configuration keeps a name, a port, and a password that can be typed into
\* pass.cgi to change it.
BoardStaysUsable ==
  ~blank => /\ config.devname # Empty
            /\ config.mqtt_port # 0
            /\ config.password # Empty /\ Fits(config.password)

\* config.html:214-217 tells that the configuration was updated: the answer
\* ok to a form that arrived whole means that the board has what was typed.
OkMeansTaken ==
  [][\A p \in Pages : MayPost(p) =>
       \A sent \in Filled(p), behind \in BOOLEAN :
         Post(p, sent, sent, behind) =>
           \A f \in Fields : Means(f, sent[f], config'[f])]_vars
=============================================================================
