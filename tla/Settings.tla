-------------------------------- MODULE Settings --------------------------------
(***************************************************************************)
(* The settings page of the web client: the profile with name, password    *)
(* and timezone, the subscription, the Telegram configuration and the      *)
(* consent to text messages, each with its requests; and the user the      *)
(* session has loaded (currentUser$), which the page shows the profile of. *)
(*                                                                         *)
(* A password is its state of completion, a phone number whether its       *)
(* format is right.  What the subscription says is left out.               *)
(***************************************************************************)
EXTENDS Naturals, FiniteSets

CONSTANTS
  Names, Timezones, Chats, Phones,  \* what the user types and picks
  MaxSettingsMoves                  \* bound on the user's moves and on failures

ASSUME SettingsAssumption ==
  /\ "none" \notin Names \cup Timezones \cup Chats \cup Phones \cup {"bad"}
  /\ "bad" \notin Phones /\ Names # {} /\ Timezones # {} /\ MaxSettingsMoves \in Nat

VARIABLES
  account,        \* what the server stores
  user,           \* currentUser$
  settingsPage,       \* the page
  settingsCalls,  \* the requests in flight
  settingsMoves,
  \* history
  zonePicked,     \* the user has chosen a timezone since the page showed one
  settingUnheard  \* a change was made whose answer was lost or came to a page that had been
                  \* left, or the consent could not be loaded

settingsHistory == <<zonePicked, settingUnheard>>
settingsVars == <<account, user, settingsPage, settingsCalls, settingsMoves, settingsHistory>>

Sections == {"profile", "subscription", "notifications"}
NameOrNone == Names \cup {"none"}
ChatOrNone == Chats \cup {"none"}
PhoneOrNone == Phones \cup {"none"}

Accounts == [name : NameOrNone, timezone : Timezones, chat : ChatOrNone, phone : PhoneOrNone]
User(a) == [known |-> TRUE, name |-> a.name, timezone |-> a.timezone]
DefaultTimezone == CHOOSE z \in Timezones : TRUE
NoUser == [known |-> FALSE, name |-> "none", timezone |-> DefaultTimezone]

Loads == {"subscription", "telegram", "sms", "timezones"}
SettingChanges == {"name", "password", "timezone", "saveTelegram", "deleteTelegram", "consent",
                   "revoke"}
\* Requests whose answer is the same whenever the server works on them.
Plain == {"subscription", "timezones", "password", "test"}
SettingKinds == Loads \cup SettingChanges \cup {"user", "me", "test"}

\* A request; mine while the page that sent it is open, with the account as the server saw it.
SettingCallSet ==
  [kind : SettingKinds, value : {"none"} \cup Names \cup Timezones \cup Chats \cup Phones,
   mine : BOOLEAN, answer : {"none", "ok", "error"}, seen : Accounts]

SettingsPageSet ==
  [section : Sections,
   user : [known : BOOLEAN, name : NameOrNone, timezone : Timezones],
   editingName : BOOLEAN, editNameValue : NameOrNone, isSavingName : BOOLEAN,
   showPasswordChange : BOOLEAN, newPassword : {"none", "short", "valid"},
   isSavingPassword : BOOLEAN,
   subscription : BOOLEAN, isLoadingSubscription : BOOLEAN,
   timezones : {"none", "all", "fallback"}, selectedTimezone : Timezones,
   isSavingTimezone : BOOLEAN,
   telegramConfig : ChatOrNone, isLoading : BOOLEAN, botToken : BOOLEAN, chatId : ChatOrNone,
   showTokenInput : BOOLEAN, isTesting : BOOLEAN, isSaving : BOOLEAN, isDeleting : BOOLEAN,
   smsConsent : PhoneOrNone, isLoadingSms : BOOLEAN, smsPhone : PhoneOrNone \cup {"bad"},
   smsConsentChecked : BOOLEAN, isSavingSms : BOOLEAN]

\* ngOnInit: the subject tells its user at once.
FreshSettings(u) ==
  [section |-> "profile", user |-> u,
   editingName |-> FALSE, editNameValue |-> u.name, isSavingName |-> FALSE,
   showPasswordChange |-> FALSE, newPassword |-> "none", isSavingPassword |-> FALSE,
   subscription |-> FALSE, isLoadingSubscription |-> TRUE,
   timezones |-> "none", selectedTimezone |-> u.timezone, isSavingTimezone |-> FALSE,
   telegramConfig |-> "none", isLoading |-> TRUE, botToken |-> FALSE, chatId |-> "none",
   showTokenInput |-> FALSE, isTesting |-> FALSE, isSaving |-> FALSE, isDeleting |-> FALSE,
   smsConsent |-> "none", isLoadingSms |-> TRUE, smsPhone |-> "none",
   smsConsentChecked |-> FALSE, isSavingSms |-> FALSE]

Setting(kind, value) ==
  [kind |-> kind, value |-> value, mine |-> TRUE, answer |-> "none", seen |-> account]
OpeningCalls == {Setting(kind, "none") : kind \in Loads}

SettingsMove ==
  /\ settingsMoves < MaxSettingsMoves /\ settingsMoves' = settingsMoves + 1
  /\ UNCHANGED <<account, user, settingUnheard>>

\* A move in a section: the page becomes s, and requests are sent.
MoveIn(section, s, sent) ==
  /\ SettingsMove /\ settingsPage.section = section
  /\ settingsPage' = s /\ settingsCalls' = settingsCalls \cup sent
  /\ UNCHANGED zonePicked

-------------------------------------------------------------------------------
(* The profile                                                             *)

StartEditName ==
  /\ ~settingsPage.editingName
  /\ MoveIn("profile", [settingsPage EXCEPT !.editingName = TRUE, !.editNameValue = settingsPage.user.name], {})

CancelEditName ==
  /\ settingsPage.editingName
  /\ MoveIn("profile", [settingsPage EXCEPT !.editingName = FALSE, !.editNameValue = settingsPage.user.name], {})

TypeName(n) ==
  /\ settingsPage.editingName
  /\ MoveIn("profile", [settingsPage EXCEPT !.editNameValue = n], {})

SaveName ==
  /\ settingsPage.editingName /\ ~settingsPage.isSavingName /\ settingsPage.editNameValue # "none"
  /\ MoveIn("profile", [settingsPage EXCEPT !.isSavingName = TRUE],
        {Setting("name", settingsPage.editNameValue)})

TogglePasswordChange ==
  MoveIn("profile", [settingsPage EXCEPT !.showPasswordChange = ~@,
                                 !.newPassword = IF settingsPage.showPasswordChange THEN "none" ELSE @], {})

\* A password is valid from eight characters on, when it was repeated.
TypePassword(p) ==
  /\ settingsPage.showPasswordChange
  /\ MoveIn("profile", [settingsPage EXCEPT !.newPassword = p], {})

SavePassword ==
  /\ settingsPage.showPasswordChange /\ settingsPage.newPassword = "valid" /\ ~settingsPage.isSavingPassword
  /\ MoveIn("profile", [settingsPage EXCEPT !.isSavingPassword = TRUE], {Setting("password", "none")})

\* The select offers what loadTimezones brought.
PickTimezone(z) ==
  /\ SettingsMove /\ settingsPage.section = "profile" /\ settingsPage.timezones # "none"
  /\ settingsPage' = [settingsPage EXCEPT !.selectedTimezone = z] /\ zonePicked' = TRUE
  /\ UNCHANGED settingsCalls

SaveTimezone ==
  /\ ~settingsPage.isSavingTimezone
  /\ MoveIn("profile", [settingsPage EXCEPT !.isSavingTimezone = TRUE],
        {Setting("timezone", settingsPage.selectedTimezone)})

-------------------------------------------------------------------------------
(* The notifications                                                       *)

\* The form of the Telegram configuration, whose fields are open while nothing is sent.
TelegramForm == settingsPage.telegramConfig = "none" \/ settingsPage.showTokenInput
TelegramTyping == TelegramForm /\ ~settingsPage.isTesting /\ ~settingsPage.isSaving

ToggleTokenInput ==
  /\ settingsPage.telegramConfig # "none"
  /\ MoveIn("notifications", [settingsPage EXCEPT !.showTokenInput = ~@,
                                          !.botToken = @ /\ ~settingsPage.showTokenInput], {})

TypeTelegram(token, chat) ==
  /\ TelegramTyping
  /\ MoveIn("notifications", [settingsPage EXCEPT !.botToken = token, !.chatId = chat], {})

TestConnection ==
  /\ TelegramTyping /\ settingsPage.botToken /\ settingsPage.chatId # "none"
  /\ MoveIn("notifications", [settingsPage EXCEPT !.isTesting = TRUE], {Setting("test", settingsPage.chatId)})

SaveTelegramConfig ==
  /\ TelegramTyping /\ settingsPage.botToken /\ settingsPage.chatId # "none"
  /\ MoveIn("notifications", [settingsPage EXCEPT !.isSaving = TRUE],
        {Setting("saveTelegram", settingsPage.chatId)})

\* Offered when a configuration is shown and the form is not; the user confirms.
DeleteTelegramConfig ==
  /\ ~TelegramForm /\ ~settingsPage.isDeleting
  /\ MoveIn("notifications", [settingsPage EXCEPT !.isDeleting = TRUE],
        {Setting("deleteTelegram", "none")})

\* Mutant: the form does not wait for the first load.
SmsFormAtOnce == settingsPage.smsConsent = "none"

\* The form of the consent, which the spinner of the first load stands in the place of.
SmsForm == ~settingsPage.isLoadingSms /\ settingsPage.smsConsent = "none"

TypeSms(phone, checked) ==
  /\ SmsForm /\ ~settingsPage.isSavingSms
  /\ MoveIn("notifications", [settingsPage EXCEPT !.smsPhone = phone, !.smsConsentChecked = checked], {})

SaveSmsConsent ==
  /\ SmsForm /\ ~settingsPage.isSavingSms /\ settingsPage.smsPhone \in Phones /\ settingsPage.smsConsentChecked
  /\ MoveIn("notifications", [settingsPage EXCEPT !.isSavingSms = TRUE],
        {Setting("consent", settingsPage.smsPhone)})

RevokeSmsConsent ==
  /\ ~settingsPage.isLoadingSms /\ settingsPage.smsConsent # "none" /\ ~settingsPage.isSavingSms
  /\ MoveIn("notifications", [settingsPage EXCEPT !.isSavingSms = TRUE],
        {Setting("revoke", settingsPage.smsConsent)})

-------------------------------------------------------------------------------
(* The page                                                                *)

SetSection(section) ==
  /\ section # settingsPage.section
  /\ MoveIn(settingsPage.section, [settingsPage EXCEPT !.section = section], {})

\* The user leaves the page and comes back to it: the answers of the old page change nothing
\* any more.
ReopenSettings ==
  /\ SettingsMove
  /\ settingsPage' = FreshSettings(user)
  /\ settingsCalls' = {[c EXCEPT !.mine = FALSE] : c \in {d \in settingsCalls : d.kind # "user"}}
       \cup {c \in settingsCalls : c.kind = "user"} \cup OpeningCalls
  /\ zonePicked' = FALSE

-------------------------------------------------------------------------------
(* The server and the connection                                           *)

SettingEffect(c) ==
  CASE c.kind = "name" -> [account EXCEPT !.name = c.value]
    [] c.kind = "timezone" -> [account EXCEPT !.timezone = c.value]
    [] c.kind = "saveTelegram" -> [account EXCEPT !.chat = c.value]
    [] c.kind = "deleteTelegram" -> [account EXCEPT !.chat = "none"]
    [] c.kind = "consent" -> [account EXCEPT !.phone = c.value]
    [] c.kind = "revoke" -> [account EXCEPT !.phone = "none"]
    [] OTHER -> account

\* A Telegram configuration is tried first, and refused when the message cannot be sent.
ServeSetting(c) ==
  /\ c.answer = "none" /\ c.kind \notin Plain
  /\ \E answer \in {"ok", "error"} :
       /\ answer = "error" => c.kind = "saveTelegram"
       /\ account' = IF answer = "ok" THEN SettingEffect(c) ELSE account
       /\ settingsCalls' =
            (settingsCalls \ {c}) \cup {[c EXCEPT !.answer = answer, !.seen = account']}
  /\ UNCHANGED <<user, settingsPage, settingsMoves, settingsHistory>>

\* The connection breaks before the server has seen the request, or after it.
SettingFails(c) ==
  /\ settingsMoves < MaxSettingsMoves /\ settingsMoves' = settingsMoves + 1
  /\ c.answer \in {"none", "ok"} /\ c.kind \notin Plain
  /\ settingsCalls' = (settingsCalls \ {c}) \cup {[c EXCEPT !.answer = "error", !.seen = account]}
  /\ settingUnheard' =
       (settingUnheard \/ c.kind = "sms" \/ (c.answer = "ok" /\ c.kind \in SettingChanges))
  /\ UNCHANGED <<account, user, settingsPage, zonePicked>>

-------------------------------------------------------------------------------
(* The answers                                                             *)

\* Mutant: the typed name is overwritten.
UserToldAlways(s, u) ==
  [s EXCEPT !.user = u, !.editNameValue = u.name, !.selectedTimezone = u.timezone]

\* The page after the session has told it a user (the subscription to currentUser$).
UserTold(s, u) ==
  [s EXCEPT !.user = u, !.editNameValue = IF s.editingName THEN @ ELSE u.name,
            !.selectedTimezone = u.timezone]

\* What an answer makes of the page that asked; ok says that it is no error.
AfterAnswer(c, ok) ==
  LET s == settingsPage IN
  CASE c.kind = "name" ->
         [s EXCEPT !.isSavingName = FALSE, !.editingName = @ /\ ~ok]
    [] c.kind = "me" -> IF ok THEN [s EXCEPT !.user = User(c.seen)] ELSE s
    [] c.kind = "password" ->
         IF ok THEN [s EXCEPT !.isSavingPassword = FALSE, !.showPasswordChange = FALSE,
                              !.newPassword = "none"]
               ELSE [s EXCEPT !.isSavingPassword = FALSE]
    [] c.kind = "timezone" -> [s EXCEPT !.isSavingTimezone = FALSE]
    [] c.kind = "subscription" ->
         [s EXCEPT !.isLoadingSubscription = FALSE, !.subscription = @ \/ ok]
    [] c.kind = "timezones" -> [s EXCEPT !.timezones = IF ok THEN "all" ELSE "fallback"]
    [] c.kind = "telegram" ->
         IF ok THEN [s EXCEPT !.isLoading = FALSE, !.telegramConfig = c.seen.chat,
                              !.chatId = c.seen.chat]
               ELSE [s EXCEPT !.isLoading = FALSE]
    [] c.kind = "test" -> [s EXCEPT !.isTesting = FALSE]
    [] c.kind = "saveTelegram" ->
         IF ok THEN [s EXCEPT !.isSaving = FALSE, !.telegramConfig = c.seen.chat,
                              !.showTokenInput = FALSE, !.botToken = FALSE]
               ELSE [s EXCEPT !.isSaving = FALSE]
    [] c.kind = "deleteTelegram" ->
         IF ok THEN [s EXCEPT !.isDeleting = FALSE, !.telegramConfig = "none",
                              !.botToken = FALSE, !.chatId = "none", !.showTokenInput = FALSE]
               ELSE [s EXCEPT !.isDeleting = FALSE]
    [] c.kind = "sms" ->
         [s EXCEPT !.isLoadingSms = FALSE, !.smsConsent = IF ok THEN c.seen.phone ELSE @]
    [] c.kind = "consent" ->
         IF ok THEN [s EXCEPT !.isSavingSms = FALSE, !.smsConsent = c.seen.phone,
                              !.smsPhone = "none", !.smsConsentChecked = FALSE]
               ELSE [s EXCEPT !.isSavingSms = FALSE]
    [] c.kind = "revoke" ->
         [s EXCEPT !.isSavingSms = FALSE, !.smsConsent = IF ok THEN c.seen.phone ELSE @]

\* saveName and saveTimezone then ask for the user.  What that brings is shown by the page
\* (the name's), or by nobody (the timezone's): currentUser$ is not told.
SettingAnswered(c) ==
  /\ c.kind # "user" /\ c.answer # "none"
  /\ settingsPage' = IF c.mine THEN AfterAnswer(c, c.answer = "ok") ELSE settingsPage
  /\ settingsCalls' = (settingsCalls \ {c}) \cup
       IF c.kind = "name" /\ c.answer = "ok" THEN {[Setting("me", "none") EXCEPT !.mine = c.mine]} ELSE {}
  /\ settingUnheard' =
       (settingUnheard \/ (c.answer = "ok" /\ c.kind \in SettingChanges /\ ~c.mine))
  /\ UNCHANGED <<account, user, settingsMoves, zonePicked>>

\* The answer to a plain request: an error is a message that could not be sent, or a failure.
PlainAnswered(c) ==
  /\ c.kind \in Plain /\ settingsCalls' = settingsCalls \ {c}
  /\ \E ok \in BOOLEAN :
       /\ IF ok \/ c.kind = "test"
            THEN UNCHANGED settingsMoves
            ELSE settingsMoves < MaxSettingsMoves /\ settingsMoves' = settingsMoves + 1
       /\ settingsPage' = IF c.mine THEN AfterAnswer(c, ok) ELSE settingsPage
  /\ UNCHANGED <<account, user, settingsHistory>>

\* loadCurrentUser, which the session sends once, when it starts with a token.
UserLoaded(c) ==
  /\ c.kind = "user" /\ c.answer # "none"
  /\ settingsCalls' = settingsCalls \ {c}
  /\ \/ c.answer = "ok" /\ user' = User(c.seen) /\ settingsPage' = UserTold(settingsPage, user')
        /\ zonePicked' = FALSE
     \/ c.answer = "error" /\ UNCHANGED <<user, settingsPage, zonePicked>>
  /\ UNCHANGED <<account, settingsMoves, settingUnheard>>

-------------------------------------------------------------------------------

\* The page is opened by an address, which may name a section, while the session still loads
\* the user, or by a link.  Telegram and the consent are either both there or both missing:
\* the two sections share nothing.
SettingsInit ==
  /\ account \in {a \in Accounts : /\ a.name = (CHOOSE n \in Names : TRUE)
                                   /\ a.timezone = DefaultTimezone
                                   /\ (a.chat = "none") = (a.phone = "none")}
  /\ user \in {NoUser, User(account)}
  /\ \E section \in {"profile", "notifications"} :
       settingsPage = [FreshSettings(user) EXCEPT !.section = section]
  /\ settingsCalls = OpeningCalls \cup IF user.known THEN {} ELSE {Setting("user", "none")}
  /\ settingsMoves = 0 /\ zonePicked = FALSE /\ settingUnheard = FALSE

SettingsNext ==
  \/ StartEditName \/ CancelEditName \/ SaveName \/ TogglePasswordChange \/ SavePassword
  \/ SaveTimezone \/ ToggleTokenInput \/ TestConnection \/ SaveTelegramConfig
  \/ DeleteTelegramConfig \/ SaveSmsConsent \/ RevokeSmsConsent \/ ReopenSettings
  \/ \E n \in NameOrNone : TypeName(n)
  \/ \E p \in {"none", "short", "valid"} : TypePassword(p)
  \/ \E z \in Timezones : PickTimezone(z)
  \/ \E token \in BOOLEAN, chat \in ChatOrNone : TypeTelegram(token, chat)
  \/ \E phone \in PhoneOrNone \cup {"bad"}, checked \in BOOLEAN : TypeSms(phone, checked)
  \/ \E section \in Sections : SetSection(section)
  \/ \E c \in settingsCalls :
       \/ ServeSetting(c) \/ SettingFails(c)
       \/ SettingAnswered(c) \/ PlainAnswered(c) \/ UserLoaded(c)

SettingsSpec == SettingsInit /\ [][SettingsNext]_settingsVars

-------------------------------------------------------------------------------
(* Properties                                                              *)

\* The types of the account, the session's user, the page and its requests.
SettingsTypeOK ==
  /\ account \in Accounts
  /\ user \in [known : BOOLEAN, name : NameOrNone, timezone : Timezones]
  /\ settingsPage \in SettingsPageSet /\ settingsCalls \subseteq SettingCallSet
  /\ settingsMoves \in 0 .. MaxSettingsMoves
  /\ zonePicked \in BOOLEAN /\ settingUnheard \in BOOLEAN

\* loadSmsConsent, saveSmsConsent and revokeSmsConsent never overlap on a page, so that when
\* none is in flight the consent that is shown is the stored one, unless the load failed, or
\* the answer to a change was lost or came to a page that had been left.
ConsentIsCurrent ==
  ~settingsPage.isLoadingSms /\ ~settingUnheard
    /\ (\A c \in settingsCalls : c.kind \notin {"sms", "consent", "revoke"})
    => settingsPage.smsConsent = account.phone

\* While the name is being edited no answer changes what is typed: the session's user may
\* arrive late and does not overwrite it.
TypedNameStays ==
  [][settingsPage.editingName /\ settingsPage'.editingName
       /\ settingsPage'.editNameValue # settingsPage.editNameValue
     => settingsMoves' # settingsMoves]_settingsVars
===============================================================================
