------------------------------- MODULE LastForm -------------------------------
(***************************************************************************)
(* What becomes of the forms of connect.cgi (wificgi.c): LinkedLog with a  *)
(* history variable for the last form.  httpd copies the name and the      *)
(* password of a form one after the other, and so does the timer task with *)
(* what it finds, for the form it was armed by or for a later one.         *)
(***************************************************************************)
EXTENDS LinkedLog

VARIABLE last  \* the last form, if it came whole and was not refused since;
               \* nothing looks at it

formVars == <<linkedVars, last>>

FormInit == LinkedInit /\ last = NoNetwork

\* connect_cgi_post_handler has both and arms the timer.
Armed == httpd = "arm" /\ httpd' = "idle" /\ connectArmed'

\* Another form has begun, wifi_connect_to_ap returned at once, or the board
\* starts anew, with empty texts.
Forgotten ==
  \/ httpd' = "passwd"
  \/ connectArmed /\ ~connectArmed' /\ timer' # "password"
  \/ main' = "wifi"

FormNext ==
  /\ LinkedNext
  /\ last' = IF Armed THEN form ELSE IF Forgotten THEN NoNetwork ELSE last

FormSpec == FormInit /\ [][FormNext]_formVars

-----------------------------------------------------------------------------
(* Properties *)

\* The driver ends with the name and the password of the last form.  While
\* httpd copies the two, the timer that an earlier form armed may take one of
\* each; such a pair does not last, as the timer is armed again after the copy.
\* (A form that comes without a password does not arm it, and the pair it
\* leaves behind may stay.)
LastFormWins ==
  (/\ last # NoNetwork
   /\ ~connectArmed /\ timer \notin {"password", "conStop", "conConfig"})
    => staConfig = Pair(last, last)
=============================================================================
