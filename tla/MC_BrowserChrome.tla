--------------------------- MODULE MC_BrowserChrome ---------------------------
EXTENDS BrowserChrome

\* Three alerts: a SetAuth outcome can replace another caller's alert while
\* that alert's timer is pending, and a Login error can follow.
MCMaxAlerts == 3

\* Two SetAuth calls: Update can be pressed again before the first answers.
MCMaxSetAuth == 2

\* One Login call: a Login and a SetAuth answer can still race on /login.
MCMaxLogin == 1

=============================================================================
