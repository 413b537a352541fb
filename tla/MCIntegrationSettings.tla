------------------------ MODULE MCIntegrationSettings ------------------------
EXTENDS IntegrationSettings

MCBindings == {1, 2}
MCConns == {1}
==============================================================================
